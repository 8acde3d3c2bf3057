------------------------ MODULE AutoSyncFetchProofs ------------------------
(***************************************************************************)
(* What auto-sync guarantees of fetches, updates, its queues and the       *)
(* groups it asks for, for any folders, servers, messages and numbers of   *)
(* events.                                                                 *)
(***************************************************************************)
EXTENDS AutoSyncProofs, SequenceFilterProofs

Once(q) == \A i, j \in DOMAIN q : q[i] = q[j] => i = j
------------------------------------------------------------------------------
(***************************************************************************)
(* The queues of the manager.                                              *)
(***************************************************************************)
LEMMA ContainsIsRange ==
  ASSUME NEW S, NEW q \in Seq(S), NEW x
  PROVE  Contains(q, x) <=> x \in Range(q)
  BY Elements DEF Contains

LEMMA ConcatRange ==
  ASSUME NEW S, NEW p \in Seq(S), NEW q \in Seq(S)
  PROVE  p \o q \in Seq(S) /\ Range(p \o q) = Range(p) \cup Range(q)
  <1>1. /\ p \o q \in Seq(S) /\ Len(p \o q) = Len(p) + Len(q)
        /\ \A i \in 1..(Len(p) + Len(q)) :
             (p \o q)[i] = IF i <= Len(p) THEN p[i] ELSE q[i - Len(p)]
    BY ConcatProperties
  <1>2. /\ Len(p) \in Nat /\ Len(q) \in Nat /\ DOMAIN p = 1..Len(p) /\ DOMAIN q = 1..Len(q)
        /\ DOMAIN (p \o q) = 1..(Len(p) + Len(q))
    BY <1>1
  <1> DEFINE t == p \o q
  <1>3. /\ t \in Seq(S) /\ DOMAIN t = 1..(Len(p) + Len(q))
        /\ \A i \in 1..(Len(p) + Len(q)) : t[i] = IF i <= Len(p) THEN p[i] ELSE q[i - Len(p)]
    BY <1>1, <1>2
  <1> HIDE DEF t
  <1>4. ASSUME NEW i \in DOMAIN t PROVE t[i] \in Range(p) \cup Range(q)
    <2>1. CASE i <= Len(p)
      BY <1>2, <1>3, <2>1 DEF Range
    <2>2. CASE ~(i <= Len(p))
      <3>1. i - Len(p) \in DOMAIN q /\ t[i] = q[i - Len(p)]
        BY <1>2, <1>3, <2>2
      <3>2. QED
        BY <3>1 DEF Range
    <2>3. QED
      BY <2>1, <2>2
  <1>5. ASSUME NEW i \in DOMAIN p PROVE p[i] \in Range(t)
    <2>1. i \in DOMAIN t /\ t[i] = p[i]
      BY <1>2, <1>3
    <2>2. QED
      BY <2>1 DEF Range
  <1>6. ASSUME NEW i \in DOMAIN q PROVE q[i] \in Range(t)
    <2>1. i + Len(p) \in DOMAIN t /\ t[i + Len(p)] = q[i]
      BY <1>2, <1>3
    <2>2. QED
      BY <2>1 DEF Range
  <1>7. Range(t) = Range(p) \cup Range(q)
    <2>1. ASSUME NEW x \in Range(t) PROVE x \in Range(p) \cup Range(q)
      BY <1>4, <2>1 DEF Range
    <2>2. ASSUME NEW x \in Range(p) \cup Range(q) PROVE x \in Range(t)
      BY <1>5, <1>6, <2>2 DEF Range
    <2>3. QED
      BY <2>1, <2>2
  <1>8. QED
    BY <1>3, <1>7 DEF t

\* t is q with x at position i.
Inserted(t, q, i, x) ==
  /\ Len(t) = Len(q) + 1
  /\ \A k \in 1..(Len(q) + 1) : t[k] = IF k < i THEN q[k] ELSE IF k = i THEN x ELSE q[k - 1]

LEMMA InsertAtInserts ==
  ASSUME NEW S, NEW q \in Seq(S), NEW x \in S, NEW i \in 1..(Len(q) + 1)
  PROVE  InsertAt(q, i, x) \in Seq(S) /\ Inserted(InsertAt(q, i, x), q, i, x)
  <1> DEFINE before == SubSeq(q, 1, i - 1)
             after == SubSeq(q, i, Len(q))
             front == before \o <<x>>
  <1>1. Len(q) \in Nat /\ i \in Nat
    OBVIOUS
  <1>2. /\ before \in Seq(S) /\ Len(before) = i - 1
        /\ \A k \in 1..(i - 1) : before[k] = q[k]
    BY <1>1, SubSeqProperties
  <1>3. /\ after \in Seq(S) /\ Len(after) = Len(q) + 1 - i
        /\ \A k \in 1..(Len(q) + 1 - i) : after[k] = q[i + k - 1]
    <2>1. CASE i <= Len(q)
      BY <1>1, <2>1, SubSeqProperties
    <2>2. CASE i = Len(q) + 1
      BY <1>1, <2>2, SubSeqProperties
    <2>3. QED
      BY <1>1, <2>1, <2>2
  <1> HIDE DEF before, after
  <1>4. /\ front \in Seq(S) /\ Len(front) = i
        /\ \A k \in 1..i : front[k] = IF k < i THEN q[k] ELSE x
    BY <1>1, <1>2
  <1> HIDE DEF front
  <1>5. front \o after \in Seq(S) /\ Inserted(front \o after, q, i, x)
    <2>1. front \o after \in Seq(S) /\ Len(front \o after) = Len(q) + 1
      BY <1>1, <1>3, <1>4
    <2>2. ASSUME NEW k \in 1..(Len(q) + 1)
          PROVE (front \o after)[k] = IF k <= i THEN front[k] ELSE after[k - i]
      BY <1>1, <1>3, <1>4, ConcatProperties
    <2>3. ASSUME NEW k \in 1..(Len(q) + 1), k > i PROVE after[k - i] = q[k - 1]
      BY <1>1, <1>3, <2>3
    <2>4. QED
      BY <1>1, <1>4, <2>1, <2>2, <2>3 DEF Inserted
  <1>6. QED
    BY <1>5 DEF InsertAt, before, after, front

LEMMA InsertedFirst ==
  ASSUME NEW S, NEW q \in Seq(S), NEW x \in S
  PROVE  <<x>> \o q \in Seq(S) /\ Inserted(<<x>> \o q, q, 1, x)
  BY DEF Inserted

LEMMA InsertedProperties ==
  ASSUME NEW S, NEW q \in Seq(S), NEW x \in S, NEW i \in 1..(Len(q) + 1),
         NEW t \in Seq(S), Inserted(t, q, i, x)
  PROVE  /\ Range(t) = Range(q) \cup {x}
         /\ x \notin Range(q) /\ Once(q) => Once(t)
  <1>1. Len(q) \in Nat /\ DOMAIN q = 1..Len(q) /\ DOMAIN t = 1..(Len(q) + 1)
    BY DEF Inserted
  <1>2. ASSUME NEW k \in DOMAIN t
        PROVE  \/ k = i /\ t[k] = x
               \/ k < i /\ k \in DOMAIN q /\ t[k] = q[k]
               \/ k > i /\ k - 1 \in DOMAIN q /\ t[k] = q[k - 1]
    BY <1>1 DEF Inserted
  <1>3. i \in DOMAIN t /\ t[i] = x
    BY <1>1 DEF Inserted
  <1>4. ASSUME NEW k \in DOMAIN q PROVE \E j \in DOMAIN t : t[j] = q[k]
    <2>1. CASE k < i
      BY <1>1, <2>1 DEF Inserted
    <2>2. CASE ~(k < i)
      <3>1. k + 1 \in DOMAIN t /\ t[k + 1] = q[k]
        BY <1>1, <2>2 DEF Inserted
      <3>2. QED
        BY <3>1
    <2>3. QED
      BY <2>1, <2>2
  <1>5. Range(t) = Range(q) \cup {x}
    <2>1. ASSUME NEW y \in Range(t) PROVE y \in Range(q) \cup {x}
      BY <1>2, <2>1 DEF Range
    <2>2. ASSUME NEW y \in Range(q) \cup {x} PROVE y \in Range(t)
      BY <1>3, <1>4, <2>2 DEF Range
    <2>3. QED
      BY <2>1, <2>2
  <1>6. ASSUME x \notin Range(q), Once(q), NEW j \in DOMAIN t, NEW k \in DOMAIN t, t[j] = t[k]
        PROVE  j = k
    <2>1. \A n \in DOMAIN q : q[n] # x
      BY <1>6 DEF Range
    <2>2. \A m, n \in DOMAIN q : q[m] = q[n] => m = n
      BY <1>6 DEF Once
    <2>3. CASE j = i \/ k = i
      BY <1>1, <1>2, <1>6, <2>1, <2>3
    <2>4. CASE j # i /\ k # i
      BY <1>1, <1>2, <1>6, <2>2, <2>4
    <2>5. QED
      BY <2>3, <2>4
  <1>7. QED
    BY <1>5, <1>6 DEF Once

\* Where a folder is put: behind one that goes before it, or in front of one of
\* the same rank; all folders from there on do not go before it.
InPlace(q, i, f) ==
  /\ \A k \in i..Len(q) : Placement(q[k], f) \in {"higher", "same"}
  /\ \/ i = 1
     \/ i - 1 \in DOMAIN q /\ Placement(q[i - 1], f) = "lower"
     \/ i \in DOMAIN q /\ Placement(q[i], f) = "same"

LEMMA ScheduleInserts ==
  ASSUME NEW q \in Seq(Folders), NEW f \in Folders
  PROVE  LET t == ScheduleFolderForOfflineDownload(q, f) IN
         /\ f \in Range(q) => t = q
         /\ f \notin Range(q) =>
              t \in Seq(Folders) /\ \E i \in 1..(Len(q) + 1) : Inserted(t, q, i, f) /\ InPlace(q, i, f)
  <1>0. PICK t : t = ScheduleFolderForOfflineDownload(q, f)
    OBVIOUS
  <1> SUFFICES /\ f \in Range(q) => t = q
               /\ f \notin Range(q) =>
                    t \in Seq(Folders) /\ \E i \in 1..(Len(q) + 1) : Inserted(t, q, i, f) /\ InPlace(q, i, f)
    BY <1>0
  <1> DEFINE stops == {i \in DOMAIN q : Placement(q[i], f) # "higher"}
  <1>1. Contains(q, f) <=> f \in Range(q)
    BY ContainsIsRange
  <1>2. f \in Range(q) => t = q
    BY <1>0, <1>1 DEF ScheduleFolderForOfflineDownload
  <1>3. DOMAIN q = 1..Len(q) /\ Len(q) \in Nat
    OBVIOUS
  <1>4. \A a, b : Placement(a, b) \in {"lower", "higher", "same"}
    BY DEF Placement, Decision
  <1>5. CASE f \notin Range(q) /\ stops = {}
    <2>1. t = <<f>> \o q
      BY <1>0, <1>1, <1>5 DEF ScheduleFolderForOfflineDownload
    <2>2. InPlace(q, 1, f)
      BY <1>3, <1>5 DEF InPlace
    <2>3. t \in Seq(Folders) /\ Inserted(t, q, 1, f)
      BY <2>1, InsertedFirst
    <2>4. 1 \in 1..(Len(q) + 1)
      BY <1>3
    <2>5. QED
      BY <1>5, <2>2, <2>3, <2>4
  <1>6. CASE f \notin Range(q) /\ stops # {}
    <2>1. PICK at : at = stops
      OBVIOUS
    <2>2. at \in SUBSET (1..Len(q)) /\ at \subseteq Int /\ at # {}
      BY <1>3, <1>6, <2>1
    <2>3. IsFiniteSet(at)
      <3>1. IsFiniteSet(1..Len(q))
        BY <1>3, FS_Interval
      <3>2. QED
        BY <2>2, <3>1, FS_Subset
    <2>4. PICK m : m = Max(at)
      OBVIOUS
    <2>5. m \in at /\ \A k \in at : k <= m
      BY <2>2, <2>3, <2>4, Extremes
    <2>6. m \in DOMAIN q /\ Placement(q[m], f) # "higher"
      BY <2>1, <2>5
    <2>7. \A k \in DOMAIN q : k > m => Placement(q[k], f) = "higher"
      BY <1>3, <2>1, <2>5, <2>6
    <2>8. PICK i : i = IF Placement(q[m], f) = "lower" THEN m + 1 ELSE m
      OBVIOUS
    <2>9. t = InsertAt(q, i, f)
      BY <1>0, <1>1, <1>6, <2>1, <2>4, <2>8 DEF ScheduleFolderForOfflineDownload
    <2>10. i \in 1..(Len(q) + 1) /\ InPlace(q, i, f)
      <3>1. CASE Placement(q[m], f) = "lower"
        BY <1>3, <2>6, <2>7, <2>8, <3>1 DEF InPlace
      <3>2. CASE Placement(q[m], f) = "same"
        <4>1. i = m
          BY <2>8, <3>2
        <4>2. \A k \in i..Len(q) : Placement(q[k], f) \in {"higher", "same"}
          BY <1>3, <2>6, <2>7, <3>2, <4>1
        <4>3. QED
          BY <1>3, <2>6, <3>2, <4>1, <4>2 DEF InPlace
      <3>3. QED
        BY <1>4, <2>6, <3>1, <3>2
    <2>11. t \in Seq(Folders) /\ Inserted(t, q, i, f)
      BY <2>9, <2>10, InsertAtInserts
    <2>12. QED
      BY <1>6, <2>10, <2>11
  <1>7. QED
    BY <1>2, <1>5, <1>6

LEMMA ScheduleOK ==
  ASSUME NEW q \in Seq(Folders), NEW f \in Folders
  PROVE  LET t == ScheduleFolderForOfflineDownload(q, f) IN
         /\ t \in Seq(Folders) /\ Range(t) = Range(q) \cup {f}
         /\ Once(q) => Once(t)
  <1>1. PICK t : t = ScheduleFolderForOfflineDownload(q, f)
    OBVIOUS
  <1>2. CASE f \in Range(q)
    BY <1>1, <1>2, ScheduleInserts
  <1>3. CASE f \notin Range(q)
    <2>1. t \in Seq(Folders) /\ \E i \in 1..(Len(q) + 1) : Inserted(t, q, i, f)
      BY <1>1, <1>3, ScheduleInserts
    <2>2. Range(t) = Range(q) \cup {f} /\ (Once(q) => Once(t))
      BY <1>3, <2>1, InsertedProperties
    <2>3. QED
      BY <1>1, <2>1, <2>2
  <1>4. QED
    BY <1>2, <1>3

\* Removing folders from a queue.
LEMMA WithoutFolders ==
  ASSUME NEW q \in Seq(Folders), NEW X
  PROVE  /\ Without(q, X) \in Seq(Folders) /\ Range(Without(q, X)) = Range(q) \ X
         /\ Once(q) => Once(Without(q, X))
  BY WithoutProperties DEF Once

LEMMA TailFolders ==
  ASSUME NEW q \in Seq(Folders)
  PROVE  /\ TailOf(q) \in Seq(Folders) /\ Range(TailOf(q)) \subseteq Range(q)
         /\ q # <<>> => Head(q) \in Range(q) /\ Range(q) \subseteq Range(TailOf(q)) \cup {Head(q)}
  <1>1. CASE q = <<>>
    BY <1>1 DEF TailOf
  <1>2. CASE q # <<>>
    <2>1. PICK t : t = Tail(q)
      OBVIOUS
    <2>2. /\ t \in Seq(Folders) /\ Head(q) = q[1] /\ Len(q) \in Nat \ {0}
          /\ DOMAIN t = 1..(Len(q) - 1) /\ DOMAIN q = 1..Len(q)
          /\ \A i \in 1..(Len(q) - 1) : t[i] = q[i + 1]
      BY <1>2, <2>1, HeadTailProperties, EmptySeq, LenProperties
    <2>3. \A i \in DOMAIN t : t[i] \in Range(q)
      <3>1. \A i \in DOMAIN t : i + 1 \in DOMAIN q /\ t[i] = q[i + 1]
        BY <2>2
      <3>2. QED
        BY <3>1 DEF Range
    <2>4. \A i \in DOMAIN q : q[i] \in Range(t) \cup {Head(q)}
      <3>1. \A i \in DOMAIN q : i = 1 \/ (i - 1 \in DOMAIN t /\ t[i - 1] = q[i])
        BY <2>2
      <3>2. QED
        BY <2>2, <3>1 DEF Range
    <2>5. Head(q) \in Range(q)
      BY <2>2 DEF Range
    <2>6. Range(t) \subseteq Range(q)
      BY <2>3 DEF Range
    <2>7. Range(q) \subseteq Range(t) \cup {Head(q)}
      <3>1. ASSUME NEW x \in Range(q) PROVE x \in Range(t) \cup {Head(q)}
        <4>1. PICK i \in DOMAIN q : x = q[i]
          BY DEF Range
        <4>2. QED
          BY <2>4, <4>1
      <3>2. QED
        BY <3>1
    <2>8. TailOf(q) = t
      BY <1>2, <2>1 DEF TailOf
    <2>9. QED
      BY <2>2, <2>5, <2>6, <2>7, <2>8
  <1>3. QED
    BY <1>1, <1>2
------------------------------------------------------------------------------
(***************************************************************************)
(* Types.  The records of the folders are in AutoSyncProofs, the rest is   *)
(* what the queues and the maps of the folders hold.                       *)
(***************************************************************************)
QueuesTyped ==
  mDiscoveryQ \in Seq(Folders) /\ mUpdateQ \in Seq(Folders) /\ mPriorityQ \in Seq(Folders)

FlagsTyped ==
  /\ mUpdateState \in {"completed", "initiated"}
  /\ mIdleState \in {"notIdle", "systemIdle", "appIdle"}
  /\ mPaused \in BOOLEAN /\ mTimer \in BOOLEAN /\ mStartupDone \in BOOLEAN
  /\ online \in BOOLEAN /\ events \in Nat

UrlsTyped ==
  /\ status \in [Folders -> Nat]
  /\ select \in [Folders -> {"none", "running", "fetched", "bodies"}]
  /\ listening \subseteq Folders
  /\ where \in [Messages -> {"future", "server", "header", "offline", "deleted"}]

Typed == IInv /\ QueuesTyped /\ FlagsTyped /\ UrlsTyped /\ windows \subseteq Folders

LEMMA TypedImpliesTypeOK == Typed => TypeOK
  <1> SUFFICES ASSUME Typed PROVE TypeOK
    OBVIOUS
  <1>1. ASSUME NEW f \in Folders PROVE sync[f] \in SyncRecord
    <2>1. MessagesOf(f) \subseteq Messages
      BY DEF MessagesOf
    <2>2. SUBSET MessagesOf(f) \subseteq SUBSET Messages
      BY <2>1
    <2>3. sync[f] \in FolderRecord(MessagesOf(f))
      BY DEF Typed, IInv, SyncOK, QueueOver
    <2>4. sync[f].fetches \in Seq(SUBSET Messages)
      BY <2>2, <2>3 DEF FolderRecord
    <2>5. QED
      BY <2>1, <2>3, <2>4 DEF FolderRecord, SyncRecord
  <1>2. sync \in [Folders -> SyncRecord]
    BY <1>1 DEF Typed, IInv, SyncOK
  <1>3. QED
    BY <1>2 DEF Typed, IInv, QueuesTyped, FlagsTyped, UrlsTyped, TypeOK

LEMMA InitTyped == Init => Typed
  <1> SUFFICES ASSUME Init PROVE Typed
    OBVIOUS
  <1>1. QueuesTyped
    BY DEF Init, QueuesTyped
  <1>2. FlagsTyped
    BY DEF Init, FlagsTyped
  <1>3. UrlsTyped
    BY DEF Init, UrlsTyped
  <1>4. QED
    BY <1>1, <1>2, <1>3, InitOK DEF Typed, Init

\* The priority queue is changed in two ways only.
PriorityQChanges ==
  \/ mPriorityQ' = mPriorityQ
  \/ \E f \in Folders : mPriorityQ' = ScheduleFolderForOfflineDownload(mPriorityQ, f)
  \/ \E X : mPriorityQ' = Without(mPriorityQ, X)

LEMMA PlacedQueue ==
  ASSUME NEW f \in Folders, NEW keys, NEW t, t = PlaceIntoDownloadQ(f, keys).queue
  PROVE  t \in {mPriorityQ, ScheduleFolderForOfflineDownload(mPriorityQ, f)}
  BY DEF PlaceIntoDownloadQ, OnDownloadQChanged, AskForFirstGroup, FirstGroupAsked

LEMMA DiscoveryQueue ==
  ASSUME alive \subseteq Folders, NEW t, t = ProcessDiscoveryQ.queue
  PROVE  \/ t = mPriorityQ
         \/ \E f \in Folders : t = ScheduleFolderForOfflineDownload(mPriorityQ, f)
  <1>1. CASE mDiscoveryQ # <<>> /\ Head(mDiscoveryQ) \in alive
    <2>1. PICK f : f = Head(mDiscoveryQ)
      OBVIOUS
    <2>2. PICK keys : t = PlaceIntoDownloadQ(f, keys).queue
      BY <1>1, <2>1 DEF ProcessDiscoveryQ, ProcessExistingHeaders, AfterBatch
    <2>3. QED
      BY <1>1, <2>1, <2>2, PlacedQueue
  <1>2. CASE ~(mDiscoveryQ # <<>> /\ Head(mDiscoveryQ) \in alive)
    BY <1>2 DEF ProcessDiscoveryQ
  <1>3. QED
    BY <1>1, <1>2

LEMMA PriorityQStep ==
  ASSUME IInv, [Next]_vars
  PROVE  PriorityQChanges
  <1>1. CASE Idle
    BY <1>1 DEF Idle, AppIdle, SystemIdle, StartIdleProcessing, ProcessPriorityQ, PriorityQChanges
  <1>2. CASE UserBack \/ StartupDone \/ GoOnline \/ UNCHANGED vars
    BY <1>2 DEF UserBack, Back, StartupDone, GoOnline, vars, manager, PriorityQChanges
  <1>3. CASE TimerCallback
    <2>1. mPriorityQ' = ProcessDiscoveryQ.queue
      BY <1>3 DEF TimerCallback
    <2>2. QED
      BY <2>1, DiscoveryQueue DEF IInv, PriorityQChanges
  <1>4. ASSUME NEW f \in Folders, UrlProgress(f) PROVE PriorityQChanges
    <2>1. CASE HeaderFetchCompleted(f)
      <3>1. CASE mPriorityQ' = mPriorityQ
        BY <3>1 DEF PriorityQChanges
      <3>2. ASSUME NEW keys, mPriorityQ' = PlaceIntoDownloadQ(f, keys).queue PROVE PriorityQChanges
        BY <3>2, PlacedQueue DEF PriorityQChanges
      <3>3. QED
        BY <2>1, <3>1, <3>2 DEF HeaderFetchCompleted
    <2>2. CASE SelectStops(f) \/ \E m \in MessagesOf(f) : HeaderParsed(m) \/ BodyStored(f, m)
      BY <2>2 DEF SelectStops, HeaderParsed, BodyStored, manager, PriorityQChanges
    <2>3. ASSUME NEW ok, NEW changed, NEW r, OnStopRunningUrl(f, ok, changed, r)
          PROVE  PriorityQChanges
      BY <2>3 DEF OnStopRunningUrl, OnGroupDownloaded, OnFolderDownloaded, OnDownloadFailed,
                  PriorityQChanges
    <2>4. QED
      BY <1>4, <2>1, <2>2, <2>3 DEF UrlProgress, StatusStops, DownloadStops
  <1>5. CASE Surroundings
    BY <1>5 DEF Surroundings, GoOffline, MessageArrives, MessageDeleted, UserOpens, UserCloses,
                OnFolderHasPendingMsgs, FolderDeleted, manager, PriorityQChanges
  <1>6. QED
    BY <1>1, <1>2, <1>3, <1>4, <1>5 DEF Next

LEMMA PriorityQTyped ==
  ASSUME mPriorityQ \in Seq(Folders), PriorityQChanges
  PROVE  mPriorityQ' \in Seq(Folders)
  BY ScheduleOK, WithoutFolders DEF PriorityQChanges

LEMMA UpdateFolders ==
  ASSUME QueuesTyped, AutoUpdateFolders
  PROVE  mUpdateQ' \in Seq(Folders) /\ mDiscoveryQ' \in Seq(Folders) /\ mTimer' \in BOOLEAN
  <1>1. FolderOrder \in Seq(Folders)
    BY ConstantsAssumption DEF ConstantsAssumption
  <1>2. PICK X, Y : /\ mUpdateQ' = mUpdateQ \o Without(FolderOrder, X)
                    /\ mDiscoveryQ' = mDiscoveryQ \o Without(FolderOrder, Y)
    BY DEF AutoUpdateFolders
  <1>3. PICK u, d : u = Without(FolderOrder, X) /\ d = Without(FolderOrder, Y)
    OBVIOUS
  <1>4. u \in Seq(Folders) /\ d \in Seq(Folders)
    BY <1>1, <1>3, WithoutFolders
  <1>5. mUpdateQ' \in Seq(Folders) /\ mDiscoveryQ' \in Seq(Folders)
    BY <1>2, <1>3, <1>4 DEF QueuesTyped
  <1>6. mTimer' \in BOOLEAN
    BY DEF AutoUpdateFolders, StartTimerIfNeeded
  <1>7. QED
    BY <1>5, <1>6

LEMMA IdleTyped ==
  ASSUME Typed, Idle
  PROVE  /\ mUpdateQ' \in Seq(Folders) /\ mDiscoveryQ' \in Seq(Folders)
         /\ FlagsTyped' /\ UrlsTyped'
  <1>1. UNCHANGED <<mUpdateState, mPaused, mStartupDone, folderVars, world>>
    BY DEF Idle, AppIdle, SystemIdle
  <1>2. mIdleState' \in {"systemIdle", "appIdle"}
    BY DEF Idle, AppIdle, SystemIdle
  <1>3. StartIdleProcessing \/ UNCHANGED <<sync, mPriorityQ, mUpdateQ, mDiscoveryQ, mTimer>>
    BY DEF Idle, AppIdle, SystemIdle
  <1>4. /\ mUpdateQ' \in Seq(Folders) /\ mDiscoveryQ' \in Seq(Folders) /\ mTimer' \in BOOLEAN
    <2>1. CASE ProcessPriorityQ
      BY <2>1, UpdateFolders DEF ProcessPriorityQ, Typed
    <2>2. CASE UNCHANGED <<mUpdateQ, mDiscoveryQ>> /\ (UNCHANGED mTimer \/ StartTimerIfNeeded)
      BY <2>2 DEF StartTimerIfNeeded, Typed, QueuesTyped, FlagsTyped
    <2>3. QED
      BY <1>3, <2>1, <2>2 DEF StartIdleProcessing
  <1>5. FlagsTyped'
    BY <1>1, <1>2, <1>4 DEF Typed, FlagsTyped, world
  <1>6. UrlsTyped'
    BY <1>1 DEF Typed, UrlsTyped, folderVars, world
  <1>7. QED
    BY <1>4, <1>5, <1>6

LEMMA UpdateFolderTyped ==
  ASSUME UrlsTyped, NEW f \in Folders, NEW listeners \in SUBSET Folders,
         UpdateFolderWithListener(f, listeners)
  PROVE  /\ select' \in [Folders -> {"none", "running", "fetched", "bodies"}]
         /\ listening' \subseteq Folders
  BY DEF UpdateFolderWithListener, PlayBackFirst, UrlsTyped

LEMMA FolderUpdateTyped ==
  ASSUME UrlsTyped, NEW f \in Folders, NEW listeners \in SUBSET Folders,
         UpdateFolder(f, listeners)
  PROVE  /\ select' \in [Folders -> {"none", "running", "fetched", "bodies"}]
         /\ listening' \subseteq Folders
  BY UpdateFolderTyped DEF UpdateFolder, CannotUpdate, UrlsTyped

LEMMA UpdateEndedTyped ==
  ASSUME QueuesTyped, UpdateEnded
  PROVE  mUpdateQ' \in Seq(Folders) /\ mUpdateState' = "completed"
  <1>1. PICK q : q = TailOf(mUpdateQ)
    OBVIOUS
  <1>2. q \in Seq(Folders)
    BY <1>1, TailFolders DEF QueuesTyped
  <1>3. QED
    BY <1>1, <1>2 DEF UpdateEnded

LEMMA HeadAndTail ==
  ASSUME NEW q \in Seq(Folders), q # <<>>
  PROVE  Head(q) \in Folders /\ Tail(q) \in Seq(Folders)
  OBVIOUS

LEMMA InitiateTyped ==
  ASSUME Typed, mUpdateQ # <<>>, NEW s, NEW f \in Folders, InitiateAutoSync(s, f)
  PROVE  /\ mUpdateQ' \in Seq(Folders) /\ mUpdateState' \in {"initiated", mUpdateState}
         /\ status' \in [Folders -> Nat]
         /\ select' \in [Folders -> {"none", "running", "fetched", "bodies"}] /\ listening' \subseteq Folders
  <1>1. Tail(mUpdateQ) \in Seq(Folders)
    BY HeadAndTail DEF Typed, QueuesTyped
  <1>2. CASE s[f].state = "updateNeeded" /\ UpdateFolderWithListener(f, {f})
               /\ mUpdateState' = "initiated" /\ UNCHANGED <<mUpdateQ, status>>
    BY <1>2, UpdateFolderTyped DEF Typed, QueuesTyped, UrlsTyped
  <1>3. CASE /\ s[f].state = "completedIdle" /\ UNCHANGED <<select, listening>>
             /\ \/ /\ status' = [status EXCEPT ![f] = status[f] + 1]
                   /\ mUpdateState' = "initiated" /\ UNCHANGED mUpdateQ
                \/ mUpdateQ' = Tail(mUpdateQ) /\ UNCHANGED <<status, mUpdateState>>
    <2>1. select' \in [Folders -> {"none", "running", "fetched", "bodies"}] /\ listening' \subseteq Folders
      BY <1>3 DEF Typed, UrlsTyped
    <2>2. CASE /\ status' = [status EXCEPT ![f] = status[f] + 1]
               /\ mUpdateState' = "initiated" /\ UNCHANGED mUpdateQ
      <3>1. status[f] + 1 \in Nat
        BY DEF Typed, UrlsTyped
      <3>2. QED
        BY <2>1, <2>2, <3>1 DEF Typed, QueuesTyped, UrlsTyped
    <2>3. CASE mUpdateQ' = Tail(mUpdateQ) /\ UNCHANGED <<status, mUpdateState>>
      BY <1>1, <2>1, <2>3 DEF Typed, UrlsTyped
    <2>4. QED
      BY <1>3, <2>2, <2>3
  <1>4. CASE CannotUpdate /\ mUpdateQ' = Tail(mUpdateQ) /\ UNCHANGED <<status, mUpdateState>>
    BY <1>1, <1>4 DEF CannotUpdate, Typed, UrlsTyped
  <1>5. QED
    BY <1>2, <1>3, <1>4 DEF InitiateAutoSync

LEMMA TimerTyped ==
  ASSUME Typed, TimerCallback
  PROVE  /\ mUpdateQ' \in Seq(Folders) /\ mDiscoveryQ' \in Seq(Folders)
         /\ FlagsTyped' /\ UrlsTyped'
  <1>1. /\ UNCHANGED <<mIdleState, mPaused, mStartupDone, world>> /\ mTimer' \in BOOLEAN
        /\ \E s : ProcessUpdateQ(s)
    BY DEF TimerCallback
  <1>2. mDiscoveryQ' \in Seq(Folders)
    <2>1. mDiscoveryQ' = mDiscoveryQ \/ (mDiscoveryQ # <<>> /\ mDiscoveryQ' = Tail(mDiscoveryQ))
      BY DEF TimerCallback, ProcessDiscoveryQ
    <2>2. QED
      BY <2>1, HeadAndTail DEF Typed, QueuesTyped
  <1>3. /\ mUpdateQ' \in Seq(Folders) /\ mUpdateState' \in {"initiated", mUpdateState}
        /\ status' \in [Folders -> Nat]
        /\ select' \in [Folders -> {"none", "running", "fetched", "bodies"}] /\ listening' \subseteq Folders
    <2>1. PICK s : ProcessUpdateQ(s)
      BY <1>1
    <2>2. CASE UNCHANGED <<mUpdateState, folderVars>>
               /\ (UNCHANGED mUpdateQ \/ (mUpdateQ # <<>> /\ mUpdateQ' = Tail(mUpdateQ)))
      BY <2>2, HeadAndTail DEF Typed, QueuesTyped, UrlsTyped, folderVars
    <2>3. CASE mUpdateQ # <<>> /\ InitiateAutoSync(s, Head(mUpdateQ))
      <3>1. Head(mUpdateQ) \in Folders
        BY <2>3, HeadAndTail DEF Typed, QueuesTyped
      <3>2. QED
        BY <2>3, <3>1, InitiateTyped
    <2>4. QED
      BY <2>1, <2>2, <2>3 DEF ProcessUpdateQ
  <1>4. QED
    BY <1>1, <1>2, <1>3 DEF Typed, FlagsTyped, UrlsTyped, world

LEMMA FailureTyped ==
  ASSUME events \in Nat, NEW b, Failure(b) \/ Event(b) \/ UNCHANGED events
  PROVE  events' \in Nat
  BY DEF Failure, Event

LEMMA StopTyped ==
  ASSUME Typed, NEW f \in Folders, NEW ok, NEW changed, NEW r, OnStopRunningUrl(f, ok, changed, r)
  PROVE  /\ mUpdateQ' \in Seq(Folders) /\ mUpdateState' \in {"completed", mUpdateState}
         /\ select' \in [Folders -> {"none", "running", "fetched", "bodies"}] /\ listening' \subseteq Folders
  <1>1. CASE UpdateFolder(f, {f}) /\ UNCHANGED <<mUpdateQ, mUpdateState>>
    BY <1>1, FolderUpdateTyped DEF Typed, QueuesTyped, UrlsTyped
  <1>2. CASE UpdateEnded /\ UNCHANGED <<select, listening>>
    BY <1>2, UpdateEndedTyped DEF Typed, QueuesTyped, UrlsTyped
  <1>3. CASE UNCHANGED <<mUpdateQ, mUpdateState, select, listening>>
    BY <1>3 DEF Typed, QueuesTyped, UrlsTyped
  <1>4. QED
    BY <1>1, <1>2, <1>3 DEF OnStopRunningUrl

LEMMA UrlProgressTyped ==
  ASSUME Typed, NEW f \in Folders, UrlProgress(f)
  PROVE  /\ mUpdateQ' \in Seq(Folders) /\ mDiscoveryQ' \in Seq(Folders)
         /\ FlagsTyped' /\ UrlsTyped'
  <1>1. CASE HeaderFetchCompleted(f)
    <2>1. UNCHANGED <<mDiscoveryQ, mUpdateQ, mUpdateState, mIdleState, mPaused, mTimer,
                      mStartupDone, status, listening, world>>
          /\ \E u \in {"fetched", "bodies"} : select' = [select EXCEPT ![f] = u]
      BY <1>1 DEF HeaderFetchCompleted
    <2>2. QED
      BY <2>1 DEF Typed, QueuesTyped, FlagsTyped, UrlsTyped, world
  <1>2. CASE SelectStops(f)
    <2>1. /\ UNCHANGED <<mDiscoveryQ, mIdleState, mPaused, mTimer, mStartupDone, status, where, online>>
          /\ select' = [select EXCEPT ![f] = "none"] /\ listening' = listening \ {f}
          /\ UpdateEnded \/ UNCHANGED <<mUpdateState, mUpdateQ>>
      BY <1>2 DEF SelectStops
    <2>2. events' \in Nat
      BY <1>2, FailureTyped DEF SelectStops, Typed, FlagsTyped
    <2>3. mUpdateQ' \in Seq(Folders) /\ mUpdateState' \in {"completed", mUpdateState}
      BY <2>1, UpdateEndedTyped DEF Typed, QueuesTyped
    <2>4. UrlsTyped'
      BY <2>1 DEF Typed, UrlsTyped
    <2>5. QED
      BY <2>1, <2>2, <2>3, <2>4 DEF Typed, QueuesTyped, FlagsTyped
  <1>3. ASSUME NEW m \in MessagesOf(f), HeaderParsed(m) \/ BodyStored(f, m)
        PROVE  /\ mUpdateQ' \in Seq(Folders) /\ mDiscoveryQ' \in Seq(Folders)
               /\ FlagsTyped' /\ UrlsTyped'
    <2>1. /\ UNCHANGED <<manager, folderVars, online, events>>
          /\ \E w \in {"header", "offline"} : where' = [where EXCEPT ![m] = w]
      BY <1>3 DEF HeaderParsed, BodyStored
    <2>2. where' \in [Messages -> {"future", "server", "header", "offline", "deleted"}]
      BY <2>1 DEF Typed, UrlsTyped
    <2>3. QED
      BY <2>1, <2>2 DEF Typed, QueuesTyped, FlagsTyped, UrlsTyped, manager, folderVars
  <1>4. ASSUME NEW ok \in BOOLEAN, NEW changed \in BOOLEAN, StatusStops(f, ok, changed)
        PROVE  /\ mUpdateQ' \in Seq(Folders) /\ mDiscoveryQ' \in Seq(Folders)
               /\ FlagsTyped' /\ UrlsTyped'
    <2>1. /\ UNCHANGED <<mDiscoveryQ, mIdleState, mPaused, mTimer, mStartupDone, where, online>>
          /\ status[f] > 0 /\ status' = [status EXCEPT ![f] = status[f] - 1]
          /\ OnStopRunningUrl(f, ok, changed, sync[f])
      BY <1>4 DEF StatusStops
    <2>2. events' \in Nat
      <3>1. Failure("statusFails") \/ UNCHANGED events \/ Event("noNews")
        BY <1>4 DEF StatusStops
      <3>2. QED
        BY <3>1, FailureTyped DEF Typed, FlagsTyped
    <2>3. /\ mUpdateQ' \in Seq(Folders) /\ mUpdateState' \in {"completed", mUpdateState}
          /\ select' \in [Folders -> {"none", "running", "fetched", "bodies"}] /\ listening' \subseteq Folders
      BY <2>1, StopTyped
    <2>4. status' \in [Folders -> Nat]
      BY <2>1 DEF Typed, UrlsTyped
    <2>5. FlagsTyped'
      BY <2>1, <2>2, <2>3 DEF Typed, FlagsTyped
    <2>6. UrlsTyped'
      BY <2>1, <2>3, <2>4 DEF Typed, UrlsTyped
    <2>7. QED
      BY <2>1, <2>3, <2>5, <2>6 DEF Typed, QueuesTyped
  <1>5. ASSUME NEW ok \in BOOLEAN, DownloadStops(f, ok)
        PROVE  /\ mUpdateQ' \in Seq(Folders) /\ mDiscoveryQ' \in Seq(Folders)
               /\ FlagsTyped' /\ UrlsTyped'
    <2>1. /\ UNCHANGED <<mDiscoveryQ, mIdleState, mPaused, mTimer, mStartupDone, status, where, online>>
          /\ \E changed, r : OnStopRunningUrl(f, ok, changed, r)
      BY <1>5 DEF DownloadStops
    <2>2. events' \in Nat
      <3>1. Failure("failures") \/ UNCHANGED events
        BY <1>5 DEF DownloadStops
      <3>2. QED
        BY <3>1, FailureTyped DEF Typed, FlagsTyped
    <2>3. /\ mUpdateQ' \in Seq(Folders) /\ mUpdateState' \in {"completed", mUpdateState}
          /\ select' \in [Folders -> {"none", "running", "fetched", "bodies"}] /\ listening' \subseteq Folders
      BY <2>1, StopTyped
    <2>4. FlagsTyped'
      BY <2>1, <2>2, <2>3 DEF Typed, FlagsTyped
    <2>5. UrlsTyped'
      BY <2>1, <2>3 DEF Typed, UrlsTyped
    <2>6. QED
      BY <2>1, <2>3, <2>4, <2>5 DEF Typed, QueuesTyped
  <1>6. QED
    BY <1>1, <1>2, <1>3, <1>4, <1>5 DEF UrlProgress

LEMMA SurroundingsTyped ==
  ASSUME Typed, Surroundings
  PROVE  /\ mUpdateQ' \in Seq(Folders) /\ mDiscoveryQ' \in Seq(Folders)
         /\ FlagsTyped' /\ UrlsTyped'
  <1>1. CASE GoOffline
    <2>1. events' \in Nat
      BY <1>1, FailureTyped DEF GoOffline, Typed, FlagsTyped
    <2>2. QED
      BY <1>1, <2>1 DEF GoOffline, Typed, QueuesTyped, FlagsTyped, UrlsTyped, folderVars
  <1>2. ASSUME NEW m \in Messages, MessageArrives(m) \/ MessageDeleted(m)
        PROVE  /\ mUpdateQ' \in Seq(Folders) /\ mDiscoveryQ' \in Seq(Folders)
               /\ FlagsTyped' /\ UrlsTyped'
    <2>1. /\ UNCHANGED <<manager, folderVars, online>>
          /\ \E w \in {"server", "deleted"} : where' = [where EXCEPT ![m] = w]
          /\ UNCHANGED events \/ Event("deletions")
      BY <1>2 DEF MessageArrives, MessageDeleted
    <2>2. where' \in [Messages -> {"future", "server", "header", "offline", "deleted"}]
      BY <2>1 DEF Typed, UrlsTyped
    <2>3. events' \in Nat
      BY <2>1, FailureTyped DEF Typed, FlagsTyped
    <2>4. QED
      BY <2>1, <2>2, <2>3 DEF Typed, QueuesTyped, FlagsTyped, UrlsTyped, manager, folderVars
  <1>3. ASSUME NEW f \in Folders, UserOpens(f)
        PROVE  /\ mUpdateQ' \in Seq(Folders) /\ mDiscoveryQ' \in Seq(Folders)
               /\ FlagsTyped' /\ UrlsTyped'
    <2>1. /\ UNCHANGED <<manager, status, where, online>>
          /\ UpdateFolder(f, {}) /\ Event("opens")
      BY <1>3 DEF UserOpens
    <2>2. /\ select' \in [Folders -> {"none", "running", "fetched", "bodies"}] /\ listening' \subseteq Folders
      BY <2>1, FolderUpdateTyped DEF Typed
    <2>3. events' \in Nat
      BY <2>1, FailureTyped DEF Typed, FlagsTyped
    <2>4. QED
      BY <2>1, <2>2, <2>3 DEF Typed, QueuesTyped, FlagsTyped, UrlsTyped, manager
  <1>4. ASSUME NEW f \in Folders, FolderDeleted(f)
        PROVE  /\ mUpdateQ' \in Seq(Folders) /\ mDiscoveryQ' \in Seq(Folders)
               /\ FlagsTyped' /\ UrlsTyped'
    <2>1. /\ UNCHANGED <<manager, folderVars, online>> /\ Event("removals")
          /\ where' = [m \in Messages |-> IF Home[m] = f THEN "deleted" ELSE where[m]]
      BY <1>4 DEF FolderDeleted
    <2>2. where' \in [Messages -> {"future", "server", "header", "offline", "deleted"}]
      BY <2>1 DEF Typed, UrlsTyped
    <2>3. events' \in Nat
      BY <2>1, FailureTyped DEF Typed, FlagsTyped
    <2>4. QED
      BY <2>1, <2>2, <2>3 DEF Typed, QueuesTyped, FlagsTyped, UrlsTyped, manager, folderVars
  <1>5. ASSUME NEW m \in Messages, OnFolderHasPendingMsgs(Home[m], m)
        PROVE  /\ mUpdateQ' \in Seq(Folders) /\ mDiscoveryQ' \in Seq(Folders)
               /\ FlagsTyped' /\ UrlsTyped'
    <2>1. PICK f : f = Home[m] /\ f \in Folders
      BY ConstantsAssumption DEF ConstantsAssumption
    <2>2. /\ UNCHANGED <<mDiscoveryQ, mUpdateState, mIdleState, mPaused, mTimer, mStartupDone,
                         folderVars, online>>
          /\ where' = [where EXCEPT ![m] = "server"] /\ Event("moves")
          /\ mUpdateQ' = <<f>> \o mUpdateQ \/ mUpdateQ' = Append(mUpdateQ, f)
      BY <1>5, <2>1 DEF OnFolderHasPendingMsgs
    <2>3. events' \in Nat
      BY <2>2, FailureTyped DEF Typed, FlagsTyped
    <2>4. mUpdateQ' \in Seq(Folders)
      <3>1. /\ mUpdateQ \in Seq(Folders) /\ <<f>> \in Seq(Folders)
            /\ <<f>> \o mUpdateQ \in Seq(Folders) /\ Append(mUpdateQ, f) \in Seq(Folders)
        BY <2>1 DEF Typed, QueuesTyped
      <3>2. QED
        BY <2>2, <3>1
    <2>5. QED
      BY <2>2, <2>3, <2>4 DEF Typed, QueuesTyped, FlagsTyped, UrlsTyped, folderVars
  <1>6. ASSUME NEW f \in Folders, UserCloses(f)
        PROVE  /\ mUpdateQ' \in Seq(Folders) /\ mDiscoveryQ' \in Seq(Folders)
               /\ FlagsTyped' /\ UrlsTyped'
    BY <1>6 DEF UserCloses, Typed, QueuesTyped, FlagsTyped, UrlsTyped, manager, folderVars
  <1>7. QED
    BY <1>1, <1>2, <1>3, <1>4, <1>5, <1>6 DEF Surroundings

\* Windows are opened on folders only.
LEMMA WindowsTyped ==
  ASSUME windows \subseteq Folders, [Next]_vars
  PROVE  windows' \subseteq Folders
  <1>1. CASE Idle \/ UserBack \/ StartupDone \/ GoOnline \/ TimerCallback
    BY <1>1 DEF Idle, AppIdle, SystemIdle, UserBack, Back, StartupDone, GoOnline, TimerCallback, world
  <1>2. ASSUME NEW f \in Folders, UrlProgress(f) PROVE windows' = windows
    BY <1>2 DEF UrlProgress, HeaderFetchCompleted, SelectStops, HeaderParsed, BodyStored,
                StatusStops, DownloadStops, world
  <1>3. CASE Surroundings
    BY <1>3 DEF Surroundings, GoOffline, MessageArrives, MessageDeleted, UserOpens, UserCloses,
                OnFolderHasPendingMsgs, FolderDeleted
  <1>4. CASE UNCHANGED vars
    BY <1>4 DEF vars, world
  <1>5. QED
    BY <1>1, <1>2, <1>3, <1>4 DEF Next

LEMMA NextTyped == Typed /\ [Next]_vars => Typed'
  <1> SUFFICES ASSUME Typed, [Next]_vars PROVE Typed'
    OBVIOUS
  <1>1. IInv'
    BY NextOK DEF Typed
  <1>2. mPriorityQ' \in Seq(Folders)
    BY PriorityQStep, PriorityQTyped DEF Typed, QueuesTyped
  <1>3. /\ mUpdateQ' \in Seq(Folders) /\ mDiscoveryQ' \in Seq(Folders)
        /\ FlagsTyped' /\ UrlsTyped'
    <2>1. CASE UserBack \/ StartupDone
      BY <2>1 DEF UserBack, Back, StartupDone, Typed, QueuesTyped, FlagsTyped, UrlsTyped,
                  folderVars, world
    <2>2. CASE GoOnline
      BY <2>2 DEF GoOnline, StartTimerIfNeeded, Typed, QueuesTyped, FlagsTyped, UrlsTyped, folderVars
    <2>3. CASE UNCHANGED vars
      BY <2>3 DEF vars, manager, folderVars, world, Typed, QueuesTyped, FlagsTyped, UrlsTyped
    <2>4. QED
      BY <2>1, <2>2, <2>3, IdleTyped, TimerTyped, UrlProgressTyped, SurroundingsTyped DEF Next
  <1>4. windows' \subseteq Folders
    BY WindowsTyped DEF Typed
  <1>5. QED
    BY <1>1, <1>2, <1>3, <1>4 DEF Typed, QueuesTyped

\* TypeOK holds in every reachable state, whatever the surroundings do: the
\* queues of nsAutoSyncManager hold folders only, no STATUS request is counted
\* below zero, and the retry counter stays within kGroupRetryCount.
THEOREM TypeCorrect == Spec => []TypeOK
  BY InitTyped, NextTyped, TypedImpliesTypeOK, PTL DEF Spec
------------------------------------------------------------------------------
(***************************************************************************)
(* Fetches.  The invariant ties the state of a folder to its fetches, to   *)
(* the priority queue and to the semaphore; in the chained model at most   *)
(* one folder of a server downloads.                                       *)
(*                                                                         *)
(* It needs that nobody looks at headers of a folder that fetches, and, in *)
(* the chained model, that no messages are moved: both overwrite the state *)
(* "downloadInProgress" while the fetch still runs.  In the parallel model *)
(* nobody else depends on that state, so that only the folder concerned is *)
(* in one of the states of Overwritten.                                    *)
(***************************************************************************)
Active == {"readyToDownload", "downloadInProgress"}
Overwritten == IF "moves" \in Behaviours THEN {"updateNeeded", "updateIssued"} ELSE {}

Calm == "overlap" \notin Behaviours /\ (Chained => "moves" \notin Behaviours)
OnlineOK == "offline" \notin Behaviours => online

Unlocked(r) == r.fetches = <<>> /\ ("offline" \notin Behaviours => ~r.locked)
Waiting(r) == r.state = "readyToDownload" /\ Unlocked(r)
Fetching(r) == r.state = "downloadInProgress" /\ Len(r.fetches) = 1

\* r is the record of f, q the priority queue.
FolderOK(f, r, q) ==
  /\ \/ Unlocked(r) /\ r.state # "downloadInProgress"
     \/ /\ Len(r.fetches) = 1 /\ r.fetches # <<>>
        /\ r.state \in {"downloadInProgress"} \cup Overwritten
        /\ f \in alive /\ f \in Range(q)
  /\ f \in Range(q) => r.state \in Active \cup Overwritten
  /\ r.state \in Active => f \in Range(q)

OnePerServer(s) ==
  Chained => \A f, g \in Folders :
               f # g /\ ServerOf[f] = ServerOf[g]
                 => ~(s[f].state = "downloadInProgress" /\ s[g].state = "downloadInProgress")

FetchOK(s, q) == (\A f \in Folders : FolderOK(f, s[f], q)) /\ OnePerServer(s)

\* Nobody downloads from the server of f.
Free(s, f) ==
  Chained => \A g \in Folders : IsSibling(f, g) => s[g].state # "downloadInProgress"

LEMMA RecordFields ==
  ASSUME NEW S, NEW r, QueueOver(S, r)
  PROVE  /\ GetNextGroupOfMessages(r).state = r.state
         /\ GetNextGroupOfMessages(r).fetches = r.fetches
         /\ GetNextGroupOfMessages(r).locked = r.locked
         /\ QueueOver(S, GetNextGroupOfMessages(r))
  <1>1. PICK passed : GetNextGroupOfMessages(r) = MoveOffsets(r, passed)
    BY DEF GetNextGroupOfMessages
  <1>2. /\ MoveOffsets(r, passed).state = r.state
        /\ MoveOffsets(r, passed).fetches = r.fetches
        /\ MoveOffsets(r, passed).locked = r.locked
    BY DEF MoveOffsets, QueueOver, FolderRecord
  <1>3. QED
    BY <1>1, <1>2, GetNextGroupOK

LEMMA AgainWaits ==
  ASSUME NEW S, NEW r, QueueOver(S, r), Unlocked(r), NEW t, t = TryCurrentGroupAgain(r)
  PROVE  Waiting(t)
  <1>1. t.state = "readyToDownload" /\ t.fetches = r.fetches /\ t.locked = r.locked
    BY DEF TryCurrentGroupAgain, QueueOver, FolderRecord
  <1>2. QED
    BY <1>1 DEF Waiting, Unlocked

LEMMA CompletedUnlocked ==
  ASSUME NEW S, NEW r, QueueOver(S, r), Unlocked(r), NEW t, t = SetCompletedIdle(r)
  PROVE  Unlocked(t) /\ t.state = "completedIdle"
  BY DEF SetCompletedIdle, Unlocked, QueueOver, FolderRecord

LEMMA Asked ==
  ASSUME OnlineOK, NEW S, NEW r, QueueOver(S, r), Waiting(r), NEW f, NEW limit,
         NEW a, a = DownloadMessagesForOffline(f, r, limit)
  PROVE  /\ a.result = "ok" => f \in alive /\ Fetching(a.state)
         /\ a.result # "ok" => Waiting(a.state)
  <1>1. PICK next : next = GetNextGroupOfMessages(r)
    OBVIOUS
  <1>2. /\ next.state = r.state /\ next.fetches = r.fetches /\ next.locked = r.locked
        /\ QueueOver(S, next)
    BY <1>1, RecordFields
  <1>3. PICK group : a = RequestGroup(f, r, limit, group, next)
    BY <1>1 DEF DownloadMessagesForOffline
  <1>5. Waiting(next) /\ r.fetches = <<>>
    BY <1>2 DEF Waiting, Unlocked
  <1>6. ~online => Waiting([next EXCEPT !.locked = TRUE])
    BY <1>2, <1>5 DEF Waiting, Unlocked, QueueOver, FolderRecord, OnlineOK
  <1>7. Fetching([next EXCEPT !.locked = TRUE, !.state = "downloadInProgress",
                              !.fetches = Append(r.fetches, group),
                              !.tried = r.tried \cup group])
    <2>1. PICK list : list = Append(r.fetches, group)
      OBVIOUS
    <2>2. Len(list) = 1
      BY <1>5, <2>1
    <2>3. PICK tried : tried = r.tried \cup group
      OBVIOUS
    <2>4. Fetching([next EXCEPT !.locked = TRUE, !.state = "downloadInProgress",
                                !.fetches = list, !.tried = tried])
      BY <1>2, <2>2 DEF Fetching, QueueOver, FolderRecord
    <2>5. QED
      BY <2>1, <2>3, <2>4
  <1>8. CASE a = [result |-> "notAvailable", state |-> r] \/ a = [result |-> "failed", state |-> r]
             \/ a = [result |-> "notAvailable", state |-> next] \/ a = [result |-> "failed", state |-> next]
    BY <1>5, <1>8
  <1>9. CASE ~online /\ a = [result |-> "failed", state |-> [next EXCEPT !.locked = TRUE]]
    BY <1>6, <1>9
  <1>10. CASE f \in alive /\ a = [result |-> "ok",
                  state |-> [next EXCEPT !.locked = TRUE, !.state = "downloadInProgress",
                                         !.fetches = Append(r.fetches, group),
                                         !.tried = r.tried \cup group]]
    BY <1>7, <1>10
  <1>11. QED
    BY <1>3, <1>8, <1>9, <1>10 DEF RequestGroup

LEMMA AskedRecovered ==
  ASSUME OnlineOK, NEW S, NEW r, QueueOver(S, r), Waiting(r), NEW f, NEW limit,
         NEW a, a = DownloadMessagesForOffline(f, r, limit), NEW t, t = Recovered(a)
  PROVE  \/ a.result = "ok" /\ f \in alive /\ Fetching(t)
         \/ a.result # "ok" /\ Waiting(t)
  <1>1. QueueOver(S, a.state)
    BY DownloadOK
  <1>2. CASE a.result = "ok"
    BY <1>2, Asked DEF Recovered
  <1>3. CASE a.result # "ok"
    <2>1. Waiting(a.state)
      BY <1>3, Asked
    <2>2. PICK r1 : r1 = a.state
      OBVIOUS
    <2>3. \A u : u = TryCurrentGroupAgain(r1) => Waiting(u)
      BY <1>1, <2>1, <2>2, AgainWaits DEF Waiting
    <2>4. QED
      BY <1>3, <2>1, <2>2, <2>3 DEF Recovered
  <1>4. QED
    BY <1>2, <1>3

\* t is what asking f, and siblings behind f in q, makes of s: at most one of
\* them gets a group.
AskedInChain(s, q, f, t) ==
  /\ \A g \in Folders :
       \/ t[g] = s[g]
       \/ /\ g = f \/ (Chained /\ IsSibling(f, g) /\ g \in Range(q))
          /\ t[g] = Recovered(DownloadMessagesForOffline(g, s[g], 0))
  /\ \A g, h \in Folders :
       /\ t[g] # s[g] /\ DownloadMessagesForOffline(g, s[g], 0).result = "ok"
       /\ t[h] # s[h] /\ DownloadMessagesForOffline(h, s[h], 0).result = "ok"
       => g = h

LEMMA ChainAsks ==
  ASSUME NEW s, NEW q \in Seq(Folders), NEW f \in Folders, NEW t, t = DownloadChained(s, q, f)
  PROVE  AskedInChain(s, q, f, t)
  <1>1. PICK answers : answers = [g \in Folders |-> DownloadMessagesForOffline(g, s[g], 0)]
    OBVIOUS
  <1>2. \A g \in Folders : answers[g] = DownloadMessagesForOffline(g, s[g], 0)
    BY <1>1
  <1>3. PICK reached : reached = {i \in LaterSiblings(q, f) :
                                    /\ Chained /\ answers[f].result # "ok"
                                    /\ \A j \in LaterSiblings(q, f) :
                                         j < i => answers[q[j]].result # "ok"}
    OBVIOUS
  <1>4. t = [g \in Folders |-> IF g \in {f} \cup {q[i] : i \in reached}
                               THEN Recovered(answers[g]) ELSE s[g]]
    BY <1>1, <1>3 DEF DownloadChained, AskInTurn
  <1>5. \A i \in reached : /\ i \in DOMAIN q /\ IsSibling(f, q[i]) /\ Chained
                           /\ answers[f].result # "ok" /\ i \in LaterSiblings(q, f)
                           /\ \A j \in LaterSiblings(q, f) : j < i => answers[q[j]].result # "ok"
    BY <1>3 DEF LaterSiblings
  <1>6. \A i \in DOMAIN q : i \in Int /\ q[i] \in Range(q)
    BY DEF Range
  <1>7. ASSUME NEW g \in Folders, t[g] # s[g]
        PROVE  /\ g = f \/ \E i \in reached : g = q[i]
               /\ t[g] = Recovered(answers[g])
    BY <1>4, <1>7
  <1>8. ASSUME NEW g \in Folders, t[g] # s[g]
        PROVE  /\ g = f \/ (Chained /\ IsSibling(f, g) /\ g \in Range(q))
               /\ t[g] = Recovered(DownloadMessagesForOffline(g, s[g], 0))
    BY <1>2, <1>5, <1>6, <1>7, <1>8
  <1>9. ASSUME NEW g \in Folders, NEW h \in Folders,
               t[g] # s[g], answers[g].result = "ok", t[h] # s[h], answers[h].result = "ok"
        PROVE  g = h
    <2>1. CASE g = f
      <3>1. \A i \in reached : FALSE
        BY <1>5, <1>9, <2>1
      <3>2. QED
        BY <1>7, <1>9, <2>1, <3>1
    <2>2. CASE h = f
      <3>1. \A i \in reached : FALSE
        BY <1>5, <1>9, <2>2
      <3>2. QED
        BY <1>7, <1>9, <2>2, <3>1
    <2>3. CASE g # f /\ h # f
      <3>1. PICK i \in reached : g = q[i]
        BY <1>7, <1>9, <2>3
      <3>2. PICK j \in reached : h = q[j]
        BY <1>7, <1>9, <2>3
      <3>3. ~(i < j) /\ ~(j < i) /\ i \in Int /\ j \in Int
        BY <1>5, <1>6, <1>9, <3>1, <3>2
      <3>4. QED
        BY <3>1, <3>2, <3>3
    <2>4. QED
      BY <2>1, <2>2, <2>3
  <1>10. QED
    BY <1>2, <1>8, <1>9 DEF AskedInChain

LEMMA UpdateOne ==
  ASSUME NEW s, SyncOK(s), NEW q, FetchOK(s, q), NEW f \in Folders, NEW r, NEW p,
         FolderOK(f, r, p), \A g \in Folders : g # f => (g \in Range(p) <=> g \in Range(q)),
         r.state = "downloadInProgress" =>
           s[f].state = "downloadInProgress" \/ (f \in alive /\ Free(s, f)),
         NEW t, t = [s EXCEPT ![f] = r]
  PROVE  FetchOK(t, p)
  <1>1. t[f] = r /\ \A g \in Folders : g # f => t[g] = s[g]
    BY DEF SyncOK
  <1>2. ASSUME NEW g \in Folders PROVE FolderOK(g, t[g], p)
    <2>1. CASE g = f
      BY <1>1, <2>1
    <2>2. CASE g # f
      BY <1>1, <2>2 DEF FetchOK, FolderOK
    <2>3. QED
      BY <2>1, <2>2
  <1>3. ASSUME Chained, r.state = "downloadInProgress", NEW g \in Folders, g # f,
               ServerOf[f] = ServerOf[g], s[g].state = "downloadInProgress"
        PROVE  FALSE
    <2>1. CASE s[f].state = "downloadInProgress"
      BY <1>3, <2>1 DEF FetchOK, OnePerServer
    <2>2. CASE f \in alive /\ Free(s, f)
      <3>1. g \in alive
        BY <1>3 DEF FetchOK, FolderOK
      <3>2. QED
        BY <1>3, <2>2, <3>1 DEF Free, IsSibling
    <2>3. QED
      BY <1>3, <2>1, <2>2
  <1>4. OnePerServer(t)
    <2> SUFFICES ASSUME Chained, NEW g \in Folders, NEW h \in Folders, g # h,
                        ServerOf[g] = ServerOf[h], t[g].state = "downloadInProgress",
                        t[h].state = "downloadInProgress"
                 PROVE  FALSE
      BY DEF OnePerServer
    <2>1. CASE g = f
      BY <1>1, <1>3, <2>1
    <2>2. CASE h = f
      BY <1>1, <1>3, <2>2
    <2>3. CASE g # f /\ h # f
      BY <1>1, <2>3 DEF FetchOK, OnePerServer
    <2>4. QED
      BY <2>1, <2>2, <2>3
  <1>5. QED
    BY <1>2, <1>4 DEF FetchOK

\* What asking folders of a server changes: waiting ones wait or fetch.
AskedOnly(s, t) ==
  \A g \in Folders :
    t[g] = s[g] \/ (Waiting(s[g]) /\ (Waiting(t[g]) \/ Fetching(t[g])))

LEMMA WaitingInQueue ==
  ASSUME Calm, NEW s, NEW q, FetchOK(s, q), NEW f, Free(s, f), NEW g \in Folders,
         Chained, IsSibling(f, g), g \in Range(q)
  PROVE  Waiting(s[g])
  <1>1. s[g].state # "downloadInProgress" /\ Overwritten = {}
    BY DEF Free, Calm, Overwritten
  <1>2. s[g].state = "readyToDownload"
    BY <1>1 DEF FetchOK, FolderOK, Active
  <1>3. QED
    BY <1>1, <1>2 DEF FetchOK, FolderOK, Waiting

LEMMA FetchingOK ==
  ASSUME NEW f \in Folders, NEW r, NEW q, f \in Range(q), Waiting(r) \/ (Fetching(r) /\ f \in alive)
  PROVE  FolderOK(f, r, q)
  <1>1. CASE Waiting(r)
    BY <1>1 DEF Waiting, FolderOK, Active
  <1>2. CASE Fetching(r) /\ f \in alive
    <2>1. Len(<<>>) = 0
      OBVIOUS
    <2>2. PICK n : n = Len(r.fetches)
      OBVIOUS
    <2>3. n = 1 /\ n # 0
      BY <1>2, <2>2 DEF Fetching
    <2>4. r.fetches # <<>>
      BY <2>1, <2>2, <2>3
    <2>5. QED
      BY <1>2, <2>4 DEF Fetching, FolderOK, Active
  <1>3. QED
    BY <1>1, <1>2

LEMMA ChainKeeps ==
  ASSUME Calm, OnlineOK, NEW s, SyncOK(s), NEW q \in Seq(Folders), FetchOK(s, q),
         NEW f \in Folders, s[f].state = "readyToDownload", Free(s, f),
         NEW t, t = DownloadChained(s, q, f)
  PROVE  /\ FetchOK(t, q)
         /\ \A g \in Folders :
              \/ t[g] = s[g]
              \/ /\ g = f \/ (Chained /\ IsSibling(f, g))
                 /\ Waiting(s[g])
                 /\ \/ Waiting(t[g])
                    \/ /\ Fetching(t[g]) /\ g \in alive
                       /\ DownloadMessagesForOffline(g, s[g], 0).result = "ok"
  <1>0. AskedInChain(s, q, f, t)
    BY ChainAsks
  <1>1. ASSUME NEW g \in Folders, t[g] # s[g]
        PROVE  /\ g = f \/ (Chained /\ IsSibling(f, g))
               /\ Waiting(s[g])
               /\ \/ Waiting(t[g])
                  \/ /\ Fetching(t[g]) /\ g \in alive
                     /\ DownloadMessagesForOffline(g, s[g], 0).result = "ok"
    <2>1. /\ g = f \/ (Chained /\ IsSibling(f, g) /\ g \in Range(q))
          /\ t[g] = Recovered(DownloadMessagesForOffline(g, s[g], 0))
      BY <1>0, <1>1 DEF AskedInChain
    <2>2. Waiting(s[g])
      <3>1. Waiting(s[f])
        BY DEF FetchOK, FolderOK, Waiting, Overwritten
      <3>2. QED
        BY <2>1, <3>1, WaitingInQueue
    <2>3. QueueOver(MessagesOf(g), s[g])
      BY DEF SyncOK
    <2>4. QED
      BY <2>1, <2>2, <2>3, AskedRecovered
  <1>2. ASSUME NEW g \in Folders PROVE FolderOK(g, t[g], q)
    <2>1. CASE t[g] = s[g]
      BY <2>1 DEF FetchOK
    <2>2. CASE t[g] # s[g]
      <3>1. g \in Range(q)
        BY <1>1, <2>2 DEF FetchOK, FolderOK, Waiting, Active
      <3>2. QED
        BY <1>1, <2>2, <3>1, FetchingOK
    <2>3. QED
      BY <2>1, <2>2
  <1>3. OnePerServer(t)
    <2> SUFFICES ASSUME Chained, NEW g \in Folders, NEW h \in Folders, g # h,
                        ServerOf[g] = ServerOf[h], t[g].state = "downloadInProgress",
                        t[h].state = "downloadInProgress"
                 PROVE  FALSE
      BY DEF OnePerServer
    <2>1. CASE t[g] = s[g] /\ t[h] = s[h]
      BY <2>1 DEF FetchOK, OnePerServer
    <2>2. CASE t[g] # s[g] /\ t[h] # s[h]
      <3>1. /\ DownloadMessagesForOffline(g, s[g], 0).result = "ok"
            /\ DownloadMessagesForOffline(h, s[h], 0).result = "ok"
        BY <1>1, <2>2 DEF Waiting
      <3>2. QED
        BY <1>0, <2>2, <3>1 DEF AskedInChain
    <2>3. ASSUME NEW x \in Folders, NEW y \in Folders, ServerOf[x] = ServerOf[y], t[x] # s[x],
                 t[y] = s[y], t[x].state = "downloadInProgress", t[y].state = "downloadInProgress"
          PROVE  FALSE
      <3>1. x \in alive /\ (x = f \/ IsSibling(f, x))
        BY <1>1, <2>3 DEF Waiting
      <3>2. y \in alive
        BY <2>3 DEF FetchOK, FolderOK
      <3>3. IsSibling(f, y)
        BY <2>3, <3>1, <3>2 DEF IsSibling
      <3>4. QED
        BY <2>3, <3>3 DEF Free
    <2>4. QED
      BY <2>1, <2>2, <2>3
  <1>4. QED
    BY <1>1, <1>2, <1>3 DEF FetchOK

\* The state of a folder is kept, or f, which nobody waits for, becomes active.
ActivatesOnly(s, t, f) ==
  \A g \in Folders : t[g].state = s[g].state \/ (g = f /\ t[g].state \in Active)

LEMMA FirstAskedKeeps ==
  ASSUME Calm, OnlineOK, NEW s, SyncOK(s), NEW q \in Seq(Folders), FetchOK(s, q),
         NEW f \in Folders, Waiting(s[f]), NEW p, p = AskForFirstGroup(s, q, f)
  PROVE  /\ p.queue = q /\ FetchOK(p.sync, q) /\ ActivatesOnly(s, p.sync, f)
  <1>1. CASE p = [sync |-> s, queue |-> q, ok |-> TRUE]
    BY <1>1 DEF ActivatesOnly
  <1>2. ASSUME NEW limit, p = FirstGroupAsked(s, q, f, DownloadMessagesForOffline(f, s[f], limit)),
               ~ (Chained /\ \E i \in DOMAIN q : /\ q[i] # f /\ IsSibling(f, q[i])
                                                /\ s[q[i]].state = "downloadInProgress")
        PROVE  p.queue = q /\ FetchOK(p.sync, q) /\ ActivatesOnly(s, p.sync, f)
    <2>1. PICK a : a = DownloadMessagesForOffline(f, s[f], limit)
      OBVIOUS
    <2>2. PICK r : r = IF a.result = "ok" THEN a.state ELSE TryCurrentGroupAgain(a.state)
      OBVIOUS
    <2>3. p.sync = [s EXCEPT ![f] = r] /\ p.queue = q
      BY <1>2, <2>1, <2>2 DEF FirstGroupAsked
    <2>4. QueueOver(MessagesOf(f), s[f])
      BY DEF SyncOK
    <2>5. Waiting(r) \/ (Fetching(r) /\ f \in alive)
      <3>1. CASE a.result = "ok"
        BY <2>1, <2>2, <2>4, <3>1, Asked
      <3>2. CASE a.result # "ok"
        <4>1. PICK r1 : r1 = a.state
          OBVIOUS
        <4>2. Waiting(r1) /\ QueueOver(MessagesOf(f), r1)
          BY <2>1, <2>4, <3>2, <4>1, Asked, DownloadOK
        <4>3. Unlocked(r1)
          BY <4>2 DEF Waiting
        <4>4. r = TryCurrentGroupAgain(r1)
          BY <2>2, <3>2, <4>1
        <4>5. QED
          BY <4>2, <4>3, <4>4, AgainWaits
      <3>3. QED
        BY <3>1, <3>2
    <2>6. f \in Range(q)
      BY DEF Waiting, FetchOK, FolderOK, Active
    <2>7. FolderOK(f, r, q)
      BY <2>5, <2>6, FetchingOK
    <2>8. Free(s, f)
      <3> SUFFICES ASSUME Chained, NEW g \in Folders, IsSibling(f, g), s[g].state = "downloadInProgress"
                   PROVE  FALSE
        BY DEF Free
      <3>1. g # f
        BY DEF Waiting
      <3>2. g \in Range(q)
        BY DEF FetchOK, FolderOK, Active
      <3>3. PICK i \in DOMAIN q : q[i] = g
        BY <3>2 DEF Range
      <3>4. QED
        BY <1>2, <3>1, <3>3
    <2>9. r.state = "downloadInProgress" => f \in alive
      BY <2>5 DEF Waiting
    <2>10. PICK t : t = [s EXCEPT ![f] = r]
      OBVIOUS
    <2>11. FetchOK(t, q)
      BY <2>7, <2>8, <2>9, <2>10, UpdateOne
    <2>12. r.state \in Active
      BY <2>5 DEF Waiting, Fetching, Active
    <2>13. ActivatesOnly(s, t, f)
      BY <2>10, <2>12 DEF ActivatesOnly, SyncOK
    <2>14. QED
      BY <2>3, <2>10, <2>11, <2>13
  <1>3. QED
    BY <1>1, <1>2 DEF AskForFirstGroup

LEMMA OnDownloadQChangedKeeps ==
  ASSUME Calm, OnlineOK, NEW s, SyncOK(s), NEW q \in Seq(Folders), FetchOK(s, q),
         NEW f \in Folders, Unlocked(s[f]), NEW p, p = OnDownloadQChanged(s, q, f)
  PROVE  p.queue \in Seq(Folders) /\ FetchOK(p.sync, p.queue) /\ ActivatesOnly(s, p.sync, f)
  <1>1. CASE mPaused
    BY <1>1 DEF OnDownloadQChanged, ActivatesOnly
  <1>2. CASE ~mPaused
    <2>1. PICK r : r = [s[f] EXCEPT !.state = "readyToDownload"]
      OBVIOUS
    <2>2. PICK t : t = ScheduleFolderForOfflineDownload(q, f)
      OBVIOUS
    <2>3. PICK u : u = [s EXCEPT ![f] = r]
      OBVIOUS
    <2>4. p = AskForFirstGroup(u, t, f)
      BY <1>2, <2>1, <2>2, <2>3 DEF OnDownloadQChanged
    <2>5. t \in Seq(Folders) /\ Range(t) = Range(q) \cup {f}
      BY <2>2, ScheduleOK
    <2>6. QueueOver(MessagesOf(f), s[f])
      BY DEF SyncOK
    <2>7. QueueOver(MessagesOf(f), r)
      BY <2>1, <2>6, StateOK DEF SyncStates
    <2>8. Waiting(r)
      BY <2>1, <2>6 DEF Waiting, Unlocked, QueueOver, FolderRecord
    <2>9. FolderOK(f, r, t)
      BY <2>5, <2>8, FetchingOK
    <2>10. SyncOK(u)
      BY <2>3, <2>7, ExceptOK
    <2>11. FetchOK(u, t)
      <3>1. \A g \in Folders : g # f => (g \in Range(t) <=> g \in Range(q))
        BY <2>5
      <3>2. r.state # "downloadInProgress"
        BY <2>8 DEF Waiting
      <3>3. QED
        BY <2>3, <2>9, <3>1, <3>2, UpdateOne
    <2>12. u[f] = r /\ \A g \in Folders : g # f => u[g] = s[g]
      BY <2>3 DEF SyncOK
    <2>13. p.queue = t /\ FetchOK(p.sync, t) /\ ActivatesOnly(u, p.sync, f)
      BY <2>4, <2>5, <2>8, <2>10, <2>11, <2>12, FirstAskedKeeps
    <2>14. ActivatesOnly(s, p.sync, f)
      BY <2>8, <2>12, <2>13 DEF ActivatesOnly, Waiting, Active
    <2>15. QED
      BY <2>5, <2>13, <2>14
  <1>3. QED
    BY <1>1, <1>2

\* Nothing depends on the other fields of a record.
LEMMA SameFields ==
  ASSUME NEW f, NEW r, NEW q, FolderOK(f, r, q), NEW t,
         t.state = r.state, t.fetches = r.fetches, t.locked = r.locked
  PROVE  FolderOK(f, t, q) /\ (Unlocked(r) => Unlocked(t))
  BY DEF FolderOK, Unlocked

LEMMA PlaceKeeps ==
  ASSUME Calm, OnlineOK, SyncOK(sync), mPriorityQ \in Seq(Folders), FetchOK(sync, mPriorityQ),
         NEW f \in Folders, Unlocked(sync[f]), NEW keys \in SUBSET MessagesOf(f),
         NEW p, p = PlaceIntoDownloadQ(f, keys)
  PROVE  p.queue \in Seq(Folders) /\ FetchOK(p.sync, p.queue) /\ ActivatesOnly(sync, p.sync, f)
  <1>1. PICK new : new = {m \in keys : where[m] = "header"}
                           \ (sync[f].done \cup sync[f].current \cup sync[f].pending)
    OBVIOUS
  <1>2. PICK pending, changed :
           pending = sync[f].pending \cup new /\ changed = (sync[f].changed \/ new # {})
    OBVIOUS
  <1>3. PICK r : r = [sync[f] EXCEPT !.pending = pending, !.changed = changed]
    OBVIOUS
  <1>4. PICK s : s = [sync EXCEPT ![f] = r]
    OBVIOUS
  <1>5. s = [sync EXCEPT ![f].pending = pending, ![f].changed = changed]
    BY <1>3, <1>4 DEF SyncOK
  <1>6. p = OnDownloadQChanged(s, mPriorityQ, f) \/ p = [sync |-> s, queue |-> mPriorityQ, ok |-> TRUE]
    BY <1>1, <1>2, <1>5 DEF PlaceIntoDownloadQ
  <1>7. /\ r.state = sync[f].state /\ r.fetches = sync[f].fetches /\ r.locked = sync[f].locked
        /\ QueueOver(MessagesOf(f), r)
    <2>1. QueueOver(MessagesOf(f), sync[f])
      BY DEF SyncOK
    <2>2. changed \in BOOLEAN /\ new \subseteq MessagesOf(f)
          /\ new \cap (sync[f].done \cup sync[f].current) = {}
      BY <1>1, <1>2, <2>1 DEF QueueOver, FolderRecord
    <2>3. QED
      BY <1>2, <1>3, <2>1, <2>2 DEF QueueOver, FolderRecord
  <1>8. SyncOK(s)
    BY <1>4, <1>7, ExceptOK
  <1>9. FolderOK(f, r, mPriorityQ) /\ Unlocked(r)
    BY <1>7, SameFields DEF FetchOK
  <1>10. FetchOK(s, mPriorityQ)
    BY <1>4, <1>7, <1>9, UpdateOne
  <1>11. s[f] = r /\ \A g \in Folders : g # f => s[g] = sync[g]
    BY <1>4 DEF SyncOK
  <1>12. ActivatesOnly(sync, s, f)
    BY <1>7, <1>11 DEF ActivatesOnly
  <1>13. CASE p = OnDownloadQChanged(s, mPriorityQ, f)
    <2>1. p.queue \in Seq(Folders) /\ FetchOK(p.sync, p.queue) /\ ActivatesOnly(s, p.sync, f)
      BY <1>8, <1>9, <1>10, <1>11, <1>13, OnDownloadQChangedKeeps
    <2>2. QED
      BY <1>7, <1>11, <2>1 DEF ActivatesOnly
  <1>14. QED
    BY <1>6, <1>10, <1>12, <1>13

LEMMA DiscoveryKeeps ==
  ASSUME Calm, OnlineOK, SyncOK(sync), mPriorityQ \in Seq(Folders), FetchOK(sync, mPriorityQ),
         alive \subseteq Folders,
         mDiscoveryQ # <<>> /\ Head(mDiscoveryQ) \in alive => Unlocked(sync[Head(mDiscoveryQ)]),
         NEW p, p = ProcessDiscoveryQ
  PROVE  /\ SyncOK(p.sync) /\ FetchOK(p.sync, p.queue) /\ p.queue \in Seq(Folders)
         /\ \/ p.sync = sync
            \/ mDiscoveryQ # <<>> /\ ActivatesOnly(sync, p.sync, Head(mDiscoveryQ))
  <1>1. CASE ~(mDiscoveryQ # <<>> /\ Head(mDiscoveryQ) \in alive)
    BY <1>1 DEF ProcessDiscoveryQ
  <1>2. CASE mDiscoveryQ # <<>> /\ Head(mDiscoveryQ) \in alive
    <2>1. PICK f : f = Head(mDiscoveryQ)
      OBVIOUS
    <2>2. PICK left : left = IF sync[f].left = {} THEN {m \in MessagesOf(f) : HasHeader(m)}
                                                  ELSE sync[f].left
      OBVIOUS
    <2>3. PICK batch : batch = FirstKeys(left, HeaderBatch)
      OBVIOUS
    <2>4. PICK placed : placed = PlaceIntoDownloadQ(f, WithoutBody(batch))
      OBVIOUS
    <2>5. p = AfterBatch(f, left, batch, placed)
      BY <1>2, <2>1, <2>2, <2>3, <2>4 DEF ProcessDiscoveryQ, ProcessExistingHeaders
    <2>6. PICK rest : rest = IF placed.ok THEN left \ batch ELSE left
      OBVIOUS
    <2>7. p = [sync |-> [placed.sync EXCEPT ![f].left = rest], queue |-> placed.queue,
                finished |-> placed.ok /\ rest = {}]
      BY <2>5, <2>6 DEF AfterBatch
    <2>8. /\ p.sync = [placed.sync EXCEPT ![f].left = rest] /\ p.queue = placed.queue
          /\ rest \in {left, left \ batch}
      BY <2>6, <2>7
    <2>9. f \in Folders /\ QueueOver(MessagesOf(f), sync[f]) /\ Unlocked(sync[f])
      BY <1>2, <2>1 DEF SyncOK
    <2>10. left \subseteq MessagesOf(f)
      BY <2>2, <2>9 DEF QueueOver, FolderRecord
    <2>11. WithoutBody(batch) \in SUBSET MessagesOf(f)
      BY <2>3, <2>10 DEF WithoutBody, FirstKeys
    <2>12. PICK keys : keys = WithoutBody(batch)
      OBVIOUS
    <2>13. /\ placed.queue \in Seq(Folders) /\ FetchOK(placed.sync, placed.queue)
           /\ ActivatesOnly(sync, placed.sync, f)
      BY <2>4, <2>9, <2>11, <2>12, PlaceKeeps
    <2>14. SyncOK(placed.sync)
      BY <2>4, <2>9, <2>11, PlaceIntoDownloadQOK
    <2>15. PICK s : s = placed.sync
      OBVIOUS
    <2>16. PICK r : r = [s[f] EXCEPT !.left = rest]
      OBVIOUS
    <2>17. /\ r.state = s[f].state /\ r.fetches = s[f].fetches /\ r.locked = s[f].locked
           /\ QueueOver(MessagesOf(f), r)
      <3>1. QueueOver(MessagesOf(f), s[f]) /\ rest \subseteq MessagesOf(f)
        BY <2>8, <2>9, <2>10, <2>14, <2>15 DEF SyncOK
      <3>2. QED
        BY <2>16, <3>1 DEF QueueOver, FolderRecord
    <2>18. PICK t : t = [s EXCEPT ![f] = r]
      OBVIOUS
    <2>19. p.sync = t
      BY <2>8, <2>14, <2>15, <2>16, <2>18 DEF SyncOK
    <2>20. SyncOK(t)
      BY <2>9, <2>14, <2>15, <2>17, <2>18, ExceptOK
    <2>21. PICK q : q = placed.queue
      OBVIOUS
    <2>22. FetchOK(s, q) /\ SyncOK(s)
      BY <2>13, <2>14, <2>15, <2>21
    <2>23. FetchOK(t, q)
      <3>1. FolderOK(f, r, q)
        BY <2>9, <2>17, <2>22, SameFields DEF FetchOK
      <3>2. QED
        BY <2>9, <2>17, <2>18, <2>22, <3>1, UpdateOne
    <2>24. t[f] = r /\ \A g \in Folders : g # f => t[g] = s[g]
      BY <2>9, <2>18, <2>22 DEF SyncOK
    <2>25. ActivatesOnly(sync, t, f)
      BY <2>13, <2>15, <2>17, <2>24 DEF ActivatesOnly
    <2>26. QED
      BY <1>2, <2>1, <2>8, <2>13, <2>19, <2>20, <2>21, <2>23, <2>25
  <1>3. QED
    BY <1>1, <1>2

LEMMA StartersFree ==
  ASSUME mPriorityQ \in Seq(Folders), FetchOK(sync, mPriorityQ), NEW f \in Starters
  PROVE  /\ f \in Folders /\ sync[f].state = "readyToDownload" /\ Free(sync, f)
  <1>1. sync[f].state = "readyToDownload"
    BY DEF Starters
  <1>2. PICK i \in DOMAIN mPriorityQ :
           f = mPriorityQ[i] /\ (Chained => ChainPosition(mPriorityQ, i) = i)
    BY DEF Starters, ChainFoldersInQ, ToSet
  <1>3. /\ DOMAIN mPriorityQ = 1..Len(mPriorityQ) /\ Len(mPriorityQ) \in Nat
        /\ mPriorityQ[i] \in Folders
    OBVIOUS
  <1>4. ASSUME Chained, NEW g \in Folders, IsSibling(f, g), sync[g].state = "downloadInProgress"
        PROVE  FALSE
    <2>1. PICK busy : busy = {j \in {k \in DOMAIN mPriorityQ :
                                       k = i \/ IsSibling(mPriorityQ[i], mPriorityQ[k])} :
                                sync[mPriorityQ[j]].state = "downloadInProgress"}
      OBVIOUS
    <2>2. g \in Range(mPriorityQ)
      BY <1>4 DEF FetchOK, FolderOK, Active
    <2>3. PICK j \in DOMAIN mPriorityQ : mPriorityQ[j] = g
      BY <2>2 DEF Range
    <2>4. busy # {}
      BY <1>2, <1>4, <2>1, <2>3
    <2>5. Max(busy) = i
      <3>1. ChainPosition(mPriorityQ, i) = IF busy = {} THEN Min({k \in DOMAIN mPriorityQ :
                                          k = i \/ IsSibling(mPriorityQ[i], mPriorityQ[k])})
                                                      ELSE Max(busy)
        BY <2>1 DEF ChainPosition
      <3>2. QED
        BY <1>2, <1>4, <2>4, <3>1
    <2>6. Max(busy) \in busy
      <3>1. IsFiniteSet(1..Len(mPriorityQ))
        BY <1>3, FS_Interval
      <3>2. busy \subseteq 1..Len(mPriorityQ)
        BY <1>3, <2>1
      <3>3. IsFiniteSet(busy)
        BY <3>1, <3>2, FS_Subset
      <3>4. busy \subseteq Int
        BY <3>2
      <3>5. QED
        BY <2>4, <3>3, <3>4, Extremes
    <2>7. QED
      BY <1>1, <1>2, <2>1, <2>5, <2>6
  <1>5. QED
    BY <1>1, <1>2, <1>3, <1>4 DEF Free

StartersFor(g) == {f \in Starters : f = g \/ (Chained /\ IsSibling(f, g))}

\* Whom the idle notice asks: waiting folders, and at most one gets a group
\* per server in the chained model.
LEMMA ResumedKeeps ==
  ASSUME Calm, OnlineOK, SyncOK(sync), mPriorityQ \in Seq(Folders), FetchOK(sync, mPriorityQ),
         NEW t, t = [g \in Folders |-> Resumed(g)]
  PROVE  /\ FetchOK(t, mPriorityQ) /\ AskedOnly(sync, t)
         /\ \A g \in NothingToFetch : Waiting(t[g])
  <1>1. ASSUME NEW f \in Starters, NEW u, u = DownloadChained(sync, mPriorityQ, f)
        PROVE  /\ FetchOK(u, mPriorityQ)
               /\ \A g \in Folders :
                    \/ u[g] = sync[g]
                    \/ /\ Waiting(sync[g])
                       /\ \/ Waiting(u[g])
                          \/ /\ Fetching(u[g])
                             /\ DownloadMessagesForOffline(g, sync[g], 0).result = "ok"
    <2>1. f \in Folders /\ sync[f].state = "readyToDownload" /\ Free(sync, f)
      BY StartersFree
    <2>2. QED
      BY <1>1, <2>1, ChainKeeps
  <1>2. ASSUME NEW g \in Folders
        PROVE  \/ StartersFor(g) = {} /\ t[g] = sync[g]
               \/ /\ (CHOOSE f \in StartersFor(g) : TRUE) \in Starters
                  /\ t[g] = DownloadChained(sync, mPriorityQ, CHOOSE f \in StartersFor(g) : TRUE)[g]
    <2>1. t[g] = IF StartersFor(g) = {} THEN sync[g]
                 ELSE DownloadChained(sync, mPriorityQ, CHOOSE f \in StartersFor(g) : TRUE)[g]
      BY DEF Resumed, StartersFor
    <2>2. StartersFor(g) # {} => (CHOOSE f \in StartersFor(g) : TRUE) \in StartersFor(g)
      OBVIOUS
    <2>3. QED
      BY <2>1, <2>2 DEF StartersFor
  <1>3. ASSUME NEW g \in Folders
        PROVE  /\ FolderOK(g, t[g], mPriorityQ)
               /\ \/ t[g] = sync[g]
                  \/ /\ Waiting(sync[g])
                     /\ \/ Waiting(t[g])
                        \/ /\ Fetching(t[g])
                           /\ DownloadMessagesForOffline(g, sync[g], 0).result = "ok"
    <2>1. CASE t[g] = sync[g]
      BY <2>1 DEF FetchOK
    <2>2. CASE t[g] # sync[g]
      <3>1. PICK f \in Starters : t[g] = DownloadChained(sync, mPriorityQ, f)[g]
        BY <1>2, <2>2
      <3>2. PICK u : u = DownloadChained(sync, mPriorityQ, f)
        OBVIOUS
      <3>3. QED
        BY <1>1, <3>1, <3>2 DEF FetchOK
    <2>3. QED
      BY <2>1, <2>2
  <1>4. OnePerServer(t)
    <2> SUFFICES ASSUME Chained, NEW g \in Folders, NEW h \in Folders, g # h,
                        ServerOf[g] = ServerOf[h], t[g].state = "downloadInProgress",
                        t[h].state = "downloadInProgress"
                 PROVE  FALSE
      BY DEF OnePerServer
    <2>1. g \in alive /\ h \in alive
      BY <1>3 DEF FolderOK
    <2>2. \A f : (f = g \/ IsSibling(f, g)) <=> (f = h \/ IsSibling(f, h))
      BY <2>1 DEF IsSibling
    <2>3. StartersFor(g) = StartersFor(h)
      BY <2>2 DEF StartersFor
    <2>4. CASE StartersFor(g) = {}
      <3>1. t[g] = sync[g] /\ t[h] = sync[h]
        BY <2>3, <2>4 DEF Resumed, StartersFor
      <3>2. QED
        BY <3>1 DEF FetchOK, OnePerServer
    <2>5. CASE StartersFor(g) # {}
      <3>1. PICK f : f = CHOOSE x \in StartersFor(g) : TRUE
        OBVIOUS
      <3>2. f \in Starters
        BY <2>5, <3>1 DEF StartersFor
      <3>3. PICK u : u = DownloadChained(sync, mPriorityQ, f)
        OBVIOUS
      <3>4. t[g] = u[g] /\ t[h] = u[h]
        <4>1. t[g] = DownloadChained(sync, mPriorityQ, CHOOSE x \in StartersFor(g) : TRUE)[g]
          BY <2>5 DEF Resumed, StartersFor
        <4>2. t[h] = DownloadChained(sync, mPriorityQ, CHOOSE x \in StartersFor(h) : TRUE)[h]
          BY <2>3, <2>5 DEF Resumed, StartersFor
        <4>3. QED
          BY <2>3, <3>1, <3>3, <4>1, <4>2
      <3>5. OnePerServer(u)
        BY <1>1, <3>2, <3>3 DEF FetchOK
      <3>6. QED
        BY <3>4, <3>5 DEF OnePerServer
    <2>6. QED
      BY <2>4, <2>5
  <1>5. ASSUME NEW g \in NothingToFetch PROVE Waiting(t[g])
    <2>1. g \in Starters /\ DownloadMessagesForOffline(g, sync[g], 0).result = "notAvailable"
      BY DEF NothingToFetch
    <2>2. g \in Folders /\ sync[g].state = "readyToDownload"
      BY <2>1, StartersFree
    <2>3. Waiting(sync[g])
      BY <2>2 DEF FetchOK, FolderOK, Waiting, Overwritten
    <2>4. QED
      BY <1>3, <2>1, <2>2, <2>3
  <1>6. AskedOnly(sync, t)
    BY <1>3 DEF AskedOnly
  <1>7. QED
    BY <1>3, <1>4, <1>5, <1>6 DEF FetchOK

\* What the idle notice may make of the states: ready folders start or are done.
LEMMA ProcessPriorityQKeeps ==
  ASSUME Calm, OnlineOK, SyncOK(sync), mPriorityQ \in Seq(Folders), FetchOK(sync, mPriorityQ),
         ProcessPriorityQ, NEW s, s = sync', NEW q, q = mPriorityQ', alive' = alive
  PROVE  /\ FetchOK(s, q)
         /\ \A g \in Folders : \/ s[g].state = sync[g].state
                               \/ /\ sync[g].state = "readyToDownload"
                                  /\ s[g].state \in Active \cup {"completedIdle"}
  <1>1. PICK t : t = [g \in Folders |-> Resumed(g)]
    OBVIOUS
  <1>2. /\ FetchOK(t, mPriorityQ) /\ AskedOnly(sync, t)
        /\ \A g \in NothingToFetch : Waiting(t[g])
    BY <1>1, ResumedKeeps
  <1>3. s = [g \in Folders |-> Drop(t[g], g \in NothingToFetch)]
    BY <1>1 DEF ProcessPriorityQ
  <1>4. q = Without(mPriorityQ, NothingToFetch)
    BY DEF ProcessPriorityQ
  <1>5. Range(q) = Range(mPriorityQ) \ NothingToFetch
    BY <1>4, WithoutFolders
  <1>6. ASSUME NEW g \in Folders
        PROVE  QueueOver(MessagesOf(g), t[g])
    <2>1. t[g] = Resumed(g)
      BY <1>1
    <2>2. QED
      BY <2>1, DownloadChainedOK DEF Resumed, SyncOK
  <1>7. ASSUME NEW g \in Folders, g \in NothingToFetch
        PROVE  /\ FolderOK(g, s[g], q) /\ s[g].state = "completedIdle"
               /\ sync[g].state = "readyToDownload"
    <2>1. s[g] = SetCompletedIdle(t[g])
      BY <1>3, <1>7 DEF Drop
    <2>2. PICK r : r = t[g]
      OBVIOUS
    <2>3. Unlocked(r) /\ QueueOver(MessagesOf(g), r)
      BY <1>2, <1>6, <1>7, <2>2 DEF Waiting
    <2>4. PICK u : u = s[g]
      OBVIOUS
    <2>5. Unlocked(u) /\ u.state = "completedIdle"
      BY <2>1, <2>2, <2>3, <2>4, CompletedUnlocked
    <2>6. FolderOK(g, u, q)
      BY <1>5, <1>7, <2>5 DEF FolderOK, Active
    <2>7. sync[g].state = "readyToDownload"
      BY <1>7 DEF NothingToFetch, Starters
    <2>8. QED
      BY <2>4, <2>5, <2>6, <2>7
  <1>8. ASSUME NEW g \in Folders, g \notin NothingToFetch
        PROVE  /\ FolderOK(g, s[g], q) /\ s[g] = t[g]
               /\ \/ s[g].state = sync[g].state
                  \/ /\ sync[g].state = "readyToDownload"
                     /\ s[g].state \in Active \cup {"completedIdle"}
    <2>1. s[g] = t[g]
      BY <1>3, <1>8 DEF Drop
    <2>2. FolderOK(g, t[g], q)
      BY <1>2, <1>5, <1>8 DEF FetchOK, FolderOK
    <2>3. QED
      BY <1>2, <2>1, <2>2 DEF AskedOnly, Waiting, Fetching, Active
  <1>9. OnePerServer(s)
    BY <1>2, <1>7, <1>8 DEF FetchOK, OnePerServer
  <1>10. QED
    BY <1>7, <1>8, <1>9 DEF FetchOK
------------------------------------------------------------------------------
(***************************************************************************)
(* The invariant of fetches and updates.  status and listening say who is  *)
(* being checked or updated: one folder, which is in the update queue, and *)
(* nobody while mUpdateState is "completed".                               *)
(***************************************************************************)
StatusOK(s, st) ==
  \A f \in Folders : st[f] \in {0, 1} /\ (st[f] = 1 => s[f].state = "statusIssued")

Updated == listening \cup {f \in Folders : status[f] > 0}

UpdateOK ==
  /\ mUpdateState = "completed" => Updated = {}
  /\ \A f \in listening : status[f] = 0
  /\ \A f, g \in Updated : f = g
  /\ \A f \in Updated : f \in Range(mUpdateQ)

FetchInv ==
  Typed /\ FetchOK(sync, mPriorityQ) /\ StatusOK(sync, status) /\ OnlineOK /\ UpdateOK

\* No folder gets into the state "updateNeeded", and one with a STATUS request
\* keeps its state.
StatesKept(s, t) ==
  \A g \in Folders : \/ t[g].state = s[g].state
                     \/ t[g].state # "updateNeeded" /\ status[g] = 0

LEMMA StatusKept ==
  ASSUME NEW s, NEW t, StatusOK(s, status), StatesKept(s, t)
  PROVE  StatusOK(t, status)
  BY DEF StatusOK, StatesKept

LEMMA FetchInvFacts ==
  ASSUME FetchInv
  PROVE  /\ SyncOK(sync) /\ mPriorityQ \in Seq(Folders) /\ mUpdateQ \in Seq(Folders)
         /\ mDiscoveryQ \in Seq(Folders) /\ alive \subseteq Folders
         /\ FetchOK(sync, mPriorityQ) /\ StatusOK(sync, status) /\ OnlineOK /\ UpdateOK
         /\ status \in [Folders -> Nat] /\ listening \subseteq Folders
         /\ mUpdateState \in {"completed", "initiated"}
  BY DEF FetchInv, Typed, IInv, QueuesTyped, UrlsTyped, FlagsTyped

LEMMA LookedAt ==
  ASSUME Calm, FetchInv, NEW f \in Folders, MayLookAt(f)
  PROVE  Unlocked(sync[f]) /\ status[f] = 0
  <1>1. sync[f].fetches = <<>> /\ status[f] = 0
    BY DEF MayLookAt, Calm
  <1>2. QED
    BY <1>1 DEF FetchInv, FetchOK, FolderOK

LEMMA ActivatedKept ==
  ASSUME NEW s, NEW t, NEW f, ActivatesOnly(s, t, f), status[f] = 0
  PROVE  StatesKept(s, t)
  BY DEF ActivatesOnly, StatesKept, Active

LEMMA IdleFetch ==
  ASSUME Calm, FetchInv, Idle, NEW s, s = sync', NEW q, q = mPriorityQ'
  PROVE  FetchOK(s, q) /\ StatesKept(sync, s)
  <1>1. alive' = alive
    BY DEF Idle, AppIdle, SystemIdle, world
  <1>2. CASE ProcessPriorityQ
    <2>1. /\ FetchOK(s, q)
          /\ \A g \in Folders : \/ s[g].state = sync[g].state
                                \/ /\ sync[g].state = "readyToDownload"
                                   /\ s[g].state \in Active \cup {"completedIdle"}
      BY <1>1, <1>2, FetchInvFacts, ProcessPriorityQKeeps
    <2>2. \A g \in Folders : sync[g].state = "readyToDownload" => status[g] = 0
      BY FetchInvFacts DEF StatusOK
    <2>3. QED
      BY <2>1, <2>2 DEF StatesKept, Active
  <1>3. CASE UNCHANGED <<sync, mPriorityQ>>
    BY <1>3, FetchInvFacts DEF StatesKept
  <1>4. QED
    BY <1>2, <1>3 DEF Idle, AppIdle, SystemIdle, StartIdleProcessing

LEMMA IdleUpdate ==
  ASSUME FetchInv, Idle
  PROVE  UpdateOK'
  <1>1. UNCHANGED <<mUpdateState, status, listening>>
    BY DEF Idle, AppIdle, SystemIdle, folderVars
  <1>2. mUpdateQ' = mUpdateQ \/ AutoUpdateFolders
    BY DEF Idle, AppIdle, SystemIdle, StartIdleProcessing, ProcessPriorityQ
  <1>3. Range(mUpdateQ) \subseteq Range(mUpdateQ')
    <2>1. CASE AutoUpdateFolders
      <3>1. PICK X : mUpdateQ' = mUpdateQ \o Without(FolderOrder, X)
        BY <2>1 DEF AutoUpdateFolders
      <3>2. PICK u : u = Without(FolderOrder, X)
        OBVIOUS
      <3>3. FolderOrder \in Seq(Folders)
        BY ConstantsAssumption DEF ConstantsAssumption
      <3>4. u \in Seq(Folders) /\ mUpdateQ \in Seq(Folders)
        BY <3>2, <3>3, WithoutFolders, FetchInvFacts
      <3>5. Range(mUpdateQ \o u) = Range(mUpdateQ) \cup Range(u)
        BY <3>4, ConcatRange
      <3>6. QED
        BY <3>1, <3>2, <3>5
    <2>2. QED
      BY <1>2, <2>1
  <1>4. QED
    BY <1>1, <1>3, FetchInvFacts DEF UpdateOK, Updated

LEMMA HeaderFetch ==
  ASSUME Calm, FetchInv, NEW f \in Folders, HeaderFetchCompleted(f),
         NEW s, s = sync', NEW q, q = mPriorityQ'
  PROVE  FetchOK(s, q) /\ StatesKept(sync, s)
  <1>1. MayLookAt(f)
    BY DEF HeaderFetchCompleted
  <1>2. Unlocked(sync[f]) /\ status[f] = 0
    BY <1>1, LookedAt
  <1>3. PICK keys : keys = WithoutBody(MessagesOf(f))
    OBVIOUS
  <1>4. keys \in SUBSET MessagesOf(f)
    BY <1>3 DEF WithoutBody
  <1>5. PICK p : p = PlaceIntoDownloadQ(f, keys)
    OBVIOUS
  <1>6. (s = p.sync /\ q = p.queue) \/ (s = sync /\ q = mPriorityQ)
    BY <1>3, <1>5 DEF HeaderFetchCompleted
  <1>7. FetchOK(p.sync, p.queue) /\ ActivatesOnly(sync, p.sync, f)
    BY <1>2, <1>4, <1>5, FetchInvFacts, PlaceKeeps
  <1>8. CASE s = p.sync /\ q = p.queue
    <2>1. StatesKept(sync, s)
      BY <1>2, <1>7, <1>8, ActivatedKept
    <2>2. QED
      BY <1>7, <1>8, <2>1
  <1>9. CASE s = sync /\ q = mPriorityQ
    BY <1>9, FetchInvFacts DEF StatesKept
  <1>10. QED
    BY <1>6, <1>8, <1>9

LEMMA SelectStopsFetch ==
  ASSUME FetchInv, NEW f \in Folders, SelectStops(f), NEW s, s = sync', NEW q, q = mPriorityQ'
  PROVE  FetchOK(s, q) /\ StatesKept(sync, s)
  <1>1. PICK r : r = [sync[f] EXCEPT !.locked = FALSE]
    OBVIOUS
  <1>2. s = [sync EXCEPT ![f] = r] /\ q = mPriorityQ
    BY <1>1, FetchInvFacts DEF SelectStops, SyncOK
  <1>3. QueueOver(MessagesOf(f), sync[f]) /\ FolderOK(f, sync[f], mPriorityQ)
    BY FetchInvFacts DEF SyncOK, FetchOK
  <1>4. r.state = sync[f].state /\ r.fetches = sync[f].fetches /\ ~r.locked
    BY <1>1, <1>3 DEF QueueOver, FolderRecord
  <1>5. FolderOK(f, r, mPriorityQ)
    BY <1>3, <1>4 DEF FolderOK, Unlocked
  <1>6. FetchOK(s, mPriorityQ)
    BY <1>2, <1>4, <1>5, FetchInvFacts, UpdateOne
  <1>7. StatesKept(sync, s)
    BY <1>2, <1>4, FetchInvFacts DEF StatesKept, SyncOK
  <1>8. QED
    BY <1>2, <1>6, <1>7

LEMMA SelectStopsUpdate ==
  ASSUME FetchInv, NEW f \in Folders, SelectStops(f)
  PROVE  UpdateOK'
  <1>1. UpdateOK /\ status' = status /\ listening' = listening \ {f} /\ status \in [Folders -> Nat]
    BY FetchInvFacts DEF SelectStops
  <1>2. CASE f \in listening
    <2>1. Updated \subseteq {f} /\ status[f] = 0
      BY <1>1, <1>2 DEF UpdateOK, Updated
    <2>2. Updated' = {}
      BY <1>1, <2>1 DEF Updated
    <2>3. QED
      BY <1>1, <2>2 DEF UpdateOK, Updated
  <1>3. CASE f \notin listening
    <2>1. mUpdateState' = mUpdateState /\ mUpdateQ' = mUpdateQ /\ listening' = listening
      BY <1>1, <1>3 DEF SelectStops
    <2>2. QED
      BY <1>1, <2>1 DEF UpdateOK, Updated
  <1>4. QED
    BY <1>2, <1>3

\* The end of a STATUS request: the folder is not in the priority queue.
LEMMA StatusStopsFetch ==
  ASSUME FetchInv, NEW f \in Folders, NEW ok, NEW changed, StatusStops(f, ok, changed),
         NEW s, s = sync', NEW q, q = mPriorityQ'
  PROVE  /\ FetchOK(s, q) /\ StatusOK(s, status') /\ UpdateOK'
         /\ \A g \in Folders : s[g].state = "updateNeeded" => sync[g].state = "updateNeeded"
  <1>1. /\ status[f] = 1 /\ sync[f].state = "statusIssued" /\ status \in [Folders -> Nat]
        /\ status' = [status EXCEPT ![f] = status[f] - 1] /\ FetchOK(sync, mPriorityQ)
        /\ SyncOK(sync) /\ UpdateOK /\ StatusOK(sync, status) /\ listening \subseteq Folders
    BY FetchInvFacts DEF StatusStops, StatusOK
  <1>2. PICK r0 : r0 = sync[f]
    OBVIOUS
  <1>3. /\ QueueOver(MessagesOf(f), r0) /\ FolderOK(f, r0, mPriorityQ)
        /\ r0.state = "statusIssued"
    BY <1>1, <1>2 DEF SyncOK, FetchOK
  <1>4. Unlocked(r0) /\ f \notin Range(mPriorityQ)
    BY <1>3 DEF FolderOK, Active, Overwritten
  <1>5. /\ status'[f] = 0 /\ \A g \in Folders : g # f => status'[g] = status[g]
    BY <1>1
  <1>6. Updated = {f} /\ f \notin listening /\ f \in Range(mUpdateQ) /\ mUpdateState # "completed"
    BY <1>1 DEF UpdateOK, Updated
  <1>7. \A g \in Folders : g # f => status[g] = 0
    <2>1. \A g \in Folders : status[g] > 0 => g = f
      BY <1>6 DEF Updated
    <2>2. QED
      BY <1>1, <2>1 DEF StatusOK
  <1>8. \A g \in Folders : status'[g] = 0
    BY <1>5, <1>7
  <1>9. StatusOK(s, status')
    BY <1>8 DEF StatusOK
  <1>10. CASE changed
    <2>1. /\ s = [sync EXCEPT ![f] = [r0 EXCEPT !.state = "updateIssued"]] /\ q = mPriorityQ
          /\ UpdateFolder(f, {f}) /\ mUpdateQ' = mUpdateQ /\ mUpdateState' = mUpdateState
      BY <1>1, <1>2, <1>10 DEF StatusStops, OnStopRunningUrl
    <2>2. PICK r : r = [r0 EXCEPT !.state = "updateIssued"]
      OBVIOUS
    <2>3. r.state = "updateIssued" /\ r.fetches = r0.fetches /\ r.locked = r0.locked
      BY <1>3, <2>2 DEF QueueOver, FolderRecord
    <2>4. FolderOK(f, r, mPriorityQ)
      BY <1>4, <2>3 DEF FolderOK, Unlocked, Active
    <2>5. FetchOK(s, q)
      <3>1. r.state # "downloadInProgress" /\ s = [sync EXCEPT ![f] = r]
        BY <2>1, <2>2, <2>3
      <3>2. /\ SyncOK(sync) /\ FetchOK(sync, mPriorityQ) /\ FolderOK(f, r, mPriorityQ)
            /\ \A g \in Folders : g # f => (g \in Range(mPriorityQ) <=> g \in Range(mPriorityQ))
            /\ r.state = "downloadInProgress" =>
                 sync[f].state = "downloadInProgress" \/ (f \in alive /\ Free(sync, f))
        BY <1>1, <2>4, <3>1
      <3>3. FetchOK(s, mPriorityQ)
        BY <3>1, <3>2, UpdateOne
      <3>4. QED
        BY <2>1, <3>3
    <2>6. listening' \subseteq {f}
      BY <1>6, <2>1 DEF UpdateFolder, CannotUpdate, UpdateFolderWithListener, PlayBackFirst, Updated
    <2>7. Updated' \subseteq {f}
      BY <1>8, <2>6 DEF Updated
    <2>8. UpdateOK'
      BY <1>1, <1>6, <1>8, <2>1, <2>6, <2>7 DEF UpdateOK
    <2>9. \A g \in Folders : s[g].state = "updateNeeded" => sync[g].state = "updateNeeded"
      BY <1>1, <2>1, <2>2, <2>3 DEF SyncOK
    <2>10. QED
      BY <1>9, <2>5, <2>8, <2>9
  <1>11. CASE ~changed
    <2>1. /\ s = [sync EXCEPT ![f] = SetCompletedIdle(r0)] /\ q = mPriorityQ
          /\ UpdateEnded /\ listening' = listening
      BY <1>1, <1>2, <1>11 DEF StatusStops, OnStopRunningUrl
    <2>2. PICK r : r = SetCompletedIdle(r0)
      OBVIOUS
    <2>3. Unlocked(r) /\ r.state = "completedIdle"
      BY <1>3, <1>4, <2>2, CompletedUnlocked
    <2>4. FolderOK(f, r, mPriorityQ)
      BY <1>4, <2>3 DEF FolderOK, Active
    <2>5. FetchOK(s, q)
      <3>1. r.state # "downloadInProgress" /\ s = [sync EXCEPT ![f] = r]
        BY <2>1, <2>2, <2>3
      <3>2. /\ SyncOK(sync) /\ FetchOK(sync, mPriorityQ) /\ FolderOK(f, r, mPriorityQ)
            /\ \A g \in Folders : g # f => (g \in Range(mPriorityQ) <=> g \in Range(mPriorityQ))
            /\ r.state = "downloadInProgress" =>
                 sync[f].state = "downloadInProgress" \/ (f \in alive /\ Free(sync, f))
        BY <1>1, <2>4, <3>1
      <3>3. FetchOK(s, mPriorityQ)
        BY <3>1, <3>2, UpdateOne
      <3>4. QED
        BY <2>1, <3>3
    <2>6. listening' = {}
      BY <1>6, <2>1 DEF Updated
    <2>7. Updated' = {}
      BY <1>8, <2>6 DEF Updated
    <2>8. UpdateOK'
      BY <2>6, <2>7 DEF UpdateOK
    <2>9. \A g \in Folders : s[g].state = "updateNeeded" => sync[g].state = "updateNeeded"
      BY <1>1, <2>1, <2>2, <2>3 DEF SyncOK
    <2>10. QED
      BY <1>9, <2>5, <2>8, <2>9
  <1>12. QED
    BY <1>10, <1>11

\* When the only fetch of a server has ended, it is free for any of its folders.
LEMMA ServerFree ==
  ASSUME Calm, NEW s, SyncOK(s), NEW q, FetchOK(s, q), NEW f \in Folders, s[f].fetches # <<>>,
         NEW r, r.state # "downloadInProgress", NEW t, t = [s EXCEPT ![f] = r],
         NEW g \in Folders, g = f \/ IsSibling(f, g)
  PROVE  Free(t, g)
  <1> SUFFICES ASSUME Chained, NEW h \in Folders, IsSibling(g, h), t[h].state = "downloadInProgress"
               PROVE  FALSE
    BY DEF Free
  <1>1. s[f].state = "downloadInProgress"
    BY DEF FetchOK, FolderOK, Unlocked, Calm, Overwritten
  <1>2. h # f /\ s[h].state = "downloadInProgress"
    BY DEF SyncOK
  <1>3. ServerOf[f] = ServerOf[h]
    BY DEF IsSibling
  <1>4. QED
    BY <1>1, <1>2, <1>3 DEF FetchOK, OnePerServer

\* The state after the fetch of f has ended (s), and that after g, which waits,
\* was asked (t).
LEMMA AskedAfter ==
  ASSUME Calm, OnlineOK, NEW s, SyncOK(s), NEW q \in Seq(Folders), FetchOK(s, q),
         NEW g \in Folders, s[g].state = "readyToDownload", Free(s, g),
         StatusOK(s, status), NEW t, t = DownloadChained(s, q, g)
  PROVE  FetchOK(t, q) /\ StatesKept(s, t)
  <1>1. /\ FetchOK(t, q)
        /\ \A h \in Folders : t[h] = s[h] \/ (Waiting(s[h]) /\ (Waiting(t[h]) \/ Fetching(t[h])))
    BY ChainKeeps
  <1>2. \A h \in Folders : Waiting(s[h]) => status[h] = 0
    BY DEF Waiting, StatusOK
  <1>3. \A h \in Folders : Waiting(t[h]) \/ Fetching(t[h]) => t[h].state # "updateNeeded"
    BY DEF Waiting, Fetching
  <1>4. QED
    BY <1>1, <1>2, <1>3 DEF StatesKept

LEMMA SiblingReady ==
  ASSUME Calm, NEW s, SyncOK(s), NEW q \in Seq(Folders), FetchOK(s, q), NEW f \in Folders, Free(s, f),
         Chained, NEW g \in Folders, IsSibling(f, g), g \in Range(q)
  PROVE  s[g].state = "readyToDownload"
  BY WaitingInQueue DEF Waiting

LEMMA KeptTwice ==
  ASSUME NEW s, NEW t, NEW u, StatesKept(s, t), StatesKept(t, u)
  PROVE  StatesKept(s, u)
  BY DEF StatesKept

\* The download queue is as it was.
SameQueue(r, u) ==
  /\ u.done = r.done /\ u.current = r.current /\ u.pending = r.pending
  /\ u.tried = r.tried /\ u.retries = r.retries

\* The record of f after its fetch: nothing runs and the semaphore is free.
LEMMA DownloadStopped ==
  ASSUME FetchInv, NEW f \in Folders, NEW ok, DownloadStops(f, ok)
  PROVE  /\ sync[f].fetches # <<>> /\ status[f] = 0 /\ f \in alive
         /\ UNCHANGED <<mUpdateQ, mUpdateState, select, listening, status>>
         /\ \E u : /\ QueueOver(MessagesOf(f), u) /\ Unlocked(u) /\ SameQueue(sync[f], u)
                   /\ \/ ok /\ (OnGroupDownloaded(f, u) \/ OnFolderDownloaded(f, u))
                      \/ ~ok /\ OnDownloadFailed(f, u)
  <1>1. /\ SyncOK(sync) /\ StatusOK(sync, status) /\ FetchOK(sync, mPriorityQ)
        /\ sync[f].fetches # <<>>
    BY FetchInvFacts DEF DownloadStops
  <1>2. PICK list : list = Tail(sync[f].fetches)
    OBVIOUS
  <1>3. PICK r : r = [sync[f] EXCEPT !.fetches = list]
    OBVIOUS
  <1>4. /\ QueueOver(MessagesOf(f), sync[f]) /\ FolderOK(f, sync[f], mPriorityQ)
    BY <1>1 DEF SyncOK, FetchOK
  <1>5. list = <<>>
    <2>1. sync[f].fetches \in Seq(SUBSET MessagesOf(f)) /\ Len(sync[f].fetches) = 1
      BY <1>1, <1>4 DEF FolderOK, Unlocked, QueueOver, FolderRecord
    <2>2. QED
      BY <1>2, <2>1
  <1>6. /\ f \in alive /\ sync[f].state # "statusIssued"
    BY <1>1, <1>4 DEF FolderOK, Unlocked, Overwritten
  <1>7. status[f] = 0
    BY <1>1, <1>6 DEF StatusOK
  <1>8. r.state = sync[f].state /\ r.fetches = <<>> /\ QueueOver(MessagesOf(f), r)
    <2>1. list \in Seq(SUBSET MessagesOf(f))
      BY <1>5
    <2>2. QED
      BY <1>3, <1>4, <1>5, <2>1 DEF QueueOver, FolderRecord
  <1>9. PICK changed : OnStopRunningUrl(f, ok, changed, r) /\ UNCHANGED status
    BY <1>2, <1>3 DEF DownloadStops
  <1>10. PICK u : u = [r EXCEPT !.locked = FALSE]
    OBVIOUS
  <1>11. QueueOver(MessagesOf(f), u) /\ Unlocked(u)
    BY <1>8, <1>10 DEF QueueOver, FolderRecord, Unlocked
  <1>12. /\ \/ ok /\ (OnGroupDownloaded(f, u) \/ OnFolderDownloaded(f, u))
            \/ ~ok /\ OnDownloadFailed(f, u)
         /\ UNCHANGED <<mUpdateQ, mUpdateState, select, listening>>
    BY <1>6, <1>8, <1>9, <1>10 DEF OnStopRunningUrl
  <1>13. SameQueue(sync[f], u)
    BY <1>3, <1>4, <1>8, <1>10 DEF QueueOver, FolderRecord, SameQueue
  <1>14. QED
    BY <1>1, <1>6, <1>7, <1>9, <1>11, <1>12, <1>13

\* The folder waits again, and f or a sibling ahead of it is asked.
LEMMA WaitsAfter ==
  ASSUME Calm, FetchInv, NEW f \in Folders, sync[f].fetches # <<>>, status[f] = 0,
         NEW r, QueueOver(MessagesOf(f), r), Waiting(r),
         NEW s, s = [sync EXCEPT ![f] = r]
  PROVE  /\ SyncOK(s) /\ FetchOK(s, mPriorityQ) /\ StatesKept(sync, s) /\ StatusOK(s, status)
         /\ s[f] = r
         /\ \A g \in Folders : g = f \/ IsSibling(f, g) => Free(s, g)
  <1>1. /\ SyncOK(sync) /\ FetchOK(sync, mPriorityQ) /\ StatusOK(sync, status)
    BY FetchInvFacts
  <1>2. SyncOK(s)
    BY <1>1, ExceptOK
  <1>3. f \in Range(mPriorityQ)
    BY <1>1 DEF FetchOK, FolderOK, Unlocked
  <1>4. FolderOK(f, r, mPriorityQ) /\ r.state = "readyToDownload"
    BY <1>3, FetchingOK DEF Waiting
  <1>5. FetchOK(s, mPriorityQ)
    BY <1>1, <1>4, UpdateOne
  <1>6. s[f] = r /\ \A g \in Folders : g # f => s[g] = sync[g]
    BY <1>1 DEF SyncOK
  <1>7. StatesKept(sync, s)
    BY <1>4, <1>6 DEF StatesKept
  <1>8. StatusOK(s, status)
    BY <1>1, <1>7, StatusKept
  <1>9. \A g \in Folders : g = f \/ IsSibling(f, g) => Free(s, g)
    <2>1. ASSUME NEW g \in Folders, g = f \/ IsSibling(f, g) PROVE Free(s, g)
      BY <1>1, <1>4, <2>1, ServerFree
    <2>2. QED
      BY <2>1
  <1>10. QED
    BY <1>2, <1>5, <1>6, <1>7, <1>8, <1>9

\* f has got the record r, and somebody of a free server is asked next.
AskedFrom(f, r, s, q) ==
  \E t : /\ t = [sync EXCEPT ![f] = r] /\ SyncOK(t) /\ FetchOK(t, q)
         /\ \/ s = t
            \/ \E g \in Folders : /\ t[g].state = "readyToDownload" /\ Free(t, g)
                                 /\ s = DownloadChained(t, q, g)

LEMMA FailedFetch ==
  ASSUME Calm, FetchInv, NEW f \in Folders, sync[f].fetches # <<>>, status[f] = 0,
         NEW u, QueueOver(MessagesOf(f), u), Unlocked(u), OnDownloadFailed(f, u),
         NEW s, s = sync', NEW q, q = mPriorityQ'
  PROVE  /\ FetchOK(s, q) /\ StatesKept(sync, s)
         /\ AskedFrom(f, TryCurrentGroupAgain(u), s, q)
  <1>1. PICK r : r = TryCurrentGroupAgain(u)
    OBVIOUS
  <1>2. Waiting(r) /\ QueueOver(MessagesOf(f), r)
    BY <1>1, AgainWaits, TryCurrentGroupAgainOK
  <1>3. PICK t : t = [sync EXCEPT ![f] = r]
    OBVIOUS
  <1>4. /\ SyncOK(t) /\ FetchOK(t, mPriorityQ) /\ StatesKept(sync, t) /\ StatusOK(t, status)
        /\ t[f] = r
        /\ \A g \in Folders : g = f \/ IsSibling(f, g) => Free(t, g)
    BY <1>2, <1>3, WaitsAfter
  <1>5. q = mPriorityQ /\ (s = t \/ s = DownloadChained(t, mPriorityQ, f))
    BY <1>1, <1>3 DEF OnDownloadFailed
  <1>6. CASE s = DownloadChained(t, mPriorityQ, f)
    <2>1. t[f].state = "readyToDownload" /\ Free(t, f)
      BY <1>2, <1>4 DEF Waiting
    <2>2. FetchOK(s, mPriorityQ) /\ StatesKept(t, s)
      BY <1>4, <1>6, <2>1, FetchInvFacts, AskedAfter
    <2>3. StatesKept(sync, s)
      BY <1>4, <2>2, KeptTwice
    <2>4. AskedFrom(f, r, s, q)
      BY <1>3, <1>4, <1>5, <1>6, <2>1 DEF AskedFrom
    <2>5. QED
      BY <1>1, <1>5, <2>2, <2>3, <2>4
  <1>7. CASE s = t
    <2>1. AskedFrom(f, r, s, q)
      BY <1>3, <1>4, <1>5, <1>7 DEF AskedFrom
    <2>2. QED
      BY <1>1, <1>4, <1>5, <1>7, <2>1
  <1>8. QED
    BY <1>5, <1>6, <1>7

LEMMA GroupFetched ==
  ASSUME Calm, FetchInv, NEW f \in Folders, sync[f].fetches # <<>>, status[f] = 0,
         NEW u, QueueOver(MessagesOf(f), u), Unlocked(u), OnGroupDownloaded(f, u),
         NEW s, s = sync', NEW q, q = mPriorityQ'
  PROVE  /\ FetchOK(s, q) /\ StatesKept(sync, s)
         /\ AskedFrom(f, [u EXCEPT !.state = "readyToDownload", !.retries = 0], s, q)
  <1>1. PICK r : r = [u EXCEPT !.state = "readyToDownload", !.retries = 0]
    OBVIOUS
  <1>2. Waiting(r) /\ QueueOver(MessagesOf(f), r)
    <2>1. 0 \in 0..GroupRetryCount
      BY ConstantsAssumption DEF ConstantsAssumption
    <2>2. QED
      BY <1>1, <2>1 DEF Waiting, Unlocked, QueueOver, FolderRecord, SyncStates
  <1>3. PICK t : t = [sync EXCEPT ![f] = r]
    OBVIOUS
  <1>4. /\ SyncOK(t) /\ FetchOK(t, mPriorityQ) /\ StatesKept(sync, t) /\ StatusOK(t, status)
        /\ t[f] = r
        /\ \A g \in Folders : g = f \/ IsSibling(f, g) => Free(t, g)
    BY <1>2, <1>3, WaitsAfter
  <1>5. PICK g : g = NextToDownload(mPriorityQ, f)
    OBVIOUS
  <1>6. q = mPriorityQ /\ (s = t \/ s = DownloadChained(t, mPriorityQ, g))
    BY <1>1, <1>3, <1>5 DEF OnGroupDownloaded
  <1>7. g = f \/ (Chained /\ IsSibling(f, g) /\ g \in Range(mPriorityQ) /\ g \in Folders)
    <2>1. PICK ahead : ahead = {i \in {k \in DOMAIN mPriorityQ :
                                         mPriorityQ[k] # f /\ IsSibling(f, mPriorityQ[k])} :
                                  \E j \in DOMAIN mPriorityQ : mPriorityQ[j] = f /\ i < j}
      OBVIOUS
    <2>2. g = IF Chained /\ ahead # {} THEN mPriorityQ[Min(ahead)] ELSE f
      BY <1>5, <2>1 DEF NextToDownload
    <2>3. CASE Chained /\ ahead # {}
      <3>1. mPriorityQ \in Seq(Folders)
        BY FetchInvFacts
      <3>2. /\ DOMAIN mPriorityQ = 1..Len(mPriorityQ) /\ Len(mPriorityQ) \in Nat
        BY <3>1
      <3>3. IsFiniteSet(1..Len(mPriorityQ))
        BY <3>2, FS_Interval
      <3>4. ahead \subseteq 1..Len(mPriorityQ) /\ ahead \subseteq Int
        BY <2>1, <3>2
      <3>5. IsFiniteSet(ahead)
        BY <3>3, <3>4, FS_Subset
      <3>6. PICK i : i = Min(ahead)
        OBVIOUS
      <3>7. i \in ahead
        BY <2>3, <3>4, <3>5, <3>6, Extremes
      <3>8. i \in DOMAIN mPriorityQ /\ IsSibling(f, mPriorityQ[i])
        BY <2>1, <3>7
      <3>9. g = mPriorityQ[i]
        BY <2>2, <2>3, <3>6
      <3>10. mPriorityQ[i] \in Folders /\ mPriorityQ[i] \in Range(mPriorityQ)
        BY <3>1, <3>8, Elements
      <3>11. QED
        BY <2>3, <3>8, <3>9, <3>10
    <2>4. QED
      BY <2>2, <2>3
  <1>8. g \in Folders /\ Free(t, g) /\ t[g].state = "readyToDownload"
    <2>1. CASE g = f
      BY <1>2, <1>4, <2>1 DEF Waiting
    <2>2. CASE g # f
      <3>1. Free(t, f) /\ Free(t, g)
        BY <1>4, <1>7, <2>2
      <3>2. t[g].state = "readyToDownload"
        BY <1>4, <1>7, <2>2, <3>1, FetchInvFacts, SiblingReady
      <3>3. QED
        BY <1>7, <2>2, <3>1, <3>2
    <2>3. QED
      BY <2>1, <2>2
  <1>9. CASE s = DownloadChained(t, mPriorityQ, g)
    <2>1. FetchOK(s, mPriorityQ) /\ StatesKept(t, s)
      BY <1>4, <1>8, <1>9, FetchInvFacts, AskedAfter
    <2>2. StatesKept(sync, s)
      BY <1>4, <2>1, KeptTwice
    <2>3. AskedFrom(f, r, s, q)
      BY <1>3, <1>4, <1>6, <1>8, <1>9 DEF AskedFrom
    <2>4. QED
      BY <1>1, <1>6, <2>1, <2>2, <2>3
  <1>10. CASE s = t
    <2>1. AskedFrom(f, r, s, q)
      BY <1>3, <1>4, <1>6, <1>10 DEF AskedFrom
    <2>2. QED
      BY <1>1, <1>4, <1>6, <1>10, <2>1
  <1>11. QED
    BY <1>6, <1>9, <1>10

\* The folder leaves the queue, and its first sibling is asked.
LEMMA FolderFetched ==
  ASSUME Calm, FetchInv, NEW f \in Folders, sync[f].fetches # <<>>, status[f] = 0,
         NEW u, QueueOver(MessagesOf(f), u), Unlocked(u), OnFolderDownloaded(f, u),
         NEW s, s = sync', NEW q, q = mPriorityQ'
  PROVE  /\ FetchOK(s, q) /\ StatesKept(sync, s)
         /\ AskedFrom(f, SetCompletedIdle([u EXCEPT !.retries = 0]), s, q)
  <1>1. /\ SyncOK(sync) /\ FetchOK(sync, mPriorityQ) /\ StatusOK(sync, status)
        /\ mPriorityQ \in Seq(Folders)
    BY FetchInvFacts
  <1>2. PICK r0 : r0 = [u EXCEPT !.retries = 0]
    OBVIOUS
  <1>3. Unlocked(r0) /\ QueueOver(MessagesOf(f), r0)
    <2>1. 0 \in 0..GroupRetryCount
      BY ConstantsAssumption DEF ConstantsAssumption
    <2>2. QED
      BY <1>2, <2>1 DEF Unlocked, QueueOver, FolderRecord
  <1>4. PICK r : r = SetCompletedIdle(r0)
    OBVIOUS
  <1>5. Unlocked(r) /\ r.state = "completedIdle" /\ QueueOver(MessagesOf(f), r)
    BY <1>3, <1>4, CompletedUnlocked, SetCompletedIdleOK
  <1>6. PICK t : t = [sync EXCEPT ![f] = r]
    OBVIOUS
  <1>7. q = Without(mPriorityQ, {f})
    BY DEF OnFolderDownloaded
  <1>8. q \in Seq(Folders) /\ Range(q) = Range(mPriorityQ) \ {f}
    BY <1>1, <1>7, WithoutFolders
  <1>9. SyncOK(t)
    BY <1>1, <1>5, <1>6, ExceptOK
  <1>10. FetchOK(t, q)
    <2>1. /\ FolderOK(f, r, q) /\ r.state # "downloadInProgress"
          /\ \A g \in Folders : g # f => (g \in Range(q) <=> g \in Range(mPriorityQ))
      BY <1>5, <1>8 DEF FolderOK, Active
    <2>2. QED
      BY <1>1, <1>6, <2>1, UpdateOne
  <1>11. t[f] = r /\ \A g \in Folders : g # f => t[g] = sync[g]
    BY <1>1, <1>6 DEF SyncOK
  <1>12. StatesKept(sync, t)
    BY <1>5, <1>11 DEF StatesKept
  <1>13. StatusOK(t, status)
    BY <1>1, <1>12, StatusKept
  <1>14. PICK siblings : siblings = {i \in DOMAIN q : q[i] # f /\ IsSibling(f, q[i])}
    OBVIOUS
  <1>15. PICK g : g = q[Min(siblings)]
    OBVIOUS
  <1>16. s = t \/ (Chained /\ siblings # {} /\ s = DownloadChained(t, q, g))
    BY <1>2, <1>4, <1>6, <1>14, <1>15 DEF OnFolderDownloaded
  <1>17. ASSUME Chained, siblings # {}, s = DownloadChained(t, q, g)
         PROVE  FetchOK(s, q) /\ StatesKept(sync, s) /\ AskedFrom(f, r, s, q)
    <2>1. /\ DOMAIN q = 1..Len(q) /\ Len(q) \in Nat
      BY <1>8
    <2>2. IsFiniteSet(1..Len(q))
      BY <2>1, FS_Interval
    <2>3. siblings \subseteq 1..Len(q) /\ siblings \subseteq Int
      BY <1>14, <2>1
    <2>4. IsFiniteSet(siblings)
      BY <2>2, <2>3, FS_Subset
    <2>5. PICK i : i = Min(siblings)
      OBVIOUS
    <2>6. g \in Folders /\ IsSibling(f, g) /\ g \in Range(q)
      <3>1. i \in siblings
        BY <1>17, <2>3, <2>4, <2>5, Extremes
      <3>2. i \in DOMAIN q /\ IsSibling(f, q[i])
        BY <1>14, <3>1
      <3>3. q[i] \in Folders /\ q[i] \in Range(q)
        BY <1>8, <3>2, Elements
      <3>4. QED
        BY <1>15, <2>5, <3>2, <3>3
    <2>7. Free(t, f) /\ Free(t, g)
      <3>1. r.state # "downloadInProgress"
        BY <1>5
      <3>2. \A h \in Folders : h = f \/ IsSibling(f, h) => Free(t, h)
        <4>1. ASSUME NEW h \in Folders, h = f \/ IsSibling(f, h) PROVE Free(t, h)
          BY <1>1, <1>6, <3>1, <4>1, ServerFree
        <4>2. QED
          BY <4>1
      <3>3. QED
        BY <2>6, <3>2
    <2>8. t[g].state = "readyToDownload"
      BY <1>8, <1>9, <1>10, <1>17, <2>6, <2>7, SiblingReady
    <2>9. FetchOK(s, q) /\ StatesKept(t, s)
      BY <1>8, <1>9, <1>10, <1>13, <1>17, <2>6, <2>7, <2>8, FetchInvFacts, AskedAfter
    <2>10. StatesKept(sync, s)
      BY <1>12, <2>9, KeptTwice
    <2>11. AskedFrom(f, r, s, q)
      BY <1>6, <1>9, <1>10, <1>17, <2>6, <2>7, <2>8 DEF AskedFrom
    <2>12. QED
      BY <2>9, <2>10, <2>11
  <1>18. CASE s = t
    <2>1. AskedFrom(f, r, s, q)
      BY <1>6, <1>9, <1>10, <1>18 DEF AskedFrom
    <2>2. QED
      BY <1>2, <1>4, <1>10, <1>12, <1>18, <2>1
  <1>19. QED
    BY <1>2, <1>4, <1>16, <1>17, <1>18

LEMMA DownloadStopsFetch ==
  ASSUME Calm, FetchInv, NEW f \in Folders, NEW ok, DownloadStops(f, ok),
         NEW s, s = sync', NEW q, q = mPriorityQ'
  PROVE  FetchOK(s, q) /\ StatesKept(sync, s) /\ UpdateOK'
  <1>1. /\ sync[f].fetches # <<>> /\ status[f] = 0
        /\ UNCHANGED <<mUpdateQ, mUpdateState, select, listening, status>>
    BY DownloadStopped
  <1>2. PICK u : /\ QueueOver(MessagesOf(f), u) /\ Unlocked(u)
                 /\ \/ OnGroupDownloaded(f, u)
                    \/ OnFolderDownloaded(f, u)
                    \/ OnDownloadFailed(f, u)
    BY DownloadStopped
  <1>3. FetchOK(s, q) /\ StatesKept(sync, s)
    BY <1>1, <1>2, GroupFetched, FolderFetched, FailedFetch
  <1>4. UpdateOK'
    BY <1>1, FetchInvFacts DEF UpdateOK, Updated
  <1>5. QED
    BY <1>3, <1>4

\* The other half of the timer: s is what discovery has made of the folders.
LEMMA InitiateFetch ==
  ASSUME FetchInv, NEW s, SyncOK(s), NEW q, FetchOK(s, q), StatusOK(s, status),
         mUpdateState = "completed", mUpdateQ # <<>>, NEW f, f = Head(mUpdateQ), f \in Folders,
         InitiateAutoSync(s, f), NEW t, t = sync'
  PROVE  /\ FetchOK(t, q) /\ StatusOK(t, status') /\ UpdateOK'
         /\ t[f].state # "updateNeeded" \/ "refused" \in Behaviours
         /\ \A g \in Folders : g # f => t[g] = s[g]
  <1>1. /\ Updated = {} /\ listening = {} /\ \A g \in Folders : status[g] = 0
        /\ status \in [Folders -> Nat] /\ f \in Range(mUpdateQ)
    <2>1. Updated = {} /\ listening = {}
      BY FetchInvFacts DEF UpdateOK, Updated
    <2>2. status \in [Folders -> Nat] /\ mUpdateQ \in Seq(Folders)
      BY FetchInvFacts
    <2>3. \A g \in Folders : status[g] = 0
      BY <2>1, <2>2 DEF Updated
    <2>4. f \in Range(mUpdateQ)
      BY <2>2, TailFolders
    <2>5. QED
      BY <2>1, <2>2, <2>3, <2>4
  <1>2. PICK r0 : r0 = s[f]
    OBVIOUS
  <1>3. QueueOver(MessagesOf(f), r0) /\ FolderOK(f, r0, q)
    BY <1>2 DEF SyncOK, FetchOK
  <1>4. CASE /\ t = [s EXCEPT ![f].state = "updateIssued"] /\ r0.state = "updateNeeded"
             /\ UpdateFolderWithListener(f, {f})
             /\ mUpdateState' = "initiated" /\ mUpdateQ' = mUpdateQ /\ status' = status
    <2>1. /\ t = [s EXCEPT ![f].state = "updateIssued"] /\ UpdateFolderWithListener(f, {f})
          /\ mUpdateState' = "initiated" /\ mUpdateQ' = mUpdateQ /\ status' = status
      BY <1>4
    <2>2. PICK r : r = [r0 EXCEPT !.state = "updateIssued"]
      OBVIOUS
    <2>3. t = [s EXCEPT ![f] = r]
      BY <1>2, <2>1, <2>2 DEF SyncOK
    <2>4. r.state = "updateIssued" /\ r.fetches = r0.fetches /\ r.locked = r0.locked
      BY <1>3, <2>2 DEF QueueOver, FolderRecord
    <2>5. FolderOK(f, r, q)
      BY <1>3, <1>4, <2>4 DEF FolderOK, Unlocked, Active, Overwritten
    <2>6. FetchOK(t, q)
      <3>1. /\ r.state # "downloadInProgress"
            /\ \A g \in Folders : g # f => (g \in Range(q) <=> g \in Range(q))
        BY <2>4
      <3>2. QED
        BY <2>3, <2>5, <3>1, UpdateOne
    <2>7. t[f] = r /\ \A g \in Folders : g # f => t[g] = s[g]
      BY <2>3 DEF SyncOK
    <2>8. StatusOK(t, status')
      BY <1>1, <2>1 DEF StatusOK
    <2>9. listening' \subseteq {f}
      BY <1>1, <2>1 DEF UpdateFolderWithListener, PlayBackFirst
    <2>10. Updated' \subseteq {f}
      BY <1>1, <2>1, <2>9 DEF Updated
    <2>11. UpdateOK'
      BY <1>1, <2>1, <2>9, <2>10 DEF UpdateOK
    <2>12. QED
      BY <2>4, <2>6, <2>7, <2>8, <2>11
  <1>5. CASE /\ t = [s EXCEPT ![f].state = "statusIssued"] /\ listening' = listening
             /\ r0.state = "completedIdle"
             /\ \/ /\ status' = [status EXCEPT ![f] = status[f] + 1]
                   /\ mUpdateState' = "initiated" /\ mUpdateQ' = mUpdateQ
                \/ status' = status
    <2>1. /\ t = [s EXCEPT ![f].state = "statusIssued"] /\ listening' = listening
          /\ \/ /\ status' = [status EXCEPT ![f] = status[f] + 1]
                /\ mUpdateState' = "initiated" /\ mUpdateQ' = mUpdateQ
             \/ status' = status
      BY <1>5
    <2>2. PICK r : r = [r0 EXCEPT !.state = "statusIssued"]
      OBVIOUS
    <2>3. t = [s EXCEPT ![f] = r]
      BY <1>2, <2>1, <2>2 DEF SyncOK
    <2>4. r.state = "statusIssued" /\ r.fetches = r0.fetches /\ r.locked = r0.locked
      BY <1>3, <2>2 DEF QueueOver, FolderRecord
    <2>5. FolderOK(f, r, q)
      BY <1>3, <1>5, <2>4 DEF FolderOK, Unlocked, Active, Overwritten
    <2>6. FetchOK(t, q)
      <3>1. /\ r.state # "downloadInProgress"
            /\ \A g \in Folders : g # f => (g \in Range(q) <=> g \in Range(q))
        BY <2>4
      <3>2. QED
        BY <2>3, <2>5, <3>1, UpdateOne
    <2>7. t[f] = r /\ \A g \in Folders : g # f => t[g] = s[g]
      BY <2>3 DEF SyncOK
    <2>8. status'[f] \in {0, 1} /\ \A g \in Folders : g # f => status'[g] = 0
      BY <1>1, <2>1
    <2>9. StatusOK(t, status')
      BY <2>4, <2>7, <2>8 DEF StatusOK
    <2>10. listening' = {}
      BY <1>1, <2>1
    <2>11. Updated' \subseteq {f}
      BY <2>8, <2>10 DEF Updated
    <2>12. UpdateOK'
      <3>1. CASE status' = status
        <4>1. Updated' = {}
          BY <1>1, <2>10, <3>1 DEF Updated
        <4>2. QED
          BY <2>10, <4>1 DEF UpdateOK
      <3>2. CASE mUpdateState' = "initiated" /\ mUpdateQ' = mUpdateQ
        BY <1>1, <2>10, <2>11, <3>2 DEF UpdateOK
      <3>3. QED
        BY <2>1, <3>1, <3>2
    <2>13. QED
      BY <2>4, <2>6, <2>7, <2>9, <2>12
  <1>6. CASE /\ "refused" \in Behaviours /\ listening' = listening /\ status' = status
             /\ \/ t = s
                \/ t = [s EXCEPT ![f].state = "updateIssued"] /\ r0.state = "updateNeeded"
    <2>1. FetchOK(t, q) /\ \A g \in Folders : g # f => t[g] = s[g]
      <3>1. CASE t = s
        BY <3>1
      <3>2. CASE t = [s EXCEPT ![f].state = "updateIssued"] /\ r0.state = "updateNeeded"
        <4>1. PICK r : r = [r0 EXCEPT !.state = "updateIssued"]
          OBVIOUS
        <4>2. t = [s EXCEPT ![f] = r]
          BY <1>2, <3>2, <4>1 DEF SyncOK
        <4>3. r.state = "updateIssued" /\ r.fetches = r0.fetches /\ r.locked = r0.locked
          BY <1>3, <4>1 DEF QueueOver, FolderRecord
        <4>4. FolderOK(f, r, q)
          BY <1>3, <3>2, <4>3 DEF FolderOK, Unlocked, Active, Overwritten
        <4>5. /\ r.state # "downloadInProgress"
              /\ \A g \in Folders : g # f => (g \in Range(q) <=> g \in Range(q))
          BY <4>3
        <4>6. FetchOK(t, q)
          BY <4>2, <4>4, <4>5, UpdateOne
        <4>7. QED
          BY <4>2, <4>6 DEF SyncOK
      <3>3. QED
        BY <1>6, <3>1, <3>2
    <2>2. StatusOK(t, status')
      BY <1>1, <1>6 DEF StatusOK
    <2>3. listening' = {} /\ Updated' = {}
      BY <1>1, <1>6 DEF Updated
    <2>4. UpdateOK'
      BY <2>3 DEF UpdateOK
    <2>5. QED
      BY <1>6, <2>1, <2>2, <2>4
  <1>7. QED
    <2>1. s[f] = r0
      BY <1>2
    <2>2. \/ /\ t = [s EXCEPT ![f].state = "updateIssued"] /\ r0.state = "updateNeeded"
             /\ UpdateFolderWithListener(f, {f})
             /\ mUpdateState' = "initiated" /\ mUpdateQ' = mUpdateQ /\ status' = status
          \/ /\ "refused" \in Behaviours /\ listening' = listening /\ status' = status
             /\ \/ t = s
                \/ t = [s EXCEPT ![f].state = "updateIssued"] /\ r0.state = "updateNeeded"
          \/ /\ t = [s EXCEPT ![f].state = "statusIssued"] /\ listening' = listening
             /\ r0.state = "completedIdle"
             /\ \/ /\ status' = [status EXCEPT ![f] = status[f] + 1]
                   /\ mUpdateState' = "initiated" /\ mUpdateQ' = mUpdateQ
                \/ status' = status
      BY <2>1 DEF InitiateAutoSync, CannotUpdate
    <2>3. QED
      BY <1>4, <1>5, <1>6, <2>2

LEMMA UpdateQFetch ==
  ASSUME FetchInv, NEW s, SyncOK(s), NEW q, FetchOK(s, q), StatusOK(s, status),
         ProcessUpdateQ(s), NEW t, t = sync'
  PROVE  FetchOK(t, q) /\ StatusOK(t, status') /\ UpdateOK'
  <1>1. CASE /\ t = s /\ mUpdateState' = mUpdateState /\ UNCHANGED folderVars
             /\ mUpdateQ' = mUpdateQ \/ mUpdateState = "completed"
    <2>1. UpdateOK'
      BY <1>1, FetchInvFacts DEF UpdateOK, Updated, folderVars
    <2>2. QED
      BY <1>1, <2>1 DEF folderVars
  <1>2. CASE mUpdateQ # <<>> /\ mUpdateState = "completed" /\ InitiateAutoSync(s, Head(mUpdateQ))
    <2>1. PICK f : f = Head(mUpdateQ)
      OBVIOUS
    <2>2. f \in Folders
      BY <1>2, <2>1, FetchInvFacts
    <2>3. QED
      BY <1>2, <2>1, <2>2, InitiateFetch
  <1>3. QED
    BY <1>1, <1>2 DEF ProcessUpdateQ

LEMMA TimerDiscovers ==
  ASSUME Calm, FetchInv, TimerCallback, NEW p, p = ProcessDiscoveryQ
  PROVE  /\ SyncOK(p.sync) /\ FetchOK(p.sync, p.queue) /\ StatesKept(sync, p.sync)
         /\ StatusOK(p.sync, status) /\ mPriorityQ' = p.queue /\ ProcessUpdateQ(p.sync)
         /\ alive' = alive
  <1>1. mPriorityQ' = p.queue /\ ProcessUpdateQ(p.sync) /\ alive' = alive
    BY DEF TimerCallback, world
  <1>2. mDiscoveryQ # <<>> => Unlocked(sync[Head(mDiscoveryQ)]) /\ status[Head(mDiscoveryQ)] = 0
    <2>1. ASSUME mDiscoveryQ # <<>>
          PROVE  Unlocked(sync[Head(mDiscoveryQ)]) /\ status[Head(mDiscoveryQ)] = 0
      <3>1. PICK f : f = Head(mDiscoveryQ)
        OBVIOUS
      <3>2. f \in Folders
        BY <2>1, <3>1, FetchInvFacts
      <3>3. MayLookAt(f)
        BY <2>1, <3>1 DEF TimerCallback
      <3>4. QED
        BY <3>1, <3>2, <3>3, LookedAt
    <2>2. QED
      BY <2>1
  <1>3. /\ SyncOK(p.sync) /\ FetchOK(p.sync, p.queue)
        /\ \/ p.sync = sync
           \/ mDiscoveryQ # <<>> /\ ActivatesOnly(sync, p.sync, Head(mDiscoveryQ))
    BY <1>2, FetchInvFacts, DiscoveryKeeps
  <1>4. StatesKept(sync, p.sync)
    <2>1. CASE p.sync = sync
      BY <2>1 DEF StatesKept
    <2>2. CASE mDiscoveryQ # <<>> /\ ActivatesOnly(sync, p.sync, Head(mDiscoveryQ))
      BY <1>2, <2>2, ActivatedKept
    <2>3. QED
      BY <1>3, <2>1, <2>2
  <1>5. StatusOK(p.sync, status)
    BY <1>4, FetchInvFacts, StatusKept
  <1>6. QED
    BY <1>1, <1>3, <1>4, <1>5

LEMMA TimerFetch ==
  ASSUME Calm, FetchInv, TimerCallback, NEW s, s = sync', NEW q, q = mPriorityQ'
  PROVE  FetchOK(s, q) /\ StatusOK(s, status') /\ UpdateOK'
  <1>1. PICK p : p = ProcessDiscoveryQ
    OBVIOUS
  <1>2. PICK u : u = p.sync
    OBVIOUS
  <1>3. SyncOK(u) /\ FetchOK(u, q) /\ StatusOK(u, status) /\ ProcessUpdateQ(u)
    BY <1>1, <1>2, TimerDiscovers
  <1>4. QED
    BY <1>3, UpdateQFetch

LEMMA PendingFetch ==
  ASSUME Calm, FetchInv, NEW m \in Messages, OnFolderHasPendingMsgs(Home[m], m),
         NEW s, s = sync', NEW q, q = mPriorityQ'
  PROVE  FetchOK(s, q) /\ StatusOK(s, status') /\ UpdateOK'
  <1>1. PICK f : f = Home[m]
    OBVIOUS
  <1>2. /\ f \in Folders /\ "moves" \in Behaviours /\ f \notin Range(mUpdateQ)
        /\ s = [sync EXCEPT ![f].state = "updateNeeded"] /\ q = mPriorityQ
        /\ UNCHANGED <<mUpdateState, status, listening>>
        /\ mUpdateQ' = <<f>> \o mUpdateQ \/ mUpdateQ' = Append(mUpdateQ, f)
    <2>1. f \in Folders
      BY <1>1, ConstantsAssumption DEF ConstantsAssumption
    <2>2. ~Contains(mUpdateQ, f)
      BY <1>1 DEF OnFolderHasPendingMsgs
    <2>3. f \notin Range(mUpdateQ)
      BY <2>1, <2>2, FetchInvFacts, ContainsIsRange
    <2>4. QED
      BY <1>1, <2>1, <2>3 DEF OnFolderHasPendingMsgs, Event, folderVars
  <1>3. /\ SyncOK(sync) /\ FetchOK(sync, mPriorityQ) /\ StatusOK(sync, status) /\ UpdateOK
        /\ mUpdateQ \in Seq(Folders) /\ status \in [Folders -> Nat]
    BY FetchInvFacts
  <1>4. status[f] = 0
    BY <1>2, <1>3 DEF UpdateOK, Updated
  <1>5. PICK r : r = [sync[f] EXCEPT !.state = "updateNeeded"]
    OBVIOUS
  <1>6. s = [sync EXCEPT ![f] = r]
    BY <1>2, <1>3, <1>5 DEF SyncOK
  <1>7. /\ r.state = "updateNeeded" /\ r.fetches = sync[f].fetches /\ r.locked = sync[f].locked
        /\ FolderOK(f, sync[f], mPriorityQ)
    BY <1>2, <1>3, <1>5 DEF SyncOK, QueueOver, FolderRecord, FetchOK
  <1>8. FolderOK(f, r, mPriorityQ)
    BY <1>2, <1>7 DEF FolderOK, Unlocked, Active, Overwritten
  <1>9. FetchOK(s, mPriorityQ)
    <2>1. /\ r.state # "downloadInProgress"
          /\ \A g \in Folders : g # f => (g \in Range(mPriorityQ) <=> g \in Range(mPriorityQ))
      BY <1>7
    <2>2. f \in Folders /\ SyncOK(sync) /\ FetchOK(sync, mPriorityQ)
      BY <1>2, <1>3
    <2>3. r.state = "downloadInProgress" =>
            sync[f].state = "downloadInProgress" \/ (f \in alive /\ Free(sync, f))
      BY <2>1
    <2>4. \A g \in Folders : g # f => (g \in Range(mPriorityQ) <=> g \in Range(mPriorityQ))
      OBVIOUS
    <2>5. QED
      BY <1>6, <1>8, <2>2, <2>3, <2>4, UpdateOne
  <1>10. StatusOK(s, status)
    <2>1. \A g \in Folders : g # f => s[g] = sync[g]
      BY <1>3, <1>6 DEF SyncOK
    <2>2. QED
      BY <1>3, <1>4, <2>1 DEF StatusOK
  <1>11. Range(mUpdateQ) \subseteq Range(mUpdateQ')
    <2>1. PICK one : one = <<f>>
      OBVIOUS
    <2>2. one \in Seq(Folders)
      BY <1>2, <2>1
    <2>3. /\ Range(one \o mUpdateQ) = Range(one) \cup Range(mUpdateQ)
      BY <1>3, <2>2, ConcatRange
    <2>4. Range(Append(mUpdateQ, f)) = Range(mUpdateQ) \cup {f}
      BY <1>2, <1>3, AppendNew
    <2>5. QED
      BY <1>2, <2>1, <2>3, <2>4
  <1>12. UpdateOK'
    BY <1>2, <1>3, <1>11 DEF UpdateOK, Updated
  <1>13. QED
    BY <1>2, <1>9, <1>10, <1>12

LEMMA SurroundingsFetch ==
  ASSUME Calm, FetchInv, Surroundings, NEW s, s = sync', NEW q, q = mPriorityQ'
  PROVE  /\ FetchOK(s, q) /\ StatusOK(s, status') /\ UpdateOK'
         /\ \A g \in Folders : s[g].fetches # <<>> /\ g \in alive => g \in alive'
         /\ OnlineOK'
  <1>1. ASSUME NEW m \in Messages, OnFolderHasPendingMsgs(Home[m], m)
        PROVE  /\ FetchOK(s, q) /\ StatusOK(s, status') /\ UpdateOK'
               /\ alive' = alive /\ online' = online
    BY <1>1, PendingFetch DEF OnFolderHasPendingMsgs
  <1>2. ASSUME s = sync, q = mPriorityQ, listening' \subseteq listening,
               UNCHANGED <<status, mUpdateState, mUpdateQ>>
        PROVE  FetchOK(s, q) /\ StatusOK(s, status') /\ UpdateOK'
    BY <1>2, FetchInvFacts DEF UpdateOK, Updated
  <1>3. CASE GoOffline
    BY <1>2, <1>3, FetchInvFacts DEF GoOffline, Event, OnlineOK, folderVars
  <1>4. ASSUME NEW m \in Messages, MessageArrives(m) \/ MessageDeleted(m)
        PROVE  /\ s = sync /\ q = mPriorityQ /\ UNCHANGED <<status, listening, mUpdateState, mUpdateQ>>
               /\ alive' = alive /\ online' = online
    BY <1>4 DEF MessageArrives, MessageDeleted, manager, folderVars
  <1>5. ASSUME NEW f \in Folders, UserOpens(f)
        PROVE  /\ s = sync /\ q = mPriorityQ /\ listening' \subseteq listening
               /\ UNCHANGED <<status, mUpdateState, mUpdateQ, alive, online>>
    BY <1>5 DEF UserOpens, UpdateFolder, CannotUpdate, UpdateFolderWithListener, PlayBackFirst, manager
  <1>6. ASSUME NEW f \in Folders, FolderDeleted(f)
        PROVE  /\ s = sync /\ q = mPriorityQ /\ UNCHANGED <<status, listening, mUpdateState, mUpdateQ>>
               /\ alive' = alive \ {f} /\ online' = online /\ sync[f].fetches = <<>>
    BY <1>6 DEF FolderDeleted, manager, folderVars
  <1>7. OnlineOK
    BY FetchInvFacts
  <1>8. CASE \E m \in Messages : MessageArrives(m) \/ MessageDeleted(m)
    BY <1>2, <1>4, <1>7, <1>8 DEF OnlineOK
  <1>9. CASE \E f \in Folders : UserOpens(f)
    BY <1>2, <1>5, <1>7, <1>9 DEF OnlineOK
  <1>10. CASE \E f \in Folders : FolderDeleted(f)
    BY <1>2, <1>6, <1>7, <1>10 DEF OnlineOK
  <1>11. CASE \E m \in Messages : OnFolderHasPendingMsgs(Home[m], m)
    BY <1>1, <1>7, <1>11 DEF OnlineOK
  <1>12. CASE \E f \in Folders : UserCloses(f)
    <2>1. /\ s = sync /\ q = mPriorityQ
          /\ UNCHANGED <<status, listening, mUpdateState, mUpdateQ, alive, online>>
      BY <1>12 DEF UserCloses, manager, folderVars
    <2>2. QED
      BY <1>2, <1>7, <2>1 DEF OnlineOK
  <1>13. QED
    BY <1>3, <1>8, <1>9, <1>10, <1>11, <1>12 DEF Surroundings

LEMMA InitFetch == Init => FetchInv
  <1> SUFFICES ASSUME Init PROVE FetchInv
    OBVIOUS
  <1>1. /\ \A f \in Folders : /\ sync[f].state = "completedIdle" /\ sync[f].fetches = <<>>
                              /\ ~sync[f].locked /\ status[f] = 0
        /\ mPriorityQ = <<>> /\ listening = {}
    BY DEF Init
  <1>2. Range(mPriorityQ) = {}
    BY <1>1 DEF Range
  <1>3. FetchOK(sync, mPriorityQ)
    BY <1>1, <1>2 DEF FetchOK, FolderOK, Unlocked, Active, OnePerServer
  <1>4. StatusOK(sync, status)
    BY <1>1 DEF StatusOK
  <1>5. OnlineOK
    BY DEF Init, OnlineOK
  <1>6. Updated = {}
    BY <1>1 DEF Updated
  <1>7. UpdateOK
    BY <1>1, <1>6 DEF UpdateOK
  <1>8. QED
    BY <1>3, <1>4, <1>5, <1>7, InitTyped DEF FetchInv

LEMMA NextFetch ==
  ASSUME Calm, FetchInv, [Next]_vars
  PROVE  FetchInv'
  <1>1. Typed'
    BY NextTyped DEF FetchInv
  <1>2. PICK s, q : s = sync' /\ q = mPriorityQ'
    OBVIOUS
  <1>3. OnlineOK /\ UpdateOK /\ FetchOK(sync, mPriorityQ) /\ StatusOK(sync, status)
    BY FetchInvFacts
  <1>4. /\ FetchOK(s, q) /\ StatusOK(s, status') /\ UpdateOK'
        /\ \A g \in Folders : s[g].fetches # <<>> /\ g \in alive => g \in alive'
        /\ OnlineOK'
    <2>1. CASE Idle
      <3>1. status' = status /\ alive' = alive /\ online' = online
        BY <2>1 DEF Idle, AppIdle, SystemIdle, folderVars, world
      <3>2. FetchOK(s, q) /\ StatesKept(sync, s) /\ UpdateOK'
        BY <1>2, <2>1, IdleFetch, IdleUpdate
      <3>3. QED
        BY <1>3, <3>1, <3>2, StatusKept DEF OnlineOK
    <2>2. CASE UserBack \/ StartupDone \/ GoOnline \/ UNCHANGED vars
      <3>1. /\ s = sync /\ q = mPriorityQ /\ UNCHANGED <<status, listening, mUpdateState, mUpdateQ, alive>>
            /\ online' \in {TRUE, online}
        BY <1>2, <2>2 DEF UserBack, Back, StartupDone, GoOnline, vars, manager, folderVars, world
      <3>2. QED
        BY <1>3, <3>1 DEF UpdateOK, Updated, OnlineOK
    <2>3. CASE TimerCallback
      <3>1. alive' = alive /\ online' = online
        BY <2>3 DEF TimerCallback, world
      <3>2. QED
        BY <1>2, <1>3, <2>3, <3>1, TimerFetch DEF OnlineOK
    <2>4. ASSUME NEW f \in Folders, UrlProgress(f)
          PROVE  /\ FetchOK(s, q) /\ StatusOK(s, status') /\ UpdateOK'
                 /\ alive' = alive /\ online' = online
      <3>1. alive' = alive /\ online' = online
        BY <2>4 DEF UrlProgress, HeaderFetchCompleted, SelectStops, HeaderParsed, BodyStored,
                    StatusStops, DownloadStops, world
      <3>2. CASE HeaderFetchCompleted(f)
        <4>1. UNCHANGED <<status, listening, mUpdateState, mUpdateQ>>
          BY <3>2 DEF HeaderFetchCompleted
        <4>2. FetchOK(s, q) /\ StatesKept(sync, s)
          BY <1>2, <3>2, HeaderFetch
        <4>3. QED
          BY <1>3, <3>1, <4>1, <4>2, StatusKept DEF UpdateOK, Updated
      <3>3. CASE SelectStops(f)
        <4>1. status' = status
          BY <3>3 DEF SelectStops
        <4>2. FetchOK(s, q) /\ StatesKept(sync, s) /\ UpdateOK'
          BY <1>2, <3>3, SelectStopsFetch, SelectStopsUpdate
        <4>3. QED
          BY <1>3, <3>1, <4>1, <4>2, StatusKept
      <3>4. CASE \E m \in MessagesOf(f) : HeaderParsed(m) \/ BodyStored(f, m)
        <4>1. s = sync /\ q = mPriorityQ /\ UNCHANGED <<status, listening, mUpdateState, mUpdateQ>>
          BY <1>2, <3>4 DEF HeaderParsed, BodyStored, manager, folderVars
        <4>2. QED
          BY <1>3, <3>1, <4>1 DEF UpdateOK, Updated
      <3>5. CASE \E ok, changed \in BOOLEAN : StatusStops(f, ok, changed)
        BY <1>2, <3>1, <3>5, StatusStopsFetch
      <3>6. CASE \E ok \in BOOLEAN : DownloadStops(f, ok)
        <4>1. status' = status
          BY <3>6, DownloadStopped
        <4>2. FetchOK(s, q) /\ StatesKept(sync, s) /\ UpdateOK'
          BY <1>2, <3>6, DownloadStopsFetch
        <4>3. QED
          BY <1>3, <3>1, <4>1, <4>2, StatusKept
      <3>7. QED
        BY <2>4, <3>2, <3>3, <3>4, <3>5, <3>6 DEF UrlProgress
    <2>5. CASE Surroundings
      BY <1>2, <2>5, SurroundingsFetch
    <2>6. QED
      BY <1>3, <2>1, <2>2, <2>3, <2>4, <2>5 DEF Next, OnlineOK
  <1>5. FetchOK(sync, mPriorityQ)'
    <2>1. \A g \in Folders : FolderOK(g, sync[g], mPriorityQ)'
      BY <1>2, <1>4 DEF FetchOK, FolderOK, Unlocked, Overwritten, Active
    <2>2. OnePerServer(sync)'
      BY <1>2, <1>4 DEF FetchOK, OnePerServer
    <2>3. QED
      BY <2>1, <2>2 DEF FetchOK
  <1>6. StatusOK(sync, status)'
    BY <1>2, <1>4 DEF StatusOK
  <1>7. QED
    BY <1>1, <1>4, <1>5, <1>6 DEF FetchInv
------------------------------------------------------------------------------
\* What the invariant says of one folder.
LEMMA FolderFacts ==
  ASSUME Calm, FetchInv, NEW f \in Folders
  PROVE  /\ sync[f].fetches = <<>> \/ Len(sync[f].fetches) = 1
         /\ sync[f].fetches # <<>> =>
              sync[f].state \in {"downloadInProgress"} \cup Overwritten
         /\ sync[f].state = "downloadInProgress" => sync[f].fetches # <<>>
         /\ "offline" \notin Behaviours /\ sync[f].locked => sync[f].fetches # <<>>
         /\ sync[f].state \in Active => f \in Range(mPriorityQ)
  <1>1. FolderOK(f, sync[f], mPriorityQ)
    BY FetchInvFacts DEF FetchOK
  <1>2. QED
    BY <1>1 DEF FolderOK, Unlocked

\* In the chained model one group at a time is fetched from a server, whatever
\* idle notices, retries, discovery and header updates do between two fetches.
THEOREM OneGroupAtATime ==
  ASSUME "overlap" \notin Behaviours, Chained => "moves" \notin Behaviours
  PROVE  Spec => []OneGroupPerServer
  <1>1. Calm
    BY DEF Calm
  <1>2. FetchInv => OneGroupPerServer
    <2> SUFFICES ASSUME FetchInv, Chained, NEW f \in Folders, NEW g \in Folders
                 PROVE  /\ Len(sync[f].fetches) <= 1
                        /\ f # g /\ ServerOf[f] = ServerOf[g]
                             => sync[f].fetches = <<>> \/ sync[g].fetches = <<>>
      BY DEF OneGroupPerServer
    <2>1. Overwritten = {}
      BY DEF Overwritten
    <2>2. Len(sync[f].fetches) <= 1
      <3>1. CASE Len(sync[f].fetches) = 1
        BY <3>1
      <3>2. CASE sync[f].fetches = <<>>
        <4>1. PICK n : n = Len(sync[f].fetches)
          OBVIOUS
        <4>2. n = 0
          BY <3>2, <4>1
        <4>3. QED
          BY <4>1, <4>2
      <3>3. QED
        BY <1>1, <3>1, <3>2, FolderFacts
    <2>3. \A h \in Folders : sync[h].fetches # <<>> => sync[h].state = "downloadInProgress"
      BY <1>1, <2>1, FolderFacts
    <2>4. OnePerServer(sync)
      BY FetchInvFacts DEF FetchOK
    <2>5. QED
      BY <2>2, <2>3, <2>4 DEF OnePerServer
  <1>3. FetchInv /\ [Next]_vars => FetchInv'
    BY <1>1, NextFetch
  <1>4. QED
    BY <1>2, <1>3, InitFetch, PTL DEF Spec

\* One folder at a time is checked for new messages and updated, though three
\* callbacks end what a fourth one began.
THEOREM UpdatesDoNotOverlap ==
  ASSUME "overlap" \notin Behaviours, Chained => "moves" \notin Behaviours
  PROVE  Spec => []OneUpdateAtATime
  <1>1. Calm
    BY DEF Calm
  <1>2. FetchInv => OneUpdateAtATime
    <2> SUFFICES ASSUME FetchInv PROVE Cardinality(Updated) <= 1
      BY DEF OneUpdateAtATime, Updated
    <2>1. \A f, g \in Updated : f = g
      BY FetchInvFacts DEF UpdateOK
    <2>2. CASE Updated = {}
      BY <2>2, FS_EmptySet
    <2>3. CASE Updated # {}
      <3>1. PICK f : Updated = {f}
        BY <2>1, <2>3
      <3>2. Cardinality({f}) = 1
        BY FS_Singleton
      <3>3. QED
        BY <3>1, <3>2
    <2>4. QED
      BY <2>2, <2>3
  <1>3. FetchInv /\ [Next]_vars => FetchInv'
    BY <1>1, NextFetch
  <1>4. QED
    BY <1>2, <1>3, InitFetch, PTL DEF Spec

\* A folder that waits for bodies or gets them is in the priority queue, where
\* the end of its fetch and the next idle notice look for it.
THEOREM ActiveInPriorityQ ==
  ASSUME "overlap" \notin Behaviours, Chained => "moves" \notin Behaviours
  PROVE  Spec => []ReadyIsScheduled
  <1>1. Calm
    BY DEF Calm
  <1>2. FetchInv => ReadyIsScheduled
    <2> SUFFICES ASSUME FetchInv, NEW f \in alive, sync[f].state \in Active
                 PROVE  Contains(mPriorityQ, f)
      BY DEF ReadyIsScheduled, Active
    <2>1. f \in Folders /\ mPriorityQ \in Seq(Folders)
      BY FetchInvFacts
    <2>2. f \in Range(mPriorityQ)
      BY <1>1, <2>1, FolderFacts
    <2>3. QED
      BY <2>1, <2>2, ContainsIsRange
  <1>3. FetchInv /\ [Next]_vars => FetchInv'
    BY <1>1, NextFetch
  <1>4. QED
    BY <1>2, <1>3, InitFetch, PTL DEF Spec

\* The state of a folder tells whether it fetches: what the queue operations
\* look at is what runs.  Moves overwrite that state, in either model.
THEOREM StateTellsFetch ==
  ASSUME "overlap" \notin Behaviours, "moves" \notin Behaviours
  PROVE  Spec => []BusyIsFetching
  <1>1. Calm /\ Overwritten = {}
    BY DEF Calm, Overwritten
  <1>2. FetchInv => BusyIsFetching
    BY <1>1, FolderFacts DEF BusyIsFetching
  <1>3. FetchInv /\ [Next]_vars => FetchInv'
    BY <1>1, NextFetch
  <1>4. QED
    BY <1>2, <1>3, InitFetch, PTL DEF Spec

\* The semaphore of a folder is held only while it fetches: no path through a
\* refused or empty group keeps it.  (A client that is offline does.)
THEOREM SemaphoreGivenBack ==
  ASSUME "overlap" \notin Behaviours, Chained => "moves" \notin Behaviours,
         "offline" \notin Behaviours
  PROVE  Spec => []LockedOnlyWhileFetching
  <1>1. Calm
    BY DEF Calm
  <1>2. FetchInv => LockedOnlyWhileFetching
    BY <1>1, FolderFacts DEF LockedOnlyWhileFetching
  <1>3. FetchInv /\ [Next]_vars => FetchInv'
    BY <1>1, NextFetch
  <1>4. QED
    BY <1>2, <1>3, InitFetch, PTL DEF Spec
------------------------------------------------------------------------------
(***************************************************************************)
(* Folders that messages were moved into.  UpdateEnded drops whatever is   *)
(* at the front of the update queue, so that the invariant has to say who  *)
(* is there while an update runs: a folder that does not wait for one.     *)
(***************************************************************************)
PendingOK(s, q, live, updating) ==
  /\ \A f \in live : s[f].state = "updateNeeded" => f \in Range(q)
  /\ updating = "initiated" => q # <<>> /\ s[Head(q)].state # "updateNeeded"

PendingInv == FetchInv /\ PendingOK(sync, mUpdateQ, alive, mUpdateState)

\* No folder of t waits for an update that does not in s.
NoneWaits(s, t) ==
  \A g \in Folders : t[g].state = "updateNeeded" => s[g].state = "updateNeeded"

LEMMA KeptNoneWaits ==
  ASSUME NEW s, NEW t, StatesKept(s, t)
  PROVE  NoneWaits(s, t)
  BY DEF StatesKept, NoneWaits

LEMMA QueueGrows ==
  ASSUME NEW q \in Seq(Folders), NEW u \in Seq(Folders), q # <<>>, NEW t, t = q \o u
  PROVE  t # <<>> /\ Head(t) = Head(q) /\ Range(q) \subseteq Range(t)
  <1>1. /\ t \in Seq(Folders) /\ Len(t) = Len(q) + Len(u)
        /\ \A i \in 1..(Len(q) + Len(u)) : t[i] = IF i <= Len(q) THEN q[i] ELSE u[i - Len(q)]
    BY ConcatProperties
  <1>2. Len(q) \in Nat \ {0} /\ Len(u) \in Nat
    BY EmptySeq, LenProperties
  <1>3. Len(t) # 0 /\ t[1] = q[1]
    BY <1>1, <1>2
  <1>4. t # <<>>
    BY <1>1, <1>3, EmptySeq
  <1>5. Head(t) = t[1] /\ Head(q) = q[1]
    BY <1>1, <1>4, HeadTailProperties
  <1>6. Range(q) \subseteq Range(t)
    BY ConcatRange
  <1>7. QED
    BY <1>3, <1>4, <1>5, <1>6

\* The queue only grows behind its head.
LEMMA PendingKept ==
  ASSUME NEW s, NEW t, NoneWaits(s, t), NEW q \in Seq(Folders), NEW u, NEW live, NEW live1,
         live1 \subseteq live, live \subseteq Folders, NEW updating, PendingOK(s, q, live, updating),
         Range(q) \subseteq Range(u), q # <<>> => u # <<>> /\ Head(u) = Head(q)
  PROVE  PendingOK(t, u, live1, updating)
  <1>1. q # <<>> => Head(q) \in Folders
    BY HeadAndTail
  <1>2. QED
    BY <1>1 DEF PendingOK, NoneWaits

\* The front of the queue is dropped, and it does not wait.
LEMMA PendingDropped ==
  ASSUME NEW s, NEW q \in Seq(Folders), NEW live, NEW updating, NEW u, u = TailOf(q),
         \A f \in live : s[f].state = "updateNeeded" => f \in Range(q),
         q # <<>> => Head(q) \notin live \/ s[Head(q)].state # "updateNeeded",
         updating # "initiated"
  PROVE  PendingOK(s, u, live, updating)
  <1>1. CASE q = <<>>
    BY <1>1 DEF PendingOK, TailOf
  <1>2. CASE q # <<>>
    <2>1. Range(q) \subseteq Range(u) \cup {Head(q)}
      BY <1>2, TailFolders
    <2>2. QED
      BY <1>2, <2>1 DEF PendingOK
  <1>3. QED
    BY <1>1, <1>2

LEMMA PendingFacts ==
  ASSUME PendingInv
  PROVE  /\ FetchInv /\ PendingOK(sync, mUpdateQ, alive, mUpdateState)
         /\ mUpdateQ \in Seq(Folders) /\ alive \subseteq Folders
  BY FetchInvFacts DEF PendingInv

\* The update that ended was one: the manager was waiting for it.
LEMMA PendingEnded ==
  ASSUME PendingInv, UpdateEnded, mUpdateState # "completed", NEW t, NoneWaits(sync, t)
  PROVE  PendingOK(t, mUpdateQ', alive, mUpdateState')
  <1>1. PICK u : u = TailOf(mUpdateQ)
    OBVIOUS
  <1>2. mUpdateQ' = u /\ mUpdateState' = "completed" /\ mUpdateState = "initiated"
    BY <1>1, FetchInvFacts DEF UpdateEnded, PendingInv
  <1>3. PICK updating : updating = "completed"
    OBVIOUS
  <1>4. Head(mUpdateQ) \in Folders /\ mUpdateQ # <<>>
    BY <1>2, PendingFacts, HeadAndTail DEF PendingOK
  <1>5. PendingOK(t, u, alive, updating)
    <2>1. \A f \in alive : t[f].state = "updateNeeded" => f \in Range(mUpdateQ)
      BY PendingFacts DEF PendingOK, NoneWaits
    <2>2. t[Head(mUpdateQ)].state # "updateNeeded"
      BY <1>2, <1>4, PendingFacts DEF PendingOK, NoneWaits
    <2>3. QED
      BY <1>1, <1>3, <2>1, <2>2, PendingFacts, PendingDropped
  <1>6. QED
    BY <1>2, <1>3, <1>5

LEMMA IdlePending ==
  ASSUME Calm, PendingInv, Idle, NEW s, s = sync'
  PROVE  PendingOK(s, mUpdateQ', alive, mUpdateState')
  <1>1. PICK q : q = mPriorityQ'
    OBVIOUS
  <1>2. NoneWaits(sync, s)
    BY <1>1, PendingFacts, IdleFetch, KeptNoneWaits
  <1>3. mUpdateState' = mUpdateState
    BY DEF Idle, AppIdle, SystemIdle
  <1>4. PICK u : u = mUpdateQ'
    OBVIOUS
  <1>5. mUpdateQ' = mUpdateQ \/ AutoUpdateFolders
    BY DEF Idle, AppIdle, SystemIdle, StartIdleProcessing, ProcessPriorityQ
  <1>6. Range(mUpdateQ) \subseteq Range(u) /\ (mUpdateQ # <<>> => u # <<>> /\ Head(u) = Head(mUpdateQ))
    <2>1. CASE AutoUpdateFolders
      <3>1. PICK X : mUpdateQ' = mUpdateQ \o Without(FolderOrder, X)
        BY <2>1 DEF AutoUpdateFolders
      <3>2. PICK v : v = Without(FolderOrder, X)
        OBVIOUS
      <3>3. v \in Seq(Folders)
        <4>1. FolderOrder \in Seq(Folders)
          BY ConstantsAssumption DEF ConstantsAssumption
        <4>2. QED
          BY <3>2, <4>1, WithoutFolders
      <3>4. u = mUpdateQ \o v
        BY <1>4, <3>1, <3>2
      <3>5. CASE mUpdateQ # <<>>
        BY <3>3, <3>4, <3>5, PendingFacts, QueueGrows
      <3>6. CASE mUpdateQ = <<>>
        BY <3>6 DEF Range
      <3>7. QED
        BY <3>5, <3>6
    <2>2. QED
      BY <1>4, <1>5, <2>1
  <1>7. PendingOK(s, u, alive, mUpdateState)
    BY <1>2, <1>6, PendingFacts, PendingKept
  <1>8. QED
    BY <1>3, <1>4, <1>7

LEMMA UpdateQPending ==
  ASSUME "refused" \notin Behaviours, PendingInv, NEW s, SyncOK(s), NEW q, FetchOK(s, q), StatusOK(s, status),
         NoneWaits(sync, s), ProcessUpdateQ(s), NEW t, t = sync'
  PROVE  PendingOK(t, mUpdateQ', alive, mUpdateState')
  <1>1. PendingOK(s, mUpdateQ, alive, mUpdateState)
    BY PendingFacts, PendingKept
  <1>2. CASE t = s /\ UNCHANGED <<mUpdateQ, mUpdateState>>
    BY <1>1, <1>2
  <1>3. PICK u : u = TailOf(mUpdateQ)
    OBVIOUS
  <1>4. CASE /\ mUpdateQ # <<>> /\ mUpdateState = "completed" /\ InitiateAutoSync(s, Head(mUpdateQ))
    <2>1. PICK f : f = Head(mUpdateQ)
      OBVIOUS
    <2>2. f \in Folders
      BY <1>4, <2>1, PendingFacts, HeadAndTail
    <2>3. t[f].state # "updateNeeded" /\ \A g \in Folders : g # f => t[g] = s[g]
      BY <1>4, <2>1, <2>2, PendingFacts, InitiateFetch
    <2>4. \A g \in alive : t[g].state = "updateNeeded" => g \in Range(mUpdateQ)
      BY <1>1, <2>3, PendingFacts DEF PendingOK
    <2>5. CASE mUpdateQ' = mUpdateQ
      BY <1>4, <2>1, <2>3, <2>4, <2>5 DEF PendingOK
    <2>6. CASE mUpdateQ' = Tail(mUpdateQ) /\ mUpdateState' = mUpdateState
      <3>1. mUpdateQ' = u /\ mUpdateState' = "completed"
        BY <1>3, <1>4, <2>6 DEF TailOf
      <3>2. PICK updating : updating = "completed"
        OBVIOUS
      <3>3. PendingOK(t, u, alive, updating)
        BY <1>3, <2>1, <2>3, <2>4, <3>2, PendingFacts, PendingDropped
      <3>4. QED
        BY <3>1, <3>2, <3>3
    <2>7. QED
      BY <1>4, <2>1, <2>5, <2>6 DEF InitiateAutoSync, CannotUpdate
  <1>5. CASE /\ mUpdateQ # <<>> /\ mUpdateState = "completed" /\ t = s
             /\ mUpdateQ' = Tail(mUpdateQ) /\ mUpdateState' = mUpdateState
             /\ Head(mUpdateQ) \notin alive \/ s[Head(mUpdateQ)].state # "updateNeeded"
    <2>1. mUpdateQ' = u /\ mUpdateState' = "completed"
      BY <1>3, <1>5 DEF TailOf
    <2>2. PICK updating : updating = "completed"
      OBVIOUS
    <2>3. \A f \in alive : s[f].state = "updateNeeded" => f \in Range(mUpdateQ)
      BY <1>1 DEF PendingOK
    <2>4. PendingOK(s, u, alive, updating)
      BY <1>3, <1>5, <2>2, <2>3, PendingFacts, PendingDropped
    <2>5. QED
      BY <1>5, <2>1, <2>2, <2>4
  <1>6. QED
    BY <1>2, <1>4, <1>5 DEF ProcessUpdateQ

LEMMA TimerPending ==
  ASSUME "refused" \notin Behaviours, Calm, PendingInv, TimerCallback, NEW s, s = sync'
  PROVE  PendingOK(s, mUpdateQ', alive, mUpdateState')
  <1>1. PICK p : p = ProcessDiscoveryQ
    OBVIOUS
  <1>2. PICK u, q : u = p.sync /\ q = p.queue
    OBVIOUS
  <1>3. SyncOK(u) /\ FetchOK(u, q) /\ StatusOK(u, status) /\ StatesKept(sync, u) /\ ProcessUpdateQ(u)
    BY <1>1, <1>2, PendingFacts, TimerDiscovers
  <1>4. NoneWaits(sync, u)
    BY <1>3, KeptNoneWaits
  <1>5. QED
    BY <1>3, <1>4, UpdateQPending

LEMMA UrlPending ==
  ASSUME Calm, PendingInv, NEW f \in Folders, UrlProgress(f), NEW s, s = sync'
  PROVE  PendingOK(s, mUpdateQ', alive, mUpdateState')
  <1>1. PICK q : q = mPriorityQ'
    OBVIOUS
  <1>2. ASSUME NoneWaits(sync, s), UNCHANGED <<mUpdateQ, mUpdateState>>
        PROVE  PendingOK(s, mUpdateQ', alive, mUpdateState')
    <2>1. PendingOK(s, mUpdateQ, alive, mUpdateState)
      BY <1>2, PendingFacts, PendingKept
    <2>2. QED
      BY <1>2, <2>1
  <1>3. CASE HeaderFetchCompleted(f)
    <2>1. NoneWaits(sync, s)
      BY <1>1, <1>3, PendingFacts, HeaderFetch, KeptNoneWaits
    <2>2. QED
      BY <1>2, <1>3, <2>1 DEF HeaderFetchCompleted
  <1>4. CASE SelectStops(f)
    <2>1. NoneWaits(sync, s)
      BY <1>1, <1>4, PendingFacts, SelectStopsFetch, KeptNoneWaits
    <2>2. CASE f \in listening
      <3>1. UpdateEnded /\ mUpdateState # "completed"
        BY <1>4, <2>2, PendingFacts, FetchInvFacts DEF SelectStops, UpdateOK, Updated
      <3>2. QED
        BY <2>1, <3>1, PendingEnded
    <2>3. CASE f \notin listening
      BY <1>2, <1>4, <2>1, <2>3 DEF SelectStops
    <2>4. QED
      BY <2>2, <2>3
  <1>5. CASE \E m \in MessagesOf(f) : HeaderParsed(m) \/ BodyStored(f, m)
    BY <1>2, <1>5 DEF HeaderParsed, BodyStored, manager, NoneWaits
  <1>6. ASSUME NEW ok, NEW changed, StatusStops(f, ok, changed)
        PROVE  PendingOK(s, mUpdateQ', alive, mUpdateState')
    <2>1. NoneWaits(sync, s)
      BY <1>1, <1>6, PendingFacts, StatusStopsFetch DEF NoneWaits
    <2>2. f \in Updated
      BY <1>6 DEF StatusStops, Updated
    <2>3. mUpdateState # "completed" /\ sync[f].state = "statusIssued"
      BY <1>6, <2>2, PendingFacts, FetchInvFacts DEF UpdateOK, StatusOK, StatusStops
    <2>4. UpdateEnded \/ UNCHANGED <<mUpdateQ, mUpdateState>>
      BY <1>6, <2>3 DEF StatusStops, OnStopRunningUrl
    <2>5. QED
      BY <1>2, <2>1, <2>3, <2>4, PendingEnded
  <1>7. ASSUME NEW ok, DownloadStops(f, ok)
        PROVE  PendingOK(s, mUpdateQ', alive, mUpdateState')
    <2>1. NoneWaits(sync, s)
      BY <1>1, <1>7, PendingFacts, DownloadStopsFetch, KeptNoneWaits
    <2>2. UNCHANGED <<mUpdateQ, mUpdateState>>
      BY <1>7, PendingFacts, DownloadStopped
    <2>3. QED
      BY <1>2, <2>1, <2>2
  <1>8. QED
    BY <1>3, <1>4, <1>5, <1>6, <1>7 DEF UrlProgress

\* A folder that messages are moved into goes to the end of the queue.
LEMMA MovePending ==
  ASSUME PendingInv, NEW m \in Messages, Kind[Home[m]] # "sent", OnFolderHasPendingMsgs(Home[m], m),
         NEW s, s = sync'
  PROVE  PendingOK(s, mUpdateQ', alive, mUpdateState')
  <1>1. PICK f : f = Home[m]
    OBVIOUS
  <1>2. /\ f \in Folders /\ mUpdateQ \in Seq(Folders) /\ ~Contains(mUpdateQ, f)
        /\ s = [sync EXCEPT ![f].state = "updateNeeded"] /\ mUpdateState' = mUpdateState
        /\ mUpdateQ' = Append(mUpdateQ, f)
    BY <1>1, PendingFacts, ConstantsAssumption DEF OnFolderHasPendingMsgs, ConstantsAssumption
  <1>3. f \notin Range(mUpdateQ)
    BY <1>2, ContainsIsRange
  <1>4. \A g \in Folders : g # f => s[g] = sync[g]
    BY <1>2, PendingFacts, FetchInvFacts DEF SyncOK
  <1>5. PICK u : u = Append(mUpdateQ, f)
    OBVIOUS
  <1>6. Range(u) = Range(mUpdateQ) \cup {f}
    BY <1>2, <1>5, AppendNew
  <1>7. \A g \in alive : s[g].state = "updateNeeded" => g \in Range(u)
    BY <1>4, <1>6, PendingFacts DEF PendingOK
  <1>8. ASSUME mUpdateState = "initiated"
        PROVE  u # <<>> /\ s[Head(u)].state # "updateNeeded"
    <2>1. mUpdateQ # <<>> /\ sync[Head(mUpdateQ)].state # "updateNeeded"
      BY <1>8, PendingFacts DEF PendingOK
    <2>2. u # <<>> /\ Head(u) = Head(mUpdateQ)
      BY <1>2, <1>5, <2>1
    <2>3. Head(mUpdateQ) \in Range(mUpdateQ) /\ Head(mUpdateQ) \in Folders
      BY <1>2, <2>1, TailFolders, HeadAndTail
    <2>4. QED
      BY <1>3, <1>4, <2>1, <2>2, <2>3
  <1>9. QED
    BY <1>2, <1>5, <1>7, <1>8 DEF PendingOK

LEMMA NextPending ==
  ASSUME Calm, "refused" \notin Behaviours, \A f \in Folders : Kind[f] # "sent",
         PendingInv, [Next]_vars
  PROVE  PendingInv'
  <1>1. FetchInv'
    BY PendingFacts, NextFetch
  <1>2. PICK s : s = sync'
    OBVIOUS
  <1>3. alive' \subseteq alive
    <2>1. CASE \E f \in Folders : FolderDeleted(f)
      BY <2>1 DEF FolderDeleted
    <2>2. CASE Idle \/ UserBack \/ StartupDone \/ GoOnline \/ TimerCallback \/ UNCHANGED vars
      BY <2>2 DEF Idle, AppIdle, SystemIdle, UserBack, Back, StartupDone, GoOnline, TimerCallback,
                  vars, world
    <2>3. CASE \E f \in Folders : UrlProgress(f)
      BY <2>3 DEF UrlProgress, HeaderFetchCompleted, SelectStops, HeaderParsed, BodyStored,
                  StatusStops, DownloadStops, world
    <2>4. CASE \/ GoOffline
               \/ \E m \in Messages : MessageArrives(m) \/ MessageDeleted(m)
               \/ \E f \in Folders : UserOpens(f) \/ UserCloses(f)
               \/ \E m \in Messages : OnFolderHasPendingMsgs(Home[m], m)
      BY <2>4 DEF GoOffline, MessageArrives, MessageDeleted, UserOpens, UserCloses,
                  OnFolderHasPendingMsgs
    <2>5. QED
      BY <2>1, <2>2, <2>3, <2>4 DEF Next, Surroundings
  <1>4. PendingOK(s, mUpdateQ', alive, mUpdateState')
    <2>1. CASE Idle
      BY <1>2, <2>1, IdlePending
    <2>2. CASE UserBack \/ StartupDone \/ GoOnline \/ UNCHANGED vars
      <3>1. s = sync /\ UNCHANGED <<mUpdateQ, mUpdateState>>
        BY <1>2, <2>2 DEF UserBack, Back, StartupDone, GoOnline, vars, manager
      <3>2. QED
        BY <3>1, PendingFacts
    <2>3. CASE TimerCallback
      BY <1>2, <2>3, TimerPending
    <2>4. CASE \E f \in Folders : UrlProgress(f)
      BY <1>2, <2>4, UrlPending
    <2>5. CASE \E m \in Messages : OnFolderHasPendingMsgs(Home[m], m)
      <3>1. \A m \in Messages : Kind[Home[m]] # "sent"
        BY ConstantsAssumption DEF ConstantsAssumption
      <3>2. QED
        BY <1>2, <2>5, <3>1, MovePending
    <2>6. CASE \/ GoOffline
               \/ \E m \in Messages : MessageArrives(m) \/ MessageDeleted(m)
               \/ \E f \in Folders : UserOpens(f) \/ UserCloses(f) \/ FolderDeleted(f)
      <3>1. s = sync /\ UNCHANGED <<mUpdateQ, mUpdateState>>
        BY <1>2, <2>6 DEF GoOffline, MessageArrives, MessageDeleted, UserOpens, UserCloses,
                          FolderDeleted, manager
      <3>2. QED
        BY <3>1, PendingFacts
    <2>7. QED
      BY <2>1, <2>2, <2>3, <2>4, <2>5, <2>6 DEF Next, Surroundings
  <1>5. PendingOK(sync, mUpdateQ, alive, mUpdateState)'
    BY <1>2, <1>3, <1>4 DEF PendingOK
  <1>6. QED
    BY <1>1, <1>5 DEF PendingInv

\* A folder that waits for an update because messages were moved into it is in
\* the update queue, whatever ends and begins in between.  A folder for sent
\* mail jumps to the front of that queue, where the end of the update that runs
\* drops it, and a folder whose update fails before it runs drops out; otherwise
\* it holds.
THEOREM PendingFolderWaitsInQueue ==
  ASSUME "overlap" \notin Behaviours, Chained => "moves" \notin Behaviours,
         "refused" \notin Behaviours,
         \A f \in Folders : Kind[f] # "sent"
  PROVE  Spec => []PendingFolderQueued
  <1>1. Calm
    BY DEF Calm
  <1>2. Init => PendingInv
    <2>1. Init => PendingOK(sync, mUpdateQ, alive, mUpdateState)
      BY DEF Init, PendingOK
    <2>2. QED
      BY <2>1, InitFetch DEF PendingInv
  <1>3. PendingInv => PendingFolderQueued
    BY PendingFacts, ContainsIsRange DEF PendingFolderQueued, PendingOK
  <1>4. PendingInv /\ [Next]_vars => PendingInv'
    BY <1>1, NextPending
  <1>5. QED
    BY <1>2, <1>3, <1>4, PTL DEF Spec
------------------------------------------------------------------------------
(***************************************************************************)
(* What TotalSize computes.  It is a fold over a set, defined by recursion *)
(* on sets; what holds of it for every set is shown by a smallest          *)
(* counterexample.                                                         *)
(***************************************************************************)
\* The element of s that a sum takes first, and what f makes of s then.
First(s) == CHOOSE x \in s : TRUE
NextSum(s, f) == IF s = {} THEN 0 ELSE Size[First(s)] + f[s \ {First(s)}]

\* f computes the sizes of the subsets of S, and of those of up to n elements.
Sums(S, f) == f = [s \in SUBSET S |-> NextSum(s, f)]
UpToSize(S, n) == {s \in SUBSET S : Cardinality(s) <= n}
SumsUpTo(S, n, f) == f = [s \in UpToSize(S, n) |-> NextSum(s, f)]

\* The fold of the community modules, taken apart.
LEMMA TotalSizeUnfolds ==
  ASSUME NEW S
  PROVE  TotalSize(S) = (CHOOSE f : Sums(S, f))[S]
  BY DEF TotalSize, MapThenSumSet, MapThenFoldSet, Sums, NextSum, First

\* There is such a function, the sets taken by their number of elements.
LEMMA SumsExist ==
  ASSUME NEW S, IsFiniteSet(S)
  PROVE  \E f : Sums(S, f)
  <1> DEFINE c == Cardinality(S)
             bad == {n \in 0..c : ~\E f : SumsUpTo(S, n, f)}
  <1>1. c \in Nat /\ \A s \in SUBSET S : IsFiniteSet(s) /\ Cardinality(s) \in 0..c
    BY FS_CardinalityType, FS_Subset
  <1>2. ASSUME bad # {} PROVE FALSE
    <2>1. PICK n \in bad : \A k \in bad : n <= k
      <3>1. IsFiniteSet(0..c) /\ bad \in SUBSET (0..c)
        BY <1>1, FS_Interval
      <3>2. IsFiniteSet(bad) /\ bad \subseteq Int
        BY <1>1, <3>1, FS_Subset
      <3> HIDE DEF bad
      <3>3. QED
        BY <1>2, <3>2, Extremes
    <2>2. n \in 0..c /\ ~\E f : SumsUpTo(S, n, f)
      BY <2>1
    <2>3. PICK g : n > 0 => SumsUpTo(S, n - 1, g)
      <3>1. CASE n > 0
        <4>1. n - 1 \in 0..c /\ ~(n <= n - 1)
          BY <1>1, <2>2, <3>1
        <4>2. n - 1 \notin bad
          BY <2>1, <4>1
        <4>3. QED
          BY <4>1, <4>2
      <3>2. QED
        BY <3>1
    <2>4. PICK f : f = [s \in UpToSize(S, n) |-> NextSum(s, g)]
      OBVIOUS
    <2>5. ASSUME NEW s \in UpToSize(S, n), s # {}
          PROVE  /\ n > 0 /\ s \ {First(s)} \in UpToSize(S, n - 1)
                 /\ s \ {First(s)} \in UpToSize(S, n)
      <3>1. First(s) \in s
        BY <2>5 DEF First
      <3>2. IsFiniteSet(s) /\ Cardinality(s) \in Nat /\ Cardinality(s) # 0 /\ Cardinality(s) <= n
        BY <1>1, <2>5, FS_CardinalityType, FS_EmptySet DEF UpToSize
      <3>3. Cardinality(s \ {First(s)}) = Cardinality(s) - 1
        BY <3>1, <3>2, FS_RemoveElement
      <3>4. s \ {First(s)} \in SUBSET S
        BY DEF UpToSize
      <3>5. QED
        BY <1>1, <2>2, <3>2, <3>3, <3>4 DEF UpToSize
    <2>6. ASSUME NEW s \in UpToSize(S, n), n > 0, s \in UpToSize(S, n - 1)
          PROVE  f[s] = g[s]
      BY <2>3, <2>4, <2>6 DEF SumsUpTo
    <2>7. ASSUME NEW s \in UpToSize(S, n) PROVE NextSum(s, g) = NextSum(s, f)
      <3>1. CASE s = {}
        BY <3>1 DEF NextSum
      <3>2. CASE s # {}
        BY <2>5, <2>6, <3>2 DEF NextSum
      <3>3. QED
        BY <3>1, <3>2
    <2>8. f = [s \in UpToSize(S, n) |-> NextSum(s, f)]
      BY <2>4, <2>7
    <2>9. QED
      BY <2>2, <2>8 DEF SumsUpTo
  <1>3. PICK f : SumsUpTo(S, c, f)
    BY <1>1, <1>2
  <1>4. UpToSize(S, c) = SUBSET S
    BY <1>1 DEF UpToSize
  <1>5. QED
    BY <1>3, <1>4 DEF SumsUpTo, Sums

\* The sums of a set and of one of its subsets agree.
LEMMA SumsAgree ==
  ASSUME NEW S, IsFiniteSet(S), NEW f, Sums(S, f), NEW U \in SUBSET S, NEW g, Sums(U, g)
  PROVE  f[U] = g[U]
  <1> DEFINE bad == {T \in SUBSET U : f[T] # g[T]}
  <1>1. ASSUME bad # {} PROVE FALSE
    <2>1. IsFiniteSet(U) /\ bad \in SUBSET (SUBSET U)
      BY FS_Subset
    <2>2. PICK T \in bad : \A x \in T : T \ {x} \notin bad
      <3> HIDE DEF bad
      <3>1. QED
        BY <1>1, <2>1, SmallestSubset
    <2>3. T \in SUBSET U /\ T \in SUBSET S /\ f[T] # g[T]
      BY <2>2
    <2>4. f[T] = NextSum(T, f) /\ g[T] = NextSum(T, g)
      BY <2>3 DEF Sums
    <2>5. T # {} => /\ f[T \ {First(T)}] = g[T \ {First(T)}]
      <3>1. T # {} => First(T) \in T
        BY DEF First
      <3>2. QED
        BY <2>2, <2>3, <3>1
    <2>6. QED
      BY <2>3, <2>4, <2>5 DEF NextSum
  <1>2. QED
    BY <1>1

\* What TotalSize computes.
LEMMA TotalSizeStep ==
  ASSUME NEW S, IsFiniteSet(S)
  PROVE  /\ TotalSize({}) = 0
         /\ S # {} => First(S) \in S /\ TotalSize(S) = Size[First(S)] + TotalSize(S \ {First(S)})
  <1>1. ASSUME NEW T, IsFiniteSet(T), NEW f, Sums(S, f), T \in SUBSET S
        PROVE  f[T] = TotalSize(T)
    <2>1. PICK g : g = CHOOSE h : Sums(T, h)
      OBVIOUS
    <2>2. Sums(T, g) /\ TotalSize(T) = g[T]
      BY <1>1, <2>1, SumsExist, TotalSizeUnfolds
    <2>3. QED
      BY <1>1, <2>2, SumsAgree
  <1>2. PICK f : Sums(S, f)
    BY SumsExist
  <1>3. \A T \in SUBSET S : f[T] = TotalSize(T) /\ f[T] = NextSum(T, f)
    <2>1. ASSUME NEW T \in SUBSET S PROVE f[T] = TotalSize(T)
      BY <1>1, <1>2, FS_Subset
    <2>2. QED
      BY <1>2, <2>1 DEF Sums
  <1>4. S # {} => First(S) \in S
    BY DEF First
  <1>5. QED
    BY <1>3, <1>4 DEF NextSum

LEMMA TotalSizeNat ==
  ASSUME NEW S \in SUBSET Messages
  PROVE  IsFiniteSet(S) /\ TotalSize(S) \in Nat
  <1> DEFINE bad == {T \in SUBSET S : TotalSize(T) \notin Nat}
  <1>1. IsFiniteSet(S) /\ \A m \in S : Size[m] \in Nat
    BY ConstantsAssumption, FS_Subset DEF ConstantsAssumption
  <1>2. ASSUME bad # {} PROVE FALSE
    <2>1. PICK T \in bad : \A x \in T : T \ {x} \notin bad
      <3>1. bad \in SUBSET (SUBSET S)
        OBVIOUS
      <3> HIDE DEF bad
      <3>2. QED
        BY <1>1, <1>2, <3>1, SmallestSubset
    <2>2. T \in SUBSET S /\ TotalSize(T) \notin Nat /\ IsFiniteSet(T)
      BY <1>1, <2>1, FS_Subset
    <2>3. T # {} => TotalSize(T \ {First(T)}) \in Nat /\ Size[First(T)] \in Nat
      <3>1. T # {} => First(T) \in T
        BY DEF First
      <3>2. QED
        BY <1>1, <2>1, <2>2, <3>1
    <2>4. QED
      BY <2>2, <2>3, TotalSizeStep
  <1>3. QED
    BY <1>1, <1>2

\* Whichever element is taken out first, the sum is the same.
LEMMA TakeOut ==
  ASSUME NEW S \in SUBSET Messages, NEW x \in S
  PROVE  TotalSize(S) = Size[x] + TotalSize(S \ {x})
  <1> DEFINE Good(T) == \A y \in T : TotalSize(T) = Size[y] + TotalSize(T \ {y})
             bad == {T \in SUBSET S : ~Good(T)}
  <1>1. \A T \in SUBSET S : IsFiniteSet(T) /\ TotalSize(T) \in Nat
    BY TotalSizeNat
  <1>2. \A m \in S : Size[m] \in Nat
    BY ConstantsAssumption DEF ConstantsAssumption
  <1>3. ASSUME bad # {} PROVE FALSE
    <2>1. PICK T \in bad : \A y \in T : T \ {y} \notin bad
      <3>1. bad \in SUBSET (SUBSET S) /\ IsFiniteSet(S)
        BY <1>1
      <3> HIDE DEF bad
      <3>2. QED
        BY <1>3, <3>1, SmallestSubset
    <2>2. PICK y \in T : TotalSize(T) # Size[y] + TotalSize(T \ {y})
      BY <2>1
    <2>3. T \in SUBSET S
      BY <2>1
    <2>4. PICK z : z = First(T)
      OBVIOUS
    <2>5. z \in T /\ TotalSize(T) = Size[z] + TotalSize(T \ {z})
      BY <1>1, <2>2, <2>3, <2>4, TotalSizeStep
    <2>6. CASE y = z
      BY <2>2, <2>5, <2>6
    <2>7. CASE y # z
      <3>1. Good(T \ {z}) /\ Good(T \ {y})
        BY <2>1, <2>2, <2>3, <2>5
      <3> HIDE DEF bad
      <3>2. y \in T \ {z} /\ z \in T \ {y}
        BY <2>2, <2>5, <2>7
      <3>3. TotalSize(T \ {z}) = Size[y] + TotalSize((T \ {z}) \ {y})
        BY <3>1, <3>2
      <3>4. TotalSize(T \ {y}) = Size[z] + TotalSize((T \ {y}) \ {z})
        BY <3>1, <3>2
      <3>5. (T \ {z}) \ {y} = (T \ {y}) \ {z}
        OBVIOUS
      <3>6. PICK rest : rest = TotalSize((T \ {y}) \ {z})
        OBVIOUS
      <3>7. /\ rest \in Nat /\ Size[y] \in Nat /\ Size[z] \in Nat
        <4>1. (T \ {y}) \ {z} \in SUBSET S
          BY <2>3
        <4>2. QED
          BY <1>1, <1>2, <2>2, <2>3, <2>5, <3>6, <4>1
      <3>8. QED
        BY <2>2, <2>5, <3>3, <3>4, <3>5, <3>6, <3>7
    <2>8. QED
      BY <2>6, <2>7
  <1>4. Good(S)
    BY <1>3
  <1>5. QED
    BY <1>4

\* More messages are never smaller.
LEMMA TotalSizeMonotonic ==
  ASSUME NEW S \in SUBSET Messages, NEW U \in SUBSET S
  PROVE  TotalSize(U) <= TotalSize(S)
  <1> DEFINE bad == {T \in SUBSET S : U \subseteq T /\ ~(TotalSize(U) <= TotalSize(T))}
  <1>1. \A T \in SUBSET S : IsFiniteSet(T) /\ TotalSize(T) \in Nat
    BY TotalSizeNat
  <1>2. \A m \in S : Size[m] \in Nat
    BY ConstantsAssumption DEF ConstantsAssumption
  <1>3. ASSUME bad # {} PROVE FALSE
    <2>1. PICK T \in bad : \A y \in T : T \ {y} \notin bad
      <3>1. bad \in SUBSET (SUBSET S) /\ IsFiniteSet(S)
        BY <1>1
      <3> HIDE DEF bad
      <3>2. QED
        BY <1>3, <3>1, SmallestSubset
    <2>2. T \in SUBSET S /\ U \subseteq T /\ ~(TotalSize(U) <= TotalSize(T))
      BY <2>1
    <2>3. U # T
      BY <1>1, <2>2
    <2>4. PICK y \in T : y \notin U
      BY <2>2, <2>3
    <2>5. T \ {y} \in SUBSET S /\ U \subseteq T \ {y}
      BY <2>2, <2>4
    <2>6. TotalSize(U) <= TotalSize(T \ {y})
      BY <2>1, <2>4, <2>5
    <2> HIDE DEF bad
    <2>7. TotalSize(T) = Size[y] + TotalSize(T \ {y})
      BY <2>2, TakeOut
    <2>8. QED
      BY <1>1, <1>2, <2>2, <2>5, <2>6, <2>7
  <1>4. QED
    BY <1>3

LEMMA TotalSizeOfOne ==
  ASSUME NEW m \in Messages
  PROVE  TotalSize({m}) = Size[m]
  <1>1. TotalSize({m}) = Size[m] + TotalSize({m} \ {m})
    BY TakeOut
  <1>2. {m} \ {m} = {} /\ TotalSize({}) = 0 /\ IsFiniteSet({})
    BY TotalSizeStep, FS_EmptySet
  <1>3. Size[m] \in Nat
    BY ConstantsAssumption DEF ConstantsAssumption
  <1>4. QED
    BY <1>1, <1>2, <1>3
------------------------------------------------------------------------------
(***************************************************************************)
(* Groups of messages.                                                     *)
(***************************************************************************)
\* The strategy orders the messages: one of two always comes first.
LEMMA MessageOrder ==
  /\ \A m \in Messages : ~MsgBefore(m, m)
  /\ \A m, n \in Messages : m = n \/ MsgBefore(m, n) \/ MsgBefore(n, m)
  /\ \A k, m, n \in Messages : MsgBefore(k, m) /\ MsgBefore(m, n) => MsgBefore(k, n)
  <1>1. \A m \in Messages : m \in Nat /\ Size[m] \in Nat
    BY ConstantsAssumption DEF ConstantsAssumption
  <1>2. FirstPassSize \in Nat
    BY ConstantsAssumption DEF ConstantsAssumption
  <1>3. \A m \in Messages : ~MsgBefore(m, m)
    BY <1>1, <1>2 DEF MsgBefore
  <1>4. \A m, n \in Messages : m = n \/ MsgBefore(m, n) \/ MsgBefore(n, m)
    BY <1>1, <1>2 DEF MsgBefore
  <1>5. \A k, m, n \in Messages : MsgBefore(k, m) /\ MsgBefore(m, n) => MsgBefore(k, n)
    BY <1>1, <1>2 DEF MsgBefore
  <1>6. QED
    BY <1>3, <1>4, <1>5

\* Finitely many messages have a first and a last one.
LEMMA FirstAndLast ==
  ASSUME NEW S \in SUBSET Messages, S # {}
  PROVE  /\ \E m \in S : \A n \in S \ {m} : MsgBefore(m, n)
         /\ \E m \in S : \A n \in S \ {m} : MsgBefore(n, m)
  <1> DEFINE HasFirst(T) == \E m \in T : \A n \in T \ {m} : MsgBefore(m, n)
             HasLast(T) == \E m \in T : \A n \in T \ {m} : MsgBefore(n, m)
             bad == {T \in SUBSET S : T # {} /\ ~(HasFirst(T) /\ HasLast(T))}
  <1>1. ASSUME bad # {} PROVE FALSE
    <2>1. PICK T \in bad : \A y \in T : T \ {y} \notin bad
      <3>1. bad \in SUBSET (SUBSET S) /\ IsFiniteSet(S)
        BY TotalSizeNat
      <3> HIDE DEF bad
      <3>2. QED
        BY <1>1, <3>1, SmallestSubset
    <2>2. T \in SUBSET S /\ T # {} /\ ~(HasFirst(T) /\ HasLast(T)) /\ T \in SUBSET Messages
      BY <2>1
    <2>3. PICK x \in T : TRUE
      BY <2>2
    <2>4. T \ {x} \in SUBSET S /\ T \ {x} \notin bad
      BY <2>1, <2>2, <2>3
    <2>5. CASE T \ {x} = {}
      BY <2>2, <2>3, <2>5
    <2>6. CASE T \ {x} # {}
      <3>1. HasFirst(T \ {x}) /\ HasLast(T \ {x})
        BY <2>4, <2>6
      <3> HIDE DEF bad
      <3>2. PICK a \in T \ {x} : \A n \in (T \ {x}) \ {a} : MsgBefore(a, n)
        BY <3>1
      <3>3. PICK b \in T \ {x} : \A n \in (T \ {x}) \ {b} : MsgBefore(n, b)
        BY <3>1
      <3>4. HasFirst(T)
        <4>1. CASE MsgBefore(a, x)
          BY <3>2, <4>1
        <4>2. CASE MsgBefore(x, a)
          <5>1. \A n \in T \ {x} : MsgBefore(x, n)
            BY <2>2, <2>3, <3>2, <4>2, MessageOrder
          <5>2. QED
            BY <2>3, <5>1
        <4>3. QED
          BY <2>2, <2>3, <4>1, <4>2, MessageOrder
      <3>5. HasLast(T)
        <4>1. CASE MsgBefore(x, b)
          BY <3>3, <4>1
        <4>2. CASE MsgBefore(b, x)
          <5>1. \A n \in T \ {x} : MsgBefore(n, x)
            BY <2>2, <2>3, <3>3, <4>2, MessageOrder
          <5>2. QED
            BY <2>3, <5>1
        <4>3. QED
          BY <2>2, <2>3, <4>1, <4>2, MessageOrder
      <3>6. QED
        BY <2>2, <3>4, <3>5
    <2>7. QED
      BY <2>5, <2>6
  <1>2. S \notin bad
    BY <1>1
  <1>3. HasFirst(S) /\ HasLast(S)
    BY <1>2
  <1>4. QED
    BY <1>3

\* The first message to fetch is in the next group, however big.
LEMMA FirstOfWaiting ==
  ASSUME NEW W \in SUBSET Messages, W # {}, NEW m, m = FirstOf(W)
  PROVE  /\ m \in W /\ \A n \in W \ {m} : MsgBefore(m, n)
         /\ UpTo(m, W) = {m} /\ m \in NextGroup(W)
  <1>1. m \in W /\ \A n \in W \ {m} : MsgBefore(m, n)
    BY FirstAndLast DEF FirstOf
  <1>2. UpTo(m, W) = {m}
    BY <1>1, MessageOrder DEF UpTo
  <1>3. QED
    BY <1>1, <1>2 DEF NextGroup

\* What is passed without being asked for can be done without.
LEMMA PassedIsAsked ==
  ASSUME NEW S \in SUBSET Messages, NEW m \in Fetchable(S), m \in Passed(S, Fetchable(S))
  PROVE  m \in NextGroup(Fetchable(S))
  <1>1. PICK W : W = Fetchable(S)
    OBVIOUS
  <1>2. W \in SUBSET Messages /\ m \in W
    BY <1>1 DEF Fetchable
  <1>3. CASE \E k \in NextGroup(W) : Size[k] >= GroupSize
    <2>1. m \in UpTo(FirstOf(W), S)
      BY <1>1, <1>3 DEF Passed
    <2>2. PICK n : n = FirstOf(W)
      OBVIOUS
    <2>3. n \in W /\ (\A k \in W \ {n} : MsgBefore(n, k)) /\ n \in NextGroup(W)
      BY <1>2, <2>2, FirstOfWaiting
    <2>4. m = n \/ MsgBefore(m, n)
      BY <2>1, <2>2 DEF UpTo
    <2>5. m = n
      BY <1>2, <2>3, <2>4, MessageOrder
    <2>6. QED
      BY <1>1, <2>3, <2>5
  <1>4. CASE ~\E k \in NextGroup(W) : Size[k] >= GroupSize
    <2>1. \A k \in W \ NextGroup(W) : MsgBefore(m, k)
      BY <1>1, <1>4 DEF Passed
    <2>2. QED
      BY <1>1, <1>2, <2>1, MessageOrder
  <1>5. QED
    BY <1>3, <1>4

\* A group has a size unless there is nothing to fetch, and it fits or is one
\* message.
LEMMA SizeOfGroup ==
  ASSUME NEW S \in SUBSET Messages, NEW G, G = NextGroup(Fetchable(S))
  PROVE  /\ TotalSize(G) \in Nat
         /\ TotalSize(G) = 0 <=> Fetchable(S) = {}
         /\ TotalSize(G) <= GroupSize \/ \A m \in G : TotalSize(G) = Size[m]
  <1>1. PICK W : W = Fetchable(S)
    OBVIOUS
  <1>2. W \in SUBSET Messages /\ G \in SUBSET W /\ W \in SUBSET S /\ G \in SUBSET Messages
        /\ \A m \in W : Size[m] \in Nat /\ Size[m] > 0
    BY <1>1, ConstantsAssumption DEF Fetchable, NextGroup, ConstantsAssumption
  <1>3. TotalSize(G) \in Nat
    BY <1>2, TotalSizeNat
  <1>4. CASE W = {}
    <2>1. G = {}
      BY <1>2, <1>4
    <2>2. TotalSize(G) = 0
      BY <2>1, TotalSizeStep, FS_EmptySet
    <2>3. GroupSize \in Nat
      BY ConstantsAssumption DEF ConstantsAssumption
    <2>4. QED
      BY <1>1, <1>4, <2>2, <2>3
  <1>5. CASE W # {}
    <2>1. PICK m : m = FirstOf(W)
      OBVIOUS
    <2>2. m \in G
      BY <1>1, <1>2, <1>5, <2>1, FirstOfWaiting
    <2>3. Size[m] <= TotalSize(G)
      <3>1. {m} \in SUBSET G /\ m \in Messages
        BY <1>2, <2>2
      <3>2. QED
        BY <1>2, <3>1, TotalSizeOfOne, TotalSizeMonotonic
    <2>4. TotalSize(G) # 0
      BY <1>2, <1>3, <2>2, <2>3
    <2>5. PICK n \in G : \A k \in G \ {n} : MsgBefore(k, n)
      BY <1>2, <2>2, FirstAndLast
    <2>6. G \in SUBSET UpTo(n, W) /\ UpTo(n, W) \in SUBSET Messages /\ n \in W
      BY <1>2, <2>5 DEF UpTo
    <2>7. TotalSize(G) <= TotalSize(UpTo(n, W)) /\ TotalSize(UpTo(n, W)) \in Nat
      BY <2>6, TotalSizeMonotonic, TotalSizeNat
    <2>8. CASE UpTo(n, W) = {n}
      <3>1. G = {n}
        BY <2>5, <2>6, <2>8
      <3>2. TotalSize(G) = Size[n]
        BY <1>2, <2>6, <3>1, TotalSizeOfOne
      <3>3. \A k \in G : TotalSize(G) = Size[k]
        BY <3>1, <3>2
      <3>4. QED
        BY <1>1, <1>3, <1>5, <2>4, <3>3
    <2>9. CASE TotalSize(UpTo(n, W)) <= GroupSize
      <3>1. GroupSize \in Nat
        BY ConstantsAssumption DEF ConstantsAssumption
      <3>2. QED
        BY <1>1, <1>3, <1>5, <2>4, <2>7, <2>9, <3>1
    <2>10. QED
      BY <1>1, <2>5, <2>8, <2>9 DEF NextGroup
  <1>6. QED
    BY <1>4, <1>5
------------------------------------------------------------------------------
(***************************************************************************)
(* No body is lost sight of.  A message is asked for by putting it into a  *)
(* group; the offsets may pass it only then, or when there is nothing to   *)
(* fetch of it.  The one way around it is a group that is refused again    *)
(* and again: because the client is offline, or because its only message   *)
(* is too big for a user who is there.                                     *)
(***************************************************************************)
Undisturbed == Calm /\ "offline" \notin Behaviours

\* Only a message that fills its group alone can be over the limit for a user
\* who is there: kDefaultGroupSize is less than kFirstGroupSizeLimit.
Roomy == GroupSize <= FirstGroupSizeLimit

\* In the download queue are messages whose headers are known; those that were
\* passed were asked for or are over the limit; those that are being fetched can be asked for again.
Accounted(r) ==
  /\ \A m \in r.done \cup r.current \cup r.pending : where[m] \in {"header", "offline", "deleted"}
  /\ Roomy =>
       \A m \in r.done \cup r.current :
         where[m] = "header" /\ Size[m] \in 1..FirstGroupSizeLimit => m \in r.tried
  /\ \A i \in DOMAIN r.fetches : \A m \in r.fetches[i] :
       Size[m] > 0 /\ m \in r.current \cup r.pending

\* m is going to be asked for, or being fetched.
Sought(m, r) == m \in r.pending \/ \E i \in DOMAIN r.fetches : m \in r.fetches[i]

\* The offsets move past the next group and what need not be fetched.
MovedPast(r, G, next) ==
  /\ next.done = r.done \cup r.current /\ next.tried = r.tried /\ next.fetches = r.fetches
  /\ next.current \cup next.pending \subseteq r.pending
  /\ G \subseteq next.current \cup next.pending
  /\ \A m \in next.current : where[m] = "header" /\ Size[m] > 0 => m \in G
  /\ Fetchable(r.pending) \ G \subseteq next.pending
  /\ \A m \in G : where[m] = "header" /\ Size[m] > 0

LEMMA OffsetsMove ==
  ASSUME NEW S \in SUBSET Messages, NEW r, QueueOver(S, r),
         NEW G, G = NextGroup(Fetchable(r.pending)), NEW next, next = GetNextGroupOfMessages(r)
  PROVE  MovedPast(r, G, next)
  <1>1. PICK passed : passed = Passed(r.pending, Fetchable(r.pending))
    OBVIOUS
  <1>2. passed \subseteq r.pending
    BY <1>1, PassedSubset
  <1>3. next = MoveOffsets(r, passed)
    BY <1>1 DEF GetNextGroupOfMessages
  <1>4. /\ next.done = r.done \cup r.current /\ next.tried = r.tried /\ next.fetches = r.fetches
        /\ next.current = {m \in passed : HasHeader(m)} /\ next.pending = r.pending \ passed
    BY <1>3 DEF MoveOffsets, QueueOver, FolderRecord
  <1>5. r.pending \in SUBSET Messages
    BY DEF QueueOver, FolderRecord
  <1>6. \A m \in Fetchable(r.pending) : m \in passed => m \in G
    BY <1>1, <1>5, PassedIsAsked
  <1>7. \A m \in Fetchable(r.pending) : m \in r.pending /\ where[m] = "header" /\ Size[m] > 0
    BY DEF Fetchable
  <1>8. G \subseteq Fetchable(r.pending)
    BY DEF NextGroup
  <1>9. G \subseteq next.current \cup next.pending
    BY <1>4, <1>7, <1>8 DEF HasHeader
  <1>10. \A m \in next.current : where[m] = "header" /\ Size[m] > 0 => m \in G
    BY <1>2, <1>4, <1>6 DEF Fetchable
  <1>11. Fetchable(r.pending) \ G \subseteq next.pending
    BY <1>4, <1>6, <1>7
  <1>12. QED
    BY <1>2, <1>4, <1>7, <1>8, <1>9, <1>10, <1>11 DEF MovedPast

\* A group that is refused for its size is one message over the limit.
LEMMA RefusedIsOver ==
  ASSUME Roomy, NEW S \in SUBSET Messages, NEW G, G = NextGroup(Fetchable(S)),
         FirstGroupSizeLimit < TotalSize(G)
  PROVE  \A m \in G : Size[m] \notin 1..FirstGroupSizeLimit
  <1>1. PICK total : total = TotalSize(G)
    OBVIOUS
  <1>2. total \in Nat /\ (total <= GroupSize \/ \A m \in G : total = Size[m])
    BY <1>1, SizeOfGroup
  <1>3. GroupSize \in Nat /\ FirstGroupSizeLimit \in Nat
    BY ConstantsAssumption DEF ConstantsAssumption
  <1>4. FirstGroupSizeLimit < total /\ ~(total <= GroupSize)
    BY <1>1, <1>2, <1>3 DEF Roomy
  <1>5. QED
    BY <1>2, <1>3, <1>4

\* Asking for a group accounts for its messages; without a limit all that is to
\* be fetched stays sought.
LEMMA AskedAccounted ==
  ASSUME Undisturbed, online, NEW S \in SUBSET Messages, NEW r, QueueOver(S, r), Accounted(r),
         Unlocked(r), NEW f, NEW limit \in {0, FirstGroupSizeLimit},
         NEW a, a = DownloadMessagesForOffline(f, r, limit)
  PROVE  /\ Accounted(a.state)
         /\ limit = 0 => \A m \in Fetchable(r.pending) : Sought(m, a.state)
  <1>1. PICK G : G = NextGroup(Fetchable(r.pending))
    OBVIOUS
  <1>2. PICK next : next = GetNextGroupOfMessages(r)
    OBVIOUS
  <1>3. a = RequestGroup(f, r, limit, G, next)
    BY <1>1, <1>2 DEF DownloadMessagesForOffline
  <1>4. MovedPast(r, G, next)
    BY <1>1, <1>2, OffsetsMove
  <1>5. r.pending \in SUBSET Messages
    BY DEF QueueOver, FolderRecord
  <1>6. r.fetches = <<>> /\ ~r.locked
    BY DEF Unlocked, Undisturbed
  <1>7. CASE a.state = r
    BY <1>7 DEF Sought, Fetchable
  <1>8. CASE TotalSize(G) = 0 /\ a.state = next
    <2>1. Fetchable(r.pending) = {} /\ G = {}
      BY <1>1, <1>5, <1>8, SizeOfGroup DEF NextGroup
    <2>2. Accounted(next)
      BY <1>4, <1>6, <2>1 DEF Accounted, MovedPast
    <2>3. QED
      BY <1>8, <2>1, <2>2
  <1>9. CASE a.state = [next EXCEPT !.locked = TRUE, !.state = "downloadInProgress",
                                    !.fetches = Append(r.fetches, G), !.tried = r.tried \cup G]
    <2>1. PICK list, tried : list = Append(r.fetches, G) /\ tried = r.tried \cup G
      OBVIOUS
    <2>2. PICK u : u = [next EXCEPT !.locked = TRUE, !.state = "downloadInProgress",
                                    !.fetches = list, !.tried = tried]
      OBVIOUS
    <2>3. QueueOver(S, next)
      BY <1>2, RecordFields
    <2>4. /\ u.done = next.done /\ u.current = next.current /\ u.pending = next.pending
          /\ u.fetches = list /\ u.tried = tried
      BY <2>2, <2>3 DEF QueueOver, FolderRecord
    <2>5. DOMAIN list = {1} /\ list[1] = G
      BY <1>6, <2>1
    <2>6. Accounted(u)
      BY <1>4, <2>1, <2>4, <2>5 DEF Accounted, MovedPast
    <2>7. \A m \in Fetchable(r.pending) : Sought(m, u)
      BY <1>4, <2>4, <2>5 DEF Sought, MovedPast
    <2>8. a.state = u
      BY <1>9, <2>1, <2>2
    <2>9. QED
      BY <2>6, <2>7, <2>8
  <1>10. CASE limit > 0 /\ limit < TotalSize(G) /\ a.state = next
    <2>1. Roomy => \A m \in G : Size[m] \notin 1..FirstGroupSizeLimit
      <3>1. limit = FirstGroupSizeLimit
        BY <1>10
      <3>2. QED
        BY <1>1, <1>5, <1>10, <3>1, RefusedIsOver
    <2>2. Accounted(next)
      BY <1>4, <1>6, <2>1 DEF Accounted, MovedPast
    <2>3. ~(limit = 0)
      BY <1>10
    <2>4. QED
      BY <1>10, <2>2, <2>3
  <1>11. QED
    BY <1>3, <1>6, <1>7, <1>8, <1>9, <1>10 DEF RequestGroup

\* So does going back to the last offset.
LEMMA AgainAccounted ==
  ASSUME NEW S, NEW r, QueueOver(S, r), Accounted(r), NEW t, t = TryCurrentGroupAgain(r)
  PROVE  Accounted(t) /\ \A m : Sought(m, r) => Sought(m, t)
  <1>1. CASE r.retries + 1 > GroupRetryCount
    <2>1. /\ t.done = r.done /\ t.current = r.current /\ t.pending = r.pending
          /\ t.fetches = r.fetches /\ t.tried = r.tried
      BY <1>1 DEF TryCurrentGroupAgain, QueueOver, FolderRecord
    <2>2. QED
      BY <2>1 DEF Accounted, Sought
  <1>2. CASE ~(r.retries + 1 > GroupRetryCount)
    <2>1. /\ t.done = r.done /\ t.current = {} /\ t.pending = r.current \cup r.pending
          /\ t.fetches = r.fetches /\ t.tried = r.tried
      BY <1>2 DEF TryCurrentGroupAgain, QueueOver, FolderRecord
    <2>2. Accounted(t)
      BY <2>1 DEF Accounted
    <2>3. QED
      BY <2>1, <2>2 DEF Sought
  <1>3. QED
    BY <1>1, <1>2

LEMMA RecoveredAccounted ==
  ASSUME Undisturbed, online, NEW S \in SUBSET Messages, NEW r, QueueOver(S, r), Accounted(r),
         Unlocked(r), NEW f, NEW t, t = Recovered(DownloadMessagesForOffline(f, r, 0))
  PROVE  Accounted(t) /\ \A m \in Fetchable(r.pending) : Sought(m, t)
  <1>1. PICK a : a = DownloadMessagesForOffline(f, r, 0)
    OBVIOUS
  <1>2. PICK u : u = a.state
    OBVIOUS
  <1>3. /\ Accounted(u) /\ QueueOver(S, u)
        /\ \A m \in Fetchable(r.pending) : Sought(m, u)
    BY <1>1, <1>2, AskedAccounted, DownloadOK
  <1>4. t = u \/ t = TryCurrentGroupAgain(u)
    BY <1>1, <1>2 DEF Recovered
  <1>5. CASE t = TryCurrentGroupAgain(u)
    <2>1. Accounted(t) /\ \A m : Sought(m, u) => Sought(m, t)
      BY <1>3, <1>5, AgainAccounted
    <2>2. QED
      BY <1>3, <2>1
  <1>6. QED
    BY <1>3, <1>4, <1>5

AllAccounted(s) == \A g \in Folders : Accounted(s[g])

LEMMA MessagesOfFolder ==
  ASSUME NEW f
  PROVE  MessagesOf(f) \in SUBSET Messages
  BY DEF MessagesOf

\* Nothing else of a record matters.
LEMMA SamePartsAccounted ==
  ASSUME NEW r, Accounted(r), NEW t,
         t.done = r.done, t.current = r.current, t.pending = r.pending, t.tried = r.tried,
         t.fetches = r.fetches \/ t.fetches = <<>>
  PROVE  Accounted(t)
  <1>1. DOMAIN <<>> = {}
    OBVIOUS
  <1>2. QED
    BY <1>1 DEF Accounted

\* An empty queue has nothing to account for.
LEMMA CompletedAccounted ==
  ASSUME NEW S, NEW r, QueueOver(S, r), Unlocked(r), NEW t, t = SetCompletedIdle(r)
  PROVE  Accounted(t)
  <1>1. t.done = {} /\ t.current = {} /\ t.pending = {} /\ t.fetches = <<>>
    BY DEF SetCompletedIdle, QueueOver, FolderRecord, Unlocked
  <1>2. DOMAIN <<>> = {}
    OBVIOUS
  <1>3. QED
    BY <1>1, <1>2 DEF Accounted

\* One folder at a time.
LEMMA ExceptAccounted ==
  ASSUME NEW s, SyncOK(s), AllAccounted(s), NEW f \in Folders, NEW r, Accounted(r),
         NEW t, t = [s EXCEPT ![f] = r]
  PROVE  AllAccounted(t)
  BY DEF AllAccounted, SyncOK

\* Asking a folder, and its siblings while that fails.
LEMMA ChainAccounted ==
  ASSUME Undisturbed, online, NEW s, SyncOK(s), NEW q \in Seq(Folders), FetchOK(s, q),
         AllAccounted(s), NEW f \in Folders, s[f].state = "readyToDownload", Free(s, f),
         NEW t, t = DownloadChained(s, q, f)
  PROVE  /\ AllAccounted(t)
         /\ \A g \in Folders : \A m \in Fetchable(s[g].pending) : Sought(m, t[g])
  <1>1. Calm /\ OnlineOK
    BY DEF Undisturbed, OnlineOK
  <1>2. AskedInChain(s, q, f, t)
    BY ChainAsks
  <1>3. \A g \in Folders : t[g] = s[g] \/ Waiting(s[g])
    BY <1>1, ChainKeeps
  <1>4. ASSUME NEW g \in Folders
        PROVE  Accounted(t[g]) /\ \A m \in Fetchable(s[g].pending) : Sought(m, t[g])
    <2>1. Accounted(s[g]) /\ QueueOver(MessagesOf(g), s[g]) /\ MessagesOf(g) \in SUBSET Messages
      BY MessagesOfFolder DEF AllAccounted, SyncOK
    <2>2. CASE t[g] = s[g]
      BY <2>1, <2>2 DEF Sought, Fetchable
    <2>3. CASE t[g] # s[g]
      <3>1. PICK r : r = s[g]
        OBVIOUS
      <3>2. PICK u : u = t[g]
        OBVIOUS
      <3>3. u = Recovered(DownloadMessagesForOffline(g, r, 0)) /\ Unlocked(r)
        BY <1>2, <1>3, <2>3, <3>1, <3>2 DEF AskedInChain, Waiting
      <3>4. Accounted(u) /\ \A m \in Fetchable(r.pending) : Sought(m, u)
        BY <2>1, <3>1, <3>3, RecoveredAccounted
      <3>5. QED
        BY <3>1, <3>2, <3>4
    <2>4. QED
      BY <2>2, <2>3
  <1>5. QED
    BY <1>4 DEF AllAccounted

\* Asking for a first group, within the limit if the user is there.
LEMMA FirstAskedAccounted ==
  ASSUME Undisturbed, online, NEW s, SyncOK(s), AllAccounted(s), NEW q,
         NEW f \in Folders, Waiting(s[f]), NEW p, p = AskForFirstGroup(s, q, f)
  PROVE  AllAccounted(p.sync)
  <1>1. CASE p = [sync |-> s, queue |-> q, ok |-> TRUE]
    BY <1>1
  <1>2. ASSUME NEW limit \in {0, FirstGroupSizeLimit},
               p = FirstGroupAsked(s, q, f, DownloadMessagesForOffline(f, s[f], limit))
        PROVE  AllAccounted(p.sync)
    <2>1. PICK a : a = DownloadMessagesForOffline(f, s[f], limit)
      OBVIOUS
    <2>2. PICK r : r = s[f]
      OBVIOUS
    <2>3. PICK u : u = a.state
      OBVIOUS
    <2>4. PICK v : v = IF a.result = "ok" THEN u ELSE TryCurrentGroupAgain(u)
      OBVIOUS
    <2>5. p.sync = [s EXCEPT ![f] = v]
      BY <1>2, <2>1, <2>3, <2>4 DEF FirstGroupAsked
    <2>6. /\ Accounted(r) /\ QueueOver(MessagesOf(f), r) /\ MessagesOf(f) \in SUBSET Messages
          /\ Unlocked(r)
      BY <2>2, MessagesOfFolder DEF AllAccounted, SyncOK, Waiting
    <2>7. Accounted(u) /\ QueueOver(MessagesOf(f), u)
      BY <2>1, <2>2, <2>3, <2>6, AskedAccounted, DownloadOK
    <2>8. Accounted(v)
      BY <2>4, <2>7, AgainAccounted
    <2>9. QED
      BY <2>5, <2>8, ExceptAccounted
  <1>3. QED
    BY <1>1, <1>2 DEF AskForFirstGroup

LEMMA ChangedAccounted ==
  ASSUME Undisturbed, online, NEW s, SyncOK(s), AllAccounted(s), NEW q,
         NEW f \in Folders, Unlocked(s[f]), NEW p, p = OnDownloadQChanged(s, q, f)
  PROVE  AllAccounted(p.sync)
  <1>1. CASE mPaused
    BY <1>1 DEF OnDownloadQChanged
  <1>2. CASE ~mPaused
    <2>1. PICK r : r = [s[f] EXCEPT !.state = "readyToDownload"]
      OBVIOUS
    <2>2. PICK t : t = ScheduleFolderForOfflineDownload(q, f)
      OBVIOUS
    <2>3. PICK u : u = [s EXCEPT ![f] = r]
      OBVIOUS
    <2>4. p = AskForFirstGroup(u, t, f)
      BY <1>2, <2>1, <2>2, <2>3 DEF OnDownloadQChanged
    <2>5. QueueOver(MessagesOf(f), s[f]) /\ Accounted(s[f])
      BY DEF SyncOK, AllAccounted
    <2>6. QueueOver(MessagesOf(f), r)
      BY <2>1, <2>5, StateOK DEF SyncStates
    <2>7. Waiting(r)
      BY <2>1, <2>5 DEF Waiting, Unlocked, QueueOver, FolderRecord
    <2>8. Accounted(r)
      <3>1. /\ r.done = s[f].done /\ r.current = s[f].current /\ r.pending = s[f].pending
            /\ r.tried = s[f].tried /\ r.fetches = s[f].fetches
        BY <2>1, <2>5 DEF QueueOver, FolderRecord
      <3>2. QED
        BY <2>5, <3>1, SamePartsAccounted
    <2>9. SyncOK(u) /\ AllAccounted(u) /\ u[f] = r
      BY <2>3, <2>6, <2>8, ExceptOK, ExceptAccounted DEF SyncOK
    <2>10. QED
      BY <2>4, <2>7, <2>9, FirstAskedAccounted
  <1>3. QED
    BY <1>1, <1>2

\* New headers are put into the download queue.
LEMMA PlacedAccounted ==
  ASSUME Undisturbed, online, SyncOK(sync), AllAccounted(sync),
         NEW f \in Folders, Unlocked(sync[f]), NEW keys \in SUBSET MessagesOf(f),
         NEW p, p = PlaceIntoDownloadQ(f, keys)
  PROVE  AllAccounted(p.sync)
  <1>1. PICK new : new = {m \in keys : where[m] = "header"}
                           \ (sync[f].done \cup sync[f].current \cup sync[f].pending)
    OBVIOUS
  <1>2. PICK pending, changed :
           pending = sync[f].pending \cup new /\ changed = (sync[f].changed \/ new # {})
    OBVIOUS
  <1>3. PICK r : r = [sync[f] EXCEPT !.pending = pending, !.changed = changed]
    OBVIOUS
  <1>4. PICK s : s = [sync EXCEPT ![f] = r]
    OBVIOUS
  <1>5. s = [sync EXCEPT ![f].pending = pending, ![f].changed = changed]
    BY <1>3, <1>4 DEF SyncOK
  <1>6. p = OnDownloadQChanged(s, mPriorityQ, f) \/ p = [sync |-> s, queue |-> mPriorityQ, ok |-> TRUE]
    BY <1>1, <1>2, <1>5 DEF PlaceIntoDownloadQ
  <1>7. QueueOver(MessagesOf(f), sync[f]) /\ Accounted(sync[f])
    BY DEF SyncOK, AllAccounted
  <1>8. /\ changed \in BOOLEAN /\ new \subseteq MessagesOf(f)
        /\ new \cap (sync[f].done \cup sync[f].current) = {}
        /\ \A m \in new : where[m] = "header"
    BY <1>1, <1>2, <1>7 DEF QueueOver, FolderRecord
  <1>9. /\ r.done = sync[f].done /\ r.current = sync[f].current /\ r.pending = pending
        /\ r.tried = sync[f].tried /\ r.fetches = sync[f].fetches /\ r.locked = sync[f].locked
        /\ QueueOver(MessagesOf(f), r)
    BY <1>2, <1>3, <1>7, <1>8 DEF QueueOver, FolderRecord
  <1>10. Accounted(r)
    BY <1>2, <1>7, <1>8, <1>9 DEF Accounted
  <1>11. SyncOK(s) /\ AllAccounted(s) /\ s[f] = r
    BY <1>4, <1>9, <1>10, ExceptOK, ExceptAccounted DEF SyncOK
  <1>12. Unlocked(s[f])
    BY <1>9, <1>11 DEF Unlocked
  <1>13. CASE p = OnDownloadQChanged(s, mPriorityQ, f)
    BY <1>11, <1>12, <1>13, ChangedAccounted
  <1>14. QED
    BY <1>6, <1>11, <1>13

LEMMA DiscoveryAccounted ==
  ASSUME Undisturbed, online, SyncOK(sync), AllAccounted(sync), alive \subseteq Folders,
         mDiscoveryQ # <<>> /\ Head(mDiscoveryQ) \in alive => Unlocked(sync[Head(mDiscoveryQ)]),
         NEW p, p = ProcessDiscoveryQ
  PROVE  AllAccounted(p.sync)
  <1>1. CASE ~(mDiscoveryQ # <<>> /\ Head(mDiscoveryQ) \in alive)
    BY <1>1 DEF ProcessDiscoveryQ
  <1>2. CASE mDiscoveryQ # <<>> /\ Head(mDiscoveryQ) \in alive
    <2>1. PICK f : f = Head(mDiscoveryQ)
      OBVIOUS
    <2>2. PICK left : left = IF sync[f].left = {} THEN {m \in MessagesOf(f) : HasHeader(m)}
                                                  ELSE sync[f].left
      OBVIOUS
    <2>3. PICK batch : batch = FirstKeys(left, HeaderBatch)
      OBVIOUS
    <2>4. PICK placed : placed = PlaceIntoDownloadQ(f, WithoutBody(batch))
      OBVIOUS
    <2>5. p = AfterBatch(f, left, batch, placed)
      BY <1>2, <2>1, <2>2, <2>3, <2>4 DEF ProcessDiscoveryQ, ProcessExistingHeaders
    <2>6. PICK rest : rest = IF placed.ok THEN left \ batch ELSE left
      OBVIOUS
    <2>7. p.sync = [placed.sync EXCEPT ![f].left = rest]
      BY <2>5, <2>6 DEF AfterBatch
    <2>8. f \in Folders /\ QueueOver(MessagesOf(f), sync[f]) /\ Unlocked(sync[f])
      BY <1>2, <2>1 DEF SyncOK
    <2>9. left \subseteq MessagesOf(f)
      BY <2>2, <2>8 DEF QueueOver, FolderRecord
    <2>10. PICK keys : keys = WithoutBody(batch)
      OBVIOUS
    <2>11. keys \in SUBSET MessagesOf(f)
      BY <2>3, <2>9, <2>10 DEF WithoutBody, FirstKeys
    <2>12. PICK s : s = placed.sync
      OBVIOUS
    <2>13. SyncOK(s) /\ AllAccounted(s)
      BY <2>4, <2>8, <2>10, <2>11, <2>12, PlacedAccounted, PlaceIntoDownloadQOK
    <2>14. PICK r : r = [s[f] EXCEPT !.left = rest]
      OBVIOUS
    <2>15. p.sync = [s EXCEPT ![f] = r]
      BY <2>7, <2>12, <2>13, <2>14 DEF SyncOK
    <2>16. QueueOver(MessagesOf(f), s[f]) /\ Accounted(s[f])
      BY <2>8, <2>13 DEF SyncOK, AllAccounted
    <2>17. /\ r.done = s[f].done /\ r.current = s[f].current /\ r.pending = s[f].pending
           /\ r.tried = s[f].tried /\ r.fetches = s[f].fetches
      BY <2>14, <2>16 DEF QueueOver, FolderRecord
    <2>18. Accounted(r)
      BY <2>16, <2>17, SamePartsAccounted
    <2>19. QED
      BY <2>8, <2>13, <2>15, <2>18, ExceptAccounted
  <1>3. QED
    BY <1>1, <1>2

\* An idle notice resumes folders and gives up those with nothing to fetch.
LEMMA IdleAccounted ==
  ASSUME Undisturbed, FetchInv, AllAccounted(sync), Idle, NEW s, s = sync'
  PROVE  AllAccounted(s)
  <1>1. /\ SyncOK(sync) /\ mPriorityQ \in Seq(Folders) /\ FetchOK(sync, mPriorityQ)
        /\ Calm /\ OnlineOK /\ online
    BY FetchInvFacts DEF Undisturbed, OnlineOK
  <1>2. CASE ProcessPriorityQ
    <2>1. PICK t : t = [g \in Folders |-> Resumed(g)]
      OBVIOUS
    <2>2. \A g \in NothingToFetch : Waiting(t[g])
      BY <1>1, <2>1, ResumedKeeps
    <2>3. ASSUME NEW g \in Folders PROVE Accounted(t[g]) /\ QueueOver(MessagesOf(g), t[g])
      <3>1. t[g] = IF StartersFor(g) = {} THEN sync[g]
                   ELSE DownloadChained(sync, mPriorityQ, CHOOSE f \in StartersFor(g) : TRUE)[g]
        BY <2>1 DEF Resumed, StartersFor
      <3>2. CASE StartersFor(g) = {}
        BY <1>1, <3>1, <3>2 DEF AllAccounted, SyncOK
      <3>3. CASE StartersFor(g) # {}
        <4>1. PICK f : f = CHOOSE x \in StartersFor(g) : TRUE
          OBVIOUS
        <4>2. f \in Starters
          BY <3>3, <4>1 DEF StartersFor
        <4>3. f \in Folders /\ sync[f].state = "readyToDownload" /\ Free(sync, f)
          BY <1>1, <4>2, StartersFree
        <4>4. PICK u : u = DownloadChained(sync, mPriorityQ, f)
          OBVIOUS
        <4>5. AllAccounted(u) /\ SyncOK(u)
          BY <1>1, <4>3, <4>4, ChainAccounted, DownloadChainedOK
        <4>6. t[g] = u[g]
          BY <3>1, <3>3, <4>1, <4>4
        <4>7. QED
          BY <4>5, <4>6 DEF AllAccounted, SyncOK
      <3>4. QED
        BY <3>2, <3>3
    <2>4. s = [g \in Folders |-> Drop(t[g], g \in NothingToFetch)]
      BY <1>2, <2>1 DEF ProcessPriorityQ
    <2>5. ASSUME NEW g \in Folders PROVE Accounted(s[g])
      <3>1. PICK r : r = t[g]
        OBVIOUS
      <3>2. Accounted(r) /\ QueueOver(MessagesOf(g), r)
        BY <2>3, <3>1
      <3>3. PICK u : u = s[g]
        OBVIOUS
      <3>4. u = r \/ (g \in NothingToFetch /\ u = SetCompletedIdle(r))
        BY <2>4, <3>1, <3>3 DEF Drop
      <3>5. g \in NothingToFetch => Unlocked(r)
        BY <2>2, <3>1 DEF Waiting
      <3>6. Accounted(u)
        BY <3>2, <3>4, <3>5, CompletedAccounted
      <3>7. QED
        BY <3>3, <3>6
    <2>6. QED
      BY <2>5 DEF AllAccounted
  <1>3. CASE s = sync
    BY <1>3
  <1>4. QED
    BY <1>2, <1>3 DEF Idle, AppIdle, SystemIdle, StartIdleProcessing
------------------------------------------------------------------------------
SeenInv == FetchInv /\ AllAccounted(sync)

LEMMA SeenFacts ==
  ASSUME Undisturbed, SeenInv
  PROVE  /\ SyncOK(sync) /\ mPriorityQ \in Seq(Folders) /\ alive \subseteq Folders
         /\ FetchInv /\ AllAccounted(sync) /\ Calm /\ online
  BY FetchInvFacts DEF SeenInv, Undisturbed, OnlineOK

\* The record of f has changed in nothing that matters.
LEMMA OneRecordAccounted ==
  ASSUME SyncOK(sync), AllAccounted(sync), NEW f \in Folders, NEW s,
         NEW r, r.done = sync[f].done, r.current = sync[f].current, r.pending = sync[f].pending,
         r.tried = sync[f].tried, r.fetches = sync[f].fetches, s = [sync EXCEPT ![f] = r]
  PROVE  AllAccounted(s)
  <1>1. Accounted(sync[f])
    BY DEF AllAccounted
  <1>2. Accounted(r)
    BY <1>1, SamePartsAccounted
  <1>3. QED
    BY <1>2, ExceptAccounted

LEMMA StateAccounted ==
  ASSUME NEW t, SyncOK(t), AllAccounted(t), NEW f \in Folders, NEW state,
         NEW s, s = [t EXCEPT ![f].state = state]
  PROVE  AllAccounted(s)
  <1>1. PICK r : r = [t[f] EXCEPT !.state = state]
    OBVIOUS
  <1>2. s = [t EXCEPT ![f] = r]
    BY <1>1 DEF SyncOK
  <1>3. QueueOver(MessagesOf(f), t[f]) /\ Accounted(t[f])
    BY DEF SyncOK, AllAccounted
  <1>4. /\ r.done = t[f].done /\ r.current = t[f].current /\ r.pending = t[f].pending
        /\ r.tried = t[f].tried /\ r.fetches = t[f].fetches
    BY <1>1, <1>3 DEF QueueOver, FolderRecord
  <1>5. Accounted(r)
    BY <1>3, <1>4, SamePartsAccounted
  <1>6. QED
    BY <1>2, <1>5, ExceptAccounted

\* After a fetch somebody of the same server is asked.
LEMMA AskedFromAccounted ==
  ASSUME Undisturbed, SeenInv, NEW f \in Folders, NEW r, Accounted(r), NEW s,
         NEW q \in Seq(Folders), AskedFrom(f, r, s, q)
  PROVE  /\ AllAccounted(s)
         /\ \A m \in Fetchable(r.pending) : Sought(m, s[f])
  <1>1. PICK t : /\ t = [sync EXCEPT ![f] = r] /\ SyncOK(t) /\ FetchOK(t, q)
                 /\ \/ s = t
                    \/ \E g \in Folders : /\ t[g].state = "readyToDownload" /\ Free(t, g)
                                         /\ s = DownloadChained(t, q, g)
    BY DEF AskedFrom
  <1>2. AllAccounted(t) /\ t[f] = r
    BY <1>1, SeenFacts, ExceptAccounted DEF SyncOK
  <1>3. CASE s = t
    BY <1>2, <1>3 DEF Sought, Fetchable
  <1>4. ASSUME NEW g \in Folders, t[g].state = "readyToDownload", Free(t, g),
               s = DownloadChained(t, q, g)
        PROVE  AllAccounted(s) /\ \A m \in Fetchable(r.pending) : Sought(m, s[f])
    <2>1. /\ AllAccounted(s)
          /\ \A h \in Folders : \A m \in Fetchable(t[h].pending) : Sought(m, s[h])
      BY <1>1, <1>2, <1>4, SeenFacts, ChainAccounted
    <2>2. QED
      BY <1>2, <2>1
  <1>5. QED
    BY <1>1, <1>3, <1>4

LEMMA UrlQueue ==
  ASSUME mPriorityQ \in Seq(Folders), NEW f, NEW u,
         OnGroupDownloaded(f, u) \/ OnFolderDownloaded(f, u) \/ OnDownloadFailed(f, u),
         NEW q, q = mPriorityQ'
  PROVE  q \in Seq(Folders)
  <1>1. q = mPriorityQ \/ q = Without(mPriorityQ, {f})
    BY DEF OnGroupDownloaded, OnFolderDownloaded, OnDownloadFailed
  <1>2. QED
    BY <1>1, WithoutFolders

LEMMA DownloadStopsAccounted ==
  ASSUME Undisturbed, SeenInv, NEW f \in Folders, NEW ok, DownloadStops(f, ok), NEW s, s = sync'
  PROVE  AllAccounted(s)
  <1>1. sync[f].fetches # <<>> /\ status[f] = 0 /\ FetchInv /\ Calm /\ SyncOK(sync)
    BY DownloadStopped, SeenFacts
  <1>2. PICK u : /\ QueueOver(MessagesOf(f), u) /\ Unlocked(u) /\ SameQueue(sync[f], u)
                 /\ \/ OnGroupDownloaded(f, u)
                    \/ OnFolderDownloaded(f, u)
                    \/ OnDownloadFailed(f, u)
    BY <1>1, DownloadStopped
  <1>3. Accounted(u)
    <2>1. Accounted(sync[f]) /\ u.fetches = <<>>
      BY <1>2, SeenFacts DEF AllAccounted, Unlocked
    <2>2. QED
      BY <1>2, <2>1, SamePartsAccounted DEF SameQueue
  <1>4. PICK q : q = mPriorityQ'
    OBVIOUS
  <1>5. q \in Seq(Folders)
    BY <1>2, <1>4, SeenFacts, UrlQueue
  <1>6. ASSUME NEW r, Accounted(r), AskedFrom(f, r, s, q)
        PROVE  AllAccounted(s)
    BY <1>5, <1>6, AskedFromAccounted
  <1>7. CASE OnDownloadFailed(f, u)
    <2>1. PICK r : r = TryCurrentGroupAgain(u)
      OBVIOUS
    <2>2. AskedFrom(f, r, s, q)
      BY <1>1, <1>2, <1>4, <1>7, <2>1, FailedFetch
    <2>3. Accounted(r)
      BY <1>2, <1>3, <2>1, AgainAccounted
    <2>4. QED
      BY <1>6, <2>2, <2>3
  <1>8. CASE OnGroupDownloaded(f, u)
    <2>1. PICK r : r = [u EXCEPT !.state = "readyToDownload", !.retries = 0]
      OBVIOUS
    <2>2. AskedFrom(f, r, s, q)
      BY <1>1, <1>2, <1>4, <1>8, <2>1, GroupFetched
    <2>3. /\ r.done = u.done /\ r.current = u.current /\ r.pending = u.pending
          /\ r.tried = u.tried /\ r.fetches = u.fetches
      BY <1>2, <2>1 DEF QueueOver, FolderRecord
    <2>4. Accounted(r)
      BY <1>3, <2>3, SamePartsAccounted
    <2>5. QED
      BY <1>6, <2>2, <2>4
  <1>9. CASE OnFolderDownloaded(f, u)
    <2>1. PICK v : v = [u EXCEPT !.retries = 0]
      OBVIOUS
    <2>2. PICK r : r = SetCompletedIdle(v)
      OBVIOUS
    <2>3. AskedFrom(f, r, s, q)
      BY <1>1, <1>2, <1>4, <1>9, <2>1, <2>2, FolderFetched
    <2>4. QueueOver(MessagesOf(f), v) /\ Unlocked(v)
      <3>1. 0 \in 0..GroupRetryCount
        BY ConstantsAssumption DEF ConstantsAssumption
      <3>2. QED
        BY <1>2, <2>1, <3>1 DEF Unlocked, QueueOver, FolderRecord
    <2>5. Accounted(r)
      BY <2>2, <2>4, CompletedAccounted
    <2>6. QED
      BY <1>6, <2>3, <2>5
  <1>10. QED
    BY <1>2, <1>7, <1>8, <1>9

\* A STATUS request ends: the queue stays or is emptied.
LEMMA StatusStopsAccounted ==
  ASSUME Undisturbed, SeenInv, NEW f \in Folders, NEW ok, NEW changed, StatusStops(f, ok, changed),
         NEW s, s = sync'
  PROVE  AllAccounted(s)
  <1>1. /\ sync[f].state = "statusIssued" /\ FolderOK(f, sync[f], mPriorityQ)
        /\ SyncOK(sync) /\ AllAccounted(sync)
    <2>1. status[f] > 0 /\ status[f] \in {0, 1} /\ (status[f] = 1 => sync[f].state = "statusIssued")
      BY SeenFacts, FetchInvFacts DEF StatusStops, StatusOK
    <2>2. QED
      BY <2>1, SeenFacts, FetchInvFacts DEF FetchOK
  <1>2. CASE changed
    <2>1. s = [sync EXCEPT ![f] = [sync[f] EXCEPT !.state = "updateIssued"]]
      BY <1>1, <1>2 DEF StatusStops, OnStopRunningUrl
    <2>2. s = [sync EXCEPT ![f].state = "updateIssued"]
      BY <1>1, <2>1 DEF SyncOK
    <2>3. QED
      BY <1>1, <2>2, StateAccounted
  <1>3. CASE ~changed
    <2>1. PICK r0 : r0 = sync[f]
      OBVIOUS
    <2>2. PICK r : r = SetCompletedIdle(r0)
      OBVIOUS
    <2>3. s = [sync EXCEPT ![f] = r]
      BY <1>1, <1>3, <2>1, <2>2 DEF StatusStops, OnStopRunningUrl
    <2>4. QueueOver(MessagesOf(f), r0) /\ Unlocked(r0)
      BY <1>1, <2>1 DEF SyncOK, FolderOK, Active, Overwritten
    <2>5. Accounted(r)
      BY <2>2, <2>4, CompletedAccounted
    <2>6. QED
      BY <1>1, <2>3, <2>5, ExceptAccounted
  <1>4. QED
    BY <1>2, <1>3

LEMMA SelectStopsAccounted ==
  ASSUME Undisturbed, SeenInv, NEW f \in Folders, SelectStops(f), NEW s, s = sync'
  PROVE  AllAccounted(s)
  <1>1. SyncOK(sync) /\ AllAccounted(sync)
    BY SeenFacts
  <1>2. PICK r : r = [sync[f] EXCEPT !.locked = FALSE]
    OBVIOUS
  <1>3. s = [sync EXCEPT ![f] = r]
    BY <1>1, <1>2 DEF SelectStops, SyncOK
  <1>4. QueueOver(MessagesOf(f), sync[f])
    BY <1>1 DEF SyncOK
  <1>5. /\ r.done = sync[f].done /\ r.current = sync[f].current /\ r.pending = sync[f].pending
        /\ r.tried = sync[f].tried /\ r.fetches = sync[f].fetches
    BY <1>2, <1>4 DEF QueueOver, FolderRecord
  <1>6. QED
    BY <1>1, <1>3, <1>5, OneRecordAccounted

LEMMA HeadersAccounted ==
  ASSUME Undisturbed, SeenInv, NEW f \in Folders, HeaderFetchCompleted(f), NEW s, s = sync'
  PROVE  AllAccounted(s)
  <1>1. MayLookAt(f)
    BY DEF HeaderFetchCompleted
  <1>2. Unlocked(sync[f])
    BY <1>1, SeenFacts, LookedAt
  <1>3. PICK keys : keys = WithoutBody(MessagesOf(f))
    OBVIOUS
  <1>4. keys \in SUBSET MessagesOf(f)
    BY <1>3 DEF WithoutBody
  <1>5. PICK p : p = PlaceIntoDownloadQ(f, keys)
    OBVIOUS
  <1>6. s = p.sync \/ s = sync
    BY <1>3, <1>5 DEF HeaderFetchCompleted
  <1>7. AllAccounted(p.sync)
    BY <1>2, <1>4, <1>5, SeenFacts, PlacedAccounted
  <1>8. QED
    BY <1>6, <1>7, SeenFacts

LEMMA TimerAccounted ==
  ASSUME Undisturbed, SeenInv, TimerCallback, NEW s, s = sync'
  PROVE  AllAccounted(s)
  <1>1. mDiscoveryQ # <<>> /\ Head(mDiscoveryQ) \in alive => Unlocked(sync[Head(mDiscoveryQ)])
    <2>1. ASSUME mDiscoveryQ # <<>>, Head(mDiscoveryQ) \in alive
          PROVE  Unlocked(sync[Head(mDiscoveryQ)])
      <3>1. PICK f : f = Head(mDiscoveryQ)
        OBVIOUS
      <3>2. f \in Folders /\ MayLookAt(f)
        BY <2>1, <3>1, SeenFacts DEF TimerCallback
      <3>3. QED
        BY <3>1, <3>2, SeenFacts, LookedAt
    <2>2. QED
      BY <2>1
  <1>2. PICK p : p = ProcessDiscoveryQ
    OBVIOUS
  <1>3. PICK u : u = p.sync
    OBVIOUS
  <1>4. AllAccounted(u)
    BY <1>1, <1>2, <1>3, SeenFacts, DiscoveryAccounted
  <1>5. SyncOK(u) /\ ProcessUpdateQ(u)
    BY <1>2, <1>3, SeenFacts, TimerDiscovers
  <1>6. CASE s = u
    BY <1>4, <1>6
  <1>7. CASE mUpdateQ # <<>> /\ InitiateAutoSync(u, Head(mUpdateQ))
    <2>1. PICK f : f = Head(mUpdateQ)
      OBVIOUS
    <2>2. f \in Folders
      BY <1>7, <2>1, SeenFacts, FetchInvFacts
    <2>3. \/ s = u
          \/ s = [u EXCEPT ![f].state = "updateIssued"]
          \/ s = [u EXCEPT ![f].state = "statusIssued"]
      BY <1>7, <2>1 DEF InitiateAutoSync
    <2>4. QED
      BY <1>4, <1>5, <2>2, <2>3, StateAccounted
  <1>8. QED
    BY <1>5, <1>6, <1>7 DEF ProcessUpdateQ

\* A message on its way from "future" to "server" to "header" is in no queue
\* yet, one whose body is stored or that is deleted is looked for no more.
FurtherOn(m) ==
  \/ where'[m] = where[m]
  \/ where[m] \in {"future", "server"}
  \/ where'[m] \in {"offline", "deleted"}

LEMMA FurtherAccounted ==
  ASSUME NEW s, SyncOK(s), AllAccounted(s), \A m \in Messages : FurtherOn(m), sync' = s
  PROVE  AllAccounted(sync)'
  <1>1. ASSUME NEW f \in Folders, NEW r, r = s[f] PROVE Accounted(r)'
    <2>1. Accounted(r) /\ QueueOver(MessagesOf(f), r)
      BY <1>1 DEF AllAccounted, SyncOK
    <2>2. r.done \cup r.current \cup r.pending \subseteq Messages
      BY <2>1 DEF QueueOver, FolderRecord, MessagesOf
    <2>3. \A m \in r.done \cup r.current \cup r.pending :
            /\ where'[m] \in {"header", "offline", "deleted"}
            /\ where'[m] = "header" => where[m] = "header"
      BY <2>1, <2>2 DEF Accounted, FurtherOn
    <2>4. QED
      BY <2>1, <2>3 DEF Accounted
  <1>2. QED
    BY <1>1 DEF AllAccounted

LEMMA MovedOn ==
  ASSUME where \in [Messages -> {"future", "server", "header", "offline", "deleted"}],
         [Next]_vars
  PROVE  \A m \in Messages : FurtherOn(m)
  <1>1. CASE where' = where
    BY <1>1 DEF FurtherOn
  <1>2. ASSUME NEW m \in Messages, HeaderParsed(m) \/ MessageArrives(m)
                                     \/ OnFolderHasPendingMsgs(Home[m], m)
        PROVE  \A n \in Messages : FurtherOn(n)
    BY <1>2 DEF HeaderParsed, MessageArrives, OnFolderHasPendingMsgs, FurtherOn
  <1>3. ASSUME NEW m \in Messages, MessageDeleted(m) \/ \E f \in Folders : BodyStored(f, m)
        PROVE  \A n \in Messages : FurtherOn(n)
    BY <1>3 DEF MessageDeleted, BodyStored, FurtherOn
  <1>4. ASSUME NEW f \in Folders, FolderDeleted(f)
        PROVE  \A n \in Messages : FurtherOn(n)
    BY <1>4 DEF FolderDeleted, FurtherOn
  <1>5. CASE \/ Idle \/ UserBack \/ StartupDone \/ GoOnline \/ TimerCallback \/ GoOffline
             \/ UNCHANGED vars
    BY <1>1, <1>5 DEF Idle, AppIdle, SystemIdle, UserBack, Back, StartupDone, GoOnline,
                      TimerCallback, GoOffline, vars, world
  <1>6. ASSUME NEW f \in Folders, UrlProgress(f)
        PROVE  \A n \in Messages : FurtherOn(n)
    <2>1. CASE \/ HeaderFetchCompleted(f) \/ SelectStops(f)
               \/ \E ok, changed \in BOOLEAN : StatusStops(f, ok, changed)
               \/ \E ok \in BOOLEAN : DownloadStops(f, ok)
      BY <1>1, <2>1 DEF HeaderFetchCompleted, SelectStops, StatusStops, DownloadStops, world
    <2>2. CASE \E m \in MessagesOf(f) : HeaderParsed(m) \/ BodyStored(f, m)
      BY <1>2, <1>3, <2>2 DEF MessagesOf
    <2>3. QED
      BY <1>6, <2>1, <2>2 DEF UrlProgress
  <1>7. CASE Surroundings
    <2>1. CASE \E f \in Folders : UserOpens(f) \/ UserCloses(f)
      BY <1>1, <2>1 DEF UserOpens, UserCloses
    <2>2. QED
      BY <1>2, <1>3, <1>4, <1>5, <1>7, <2>1 DEF Surroundings
  <1>8. QED
    BY <1>5, <1>6, <1>7 DEF Next

LEMMA InitSeen == Undisturbed /\ Init => SeenInv
  <1> SUFFICES ASSUME Undisturbed, Init PROVE SeenInv
    OBVIOUS
  <1>1. \A f \in Folders : /\ sync[f].done = {} /\ sync[f].current = {} /\ sync[f].pending = {}
                           /\ sync[f].fetches = <<>>
    BY DEF Init
  <1>2. DOMAIN <<>> = {}
    OBVIOUS
  <1>3. AllAccounted(sync)
    BY <1>1, <1>2 DEF AllAccounted, Accounted
  <1>4. QED
    BY <1>3, InitFetch DEF SeenInv

LEMMA NextSeen ==
  ASSUME Undisturbed, SeenInv, [Next]_vars
  PROVE  SeenInv'
  <1>1. FetchInv'
    BY SeenFacts, NextFetch
  <1>2. PICK s : s = sync'
    OBVIOUS
  <1>3. SyncOK(s)
    BY <1>1, <1>2 DEF FetchInv, Typed, IInv
  <1>4. SyncOK(sync) /\ AllAccounted(sync)
    BY SeenFacts
  <1>5. AllAccounted(s)
    <2>1. CASE s = sync
      BY <1>4, <2>1
    <2>2. CASE Idle
      BY <1>2, <2>2, SeenFacts, IdleAccounted
    <2>3. CASE UserBack \/ StartupDone \/ GoOnline \/ GoOffline \/ UNCHANGED vars
      BY <1>2, <2>1, <2>3 DEF UserBack, Back, StartupDone, GoOnline, GoOffline, vars
    <2>4. CASE TimerCallback
      BY <1>2, <2>4, TimerAccounted
    <2>5. ASSUME NEW f \in Folders, UrlProgress(f) PROVE AllAccounted(s)
      <3>1. CASE HeaderFetchCompleted(f)
        BY <1>2, <3>1, HeadersAccounted
      <3>2. CASE SelectStops(f)
        BY <1>2, <3>2, SelectStopsAccounted
      <3>3. CASE \E ok, changed \in BOOLEAN : StatusStops(f, ok, changed)
        BY <1>2, <3>3, StatusStopsAccounted
      <3>4. CASE \E ok \in BOOLEAN : DownloadStops(f, ok)
        BY <1>2, <3>4, DownloadStopsAccounted
      <3>5. CASE \E m \in MessagesOf(f) : HeaderParsed(m) \/ BodyStored(f, m)
        BY <1>2, <2>1, <3>5 DEF HeaderParsed, BodyStored
      <3>6. QED
        BY <2>5, <3>1, <3>2, <3>3, <3>4, <3>5 DEF UrlProgress
    <2>6. ASSUME NEW m \in Messages, OnFolderHasPendingMsgs(Home[m], m) PROVE AllAccounted(s)
      <3>1. PICK f : f = Home[m]
        OBVIOUS
      <3>2. f \in Folders
        BY <3>1, ConstantsAssumption DEF ConstantsAssumption
      <3>3. s = [sync EXCEPT ![f].state = "updateNeeded"]
        BY <1>2, <2>6, <3>1 DEF OnFolderHasPendingMsgs
      <3>4. QED
        BY <1>4, <3>2, <3>3, StateAccounted
    <2>7. CASE \/ \E m \in Messages : MessageArrives(m) \/ MessageDeleted(m)
               \/ \E f \in Folders : UserOpens(f) \/ UserCloses(f) \/ FolderDeleted(f)
      BY <1>2, <2>1, <2>7 DEF MessageArrives, MessageDeleted, UserOpens, UserCloses, FolderDeleted
    <2>8. QED
      BY <2>2, <2>3, <2>4, <2>5, <2>6, <2>7 DEF Next, Surroundings
  <1>6. \A m \in Messages : FurtherOn(m)
    BY MovedOn DEF SeenInv, FetchInv, Typed, UrlsTyped, FlagsTyped, QueuesTyped
  <1>7. AllAccounted(sync)'
    BY <1>2, <1>3, <1>5, <1>6, FurtherAccounted
  <1>8. QED
    BY <1>1, <1>7 DEF SeenInv

\* A body that is still missing is never passed in the download queue without
\* having been asked for, unless the message is over the limit for a user who is
\* there: its group is postponed, and passed when its retries are used up.  What
\* is queued behind a message that is refused is not lost with it.
THEOREM NothingIsSkipped ==
  ASSUME Undisturbed, GroupSize <= FirstGroupSizeLimit
  PROVE  Spec => []NothingSkippedUntried
  <1>1. Undisturbed /\ Init => SeenInv
    BY InitSeen
  <1>2. Undisturbed /\ SeenInv /\ [Next]_vars => SeenInv'
    BY NextSeen
  <1>3. Roomy
    BY DEF Roomy
  <1>4. Roomy /\ SeenInv => NothingSkippedUntried
    BY DEF SeenInv, AllAccounted, Accounted, NothingSkippedUntried
  <1>5. QED
    BY <1>1, <1>2, <1>3, <1>4, PTL DEF Spec

\* What the failed group held is pending again, and nothing of that is lost when
\* the folder or a sibling is asked next.
LEMMA FailureSeeksAgain ==
  ASSUME Undisturbed, SeenInv, NEW f \in Folders, DownloadStops(f, FALSE),
         sync[f].retries < GroupRetryCount, NEW m \in Head(sync[f].fetches), where[m] = "header",
         NEW s, s = sync'
  PROVE  Sought(m, s[f])
  <1>1. /\ sync[f].fetches # <<>> /\ status[f] = 0 /\ FetchInv /\ Calm /\ SyncOK(sync)
        /\ AllAccounted(sync)
    BY DownloadStopped, SeenFacts
  <1>2. PICK u : /\ QueueOver(MessagesOf(f), u) /\ Unlocked(u) /\ SameQueue(sync[f], u)
                 /\ OnDownloadFailed(f, u)
    BY <1>1, DownloadStopped
  <1>3. Accounted(u)
    <2>1. Accounted(sync[f]) /\ u.fetches = <<>>
      BY <1>1, <1>2 DEF AllAccounted, Unlocked
    <2>2. QED
      BY <1>2, <2>1, SamePartsAccounted DEF SameQueue
  <1>4. PICK q : q = mPriorityQ'
    OBVIOUS
  <1>5. q \in Seq(Folders)
    BY <1>2, <1>4, SeenFacts, UrlQueue
  <1>6. PICK r : r = TryCurrentGroupAgain(u)
    OBVIOUS
  <1>7. AskedFrom(f, r, s, q)
    BY <1>1, <1>2, <1>4, <1>6, FailedFetch
  <1>8. Accounted(r)
    BY <1>2, <1>3, <1>6, AgainAccounted
  <1>9. \A n \in Fetchable(r.pending) : Sought(n, s[f])
    BY <1>5, <1>7, <1>8, AskedFromAccounted
  <1>10. r.pending = u.current \cup u.pending
    <2>1. u.retries = sync[f].retries /\ u.retries \in Nat /\ GroupRetryCount \in Nat
      BY <1>2, ConstantsAssumption DEF SameQueue, ConstantsAssumption, QueueOver, FolderRecord
    <2>2. ~(u.retries + 1 > GroupRetryCount)
      BY <2>1
    <2>3. QED
      BY <1>2, <1>6, <2>2 DEF TryCurrentGroupAgain, QueueOver, FolderRecord
  <1>11. Size[m] > 0 /\ m \in sync[f].current \cup sync[f].pending
    <2>1. sync[f].fetches \in Seq(SUBSET MessagesOf(f)) /\ Accounted(sync[f])
      BY <1>1 DEF SyncOK, QueueOver, FolderRecord, AllAccounted
    <2>2. PICK list : list = sync[f].fetches
      OBVIOUS
    <2>3. 1 \in DOMAIN list /\ Head(list) = list[1]
      BY <1>1, <2>1, <2>2
    <2>4. QED
      BY <2>1, <2>2, <2>3 DEF Accounted
  <1>12. m \in Fetchable(r.pending)
    BY <1>2, <1>10, <1>11 DEF Fetchable, SameQueue
  <1>13. QED
    BY <1>9, <1>12

\* The messages of a group that failed are asked for again, at once or later,
\* until the retries are used up: Rollback goes back to that very group, and
\* none of it gets lost when the manager turns to a sibling first.
THEOREM FailedGroupIsAskedAgain ==
  ASSUME Undisturbed
  PROVE  Spec => SameGroupAgain
  <1>1. Undisturbed /\ Init => SeenInv
    BY InitSeen
  <1>2. Undisturbed /\ SeenInv /\ [Next]_vars => SeenInv'
    BY NextSeen
  <1>3. Undisturbed /\ SeenInv =>
          \A f \in Folders :
            DownloadStops(f, FALSE) /\ sync[f].retries < GroupRetryCount
              => \A m \in Head(sync[f].fetches) :
                   where[m] = "header" =>
                     \/ m \in sync'[f].pending
                     \/ \E i \in DOMAIN sync'[f].fetches : m \in sync'[f].fetches[i]
    <2> SUFFICES ASSUME Undisturbed, SeenInv, NEW f \in Folders, DownloadStops(f, FALSE),
                        sync[f].retries < GroupRetryCount, NEW m \in Head(sync[f].fetches),
                        where[m] = "header"
                 PROVE  \/ m \in sync'[f].pending
                        \/ \E i \in DOMAIN sync'[f].fetches : m \in sync'[f].fetches[i]
      OBVIOUS
    <2>1. PICK s : s = sync'
      OBVIOUS
    <2>2. Sought(m, s[f])
      BY <2>1, FailureSeeksAgain
    <2>3. QED
      BY <2>1, <2>2 DEF Sought
  <1>4. QED
    BY <1>1, <1>2, <1>3, PTL DEF Spec, SameGroupAgain
==============================================================================
