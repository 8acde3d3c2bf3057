----------------------------- MODULE Compaction ------------------------------
(***************************************************************************)
(* Compaction of local (Berkeley mailbox) folders: nsFolderCompactState    *)
(* with what else touches the files of a folder, that is POP3 delivery,    *)
(* the parser that rebuilds a summary, and deletion by the user.           *)
(*                                                                         *)
(* All of them run on the main thread and share a folder's semaphore.  A   *)
(* step is a stretch of code between two returns to the event loop or      *)
(* between two file operations, since the program may die there: while a   *)
(* compactor is in a phase of MainThread nothing else runs, but the        *)
(* program may still crash.                                                *)
(***************************************************************************)
EXTENDS Integers, Sequences, FiniteSets, Functions

CONSTANTS
  Folders,      \* local folders; after a crash their mailboxes are recreated
  Temps,        \* numbers of the unique names nstmp, nstmp-1, ...
  Msgs,         \* messages
  Compactors,   \* nsFolderCompactState objects
  NoMailbox,    \* a name without a mailbox file
  NoSummary,    \* a name without a usable .msf file
  FirstMail,    \* per folder: its messages at the start, none deleted
  Behaviours,   \* see AllBehaviours
  MaxCrashes    \* bound: crashes in a behaviour

(***************************************************************************)
(* Behaviours of the code around the compactor:                            *)
(*   fileFails   removing a file or moving the summary fails               *)
(*   diskFull    the last write to the temporary file is lost at Flush     *)
(*   streamFails reading the mailbox fails or is cancelled                 *)
(*   parseFails  the parser ends with an error                             *)
(*   deletes     the user deletes messages while their folder is compacted *)
(*   moveFails   moving the temporary file over the mailbox fails          *)
(*   initFails   opening a database or creating the temporary file fails   *)
(*   startFails  CopyMessages fails before the first message               *)
(*   again       a folder that waits for its compaction is asked for again *)
(***************************************************************************)
AllBehaviours == {"fileFails", "diskFull", "streamFails", "parseFails",
                  "deletes", "moveFails", "initFails", "startFails", "again"}

Names == Folders \cup Temps

\* The owners of a semaphore that are not compactors; nobody is NULL.
Others == {"nobody", "delivery", "parser"}

Mailbox == [msgs: Seq(Msgs), expunged: SUBSET Msgs]
Headers == [Msgs -> Nat]

\* The offset of a row that a database keeps from an earlier mailbox, told by
\* the messages that were in front of it.
Offsets == SUBSET Msgs

\* at: the rows of the mailbox's own messages; stray: those of an earlier one.
Summary == [at: Headers, size: SUBSET Msgs, stray: SUBSET Offsets]

ASSUME CompactionAssumption ==
  /\ Temps \subseteq Nat
  /\ Folders \cap Temps = {}
  /\ Compactors \cap Others = {}
  /\ NoMailbox \notin Mailbox
  /\ NoSummary \notin Summary
  /\ FirstMail \in [Folders -> Seq(Msgs)]
  /\ \A f, g \in Folders :
       \A i \in DOMAIN FirstMail[f], j \in DOMAIN FirstMail[g] :
         FirstMail[f][i] = FirstMail[g][j] => f = g /\ i = j
  /\ Behaviours \subseteq AllBehaviours
  /\ MaxCrashes \in Nat

VARIABLES
  mbox,       \* per name: the mailbox file, messages in file order
  summary,    \* per name: the .msf file
  holder,     \* per folder: mSemaphoreHolder
  reparse,    \* per folder: mReparseListener
  comp,       \* per compactor: its state
  crashes,    \* number of crashes so far
  deleted,    \* ghost: messages the user has deleted
  heir,       \* ghost: per folder, temporary files about to be its mailbox
  lost        \* ghost: messages a crash left in a temporary file alone

files == <<mbox, summary>>
locks == <<holder, reparse>>
ghosts == <<deleted, heir, lost>>
vars == <<mbox, summary, holder, reparse, comp, crashes, deleted, heir, lost>>
------------------------------------------------------------------------------
(***************************************************************************)
(* Mailboxes and summaries.  The position of a message in the sequence is  *)
(* its offset, 0 in a summary stands for no header; a deleted message      *)
(* stays in the file, flagged Expunged.  The size of a file is the set of  *)
(* the messages in it: two mailboxes with different messages are taken to  *)
(* differ in size.                                                         *)
(***************************************************************************)
EmptyMailbox == [msgs |-> <<>>, expunged |-> {}]
NoHeaders == [m \in Msgs |-> 0]
Keys(h) == {m \in Msgs : h[m] # 0}

Size(n) == IF mbox[n] = NoMailbox THEN {} ELSE Range(mbox[n].msgs)

Live(n) == IF mbox[n] = NoMailbox THEN {}
           ELSE Range(mbox[n].msgs) \ mbox[n].expunged

\* IsSummaryFileValid: the recorded size is compared with the mailbox's; the
\* time stamps may differ by more than an hour (mail.db_timestamp_leeway).
Valid(f) == summary[f] # NoSummary /\ summary[f].size = Size(f)

\* The summary has rows that belong to no message of the mailbox.
Mixed(f) == summary[f] # NoSummary /\ summary[f].stray # {}

\* The headers h list the live messages of the mailbox b, each at its offset.
Describes(h, b) ==
  \A m \in Msgs : IF m \in Range(b.msgs) \ b.expunged
                  THEN h[m] \in DOMAIN b.msgs /\ b.msgs[h[m]] = m
                  ELSE h[m] = 0

\* The headers the parser writes.
TrueHeaders(b) ==
  [m \in Msgs |-> IF m \in Range(b.msgs) \ b.expunged
                  THEN CHOOSE i \in DOMAIN b.msgs : b.msgs[i] = m ELSE 0]

\* GetDatabaseWOReparse: the database is open already during a delivery, and
\* opening it fails while the folder is parsed or when it is out of date.
Opens(f) == holder[f] # "parser" /\ (Valid(f) \/ holder[f] = "delivery")

\* m_expungedBytes of the folder.
HasExpunged(f) == mbox[f] # NoMailbox /\ mbox[f].expunged # {}

\* CreateUnique: the first of nstmp, nstmp-1, ... that does not exist.
CreateUnique(t) ==
  /\ t \in Temps
  /\ mbox[t] = NoMailbox
  /\ \A s \in Temps : s < t => mbox[s] # NoMailbox

\* The offsets of the rows h.
Rows(h) == {{n \in Keys(h) : h[n] < h[m]} : m \in Keys(h)}

\* InitDB: the rows the new database has before any header is copied.  One
\* that a crash left under the temporary name is opened with no folder to
\* compare it with: CheckForErrors reads a flag that nobody has set, and takes
\* the database as it is or makes a new one.
InitDB(t) ==
  {{}} \cup (IF summary[t] = NoSummary THEN {}
             ELSE {Rows(summary[t].at) \cup summary[t].stray})
------------------------------------------------------------------------------
(***************************************************************************)
(* Compactors.  In the phases of MainThread a compactor does not return to *)
(* the event loop: Compact itself, and FinishCompact with its file         *)
(* operations.  folder is m_folder, rest the folders of m_folderArray      *)
(* still to come, temp is m_file, keys m_keyArray (with the offsets), todo *)
(* the keys from m_curIndex on, headers and stray the rows of m_db,        *)
(* counted the messages whose size is in m_totalMsgSize.                   *)
(***************************************************************************)
FileOps == {"removeSummary", "removeMailbox", "moveMailbox", "moveSummary",
            "reopen"}
MainThread == {"compact", "finish"} \cup FileOps

Idle == [phase |-> "idle"]
Waiting == [phase: {"compact", "parsing", "stuck"}, folder: Folders,
            rest: SUBSET Folders]
Working == [phase: {"copying", "finish"} \cup FileOps, folder: Folders,
            rest: SUBSET Folders, temp: Temps, keys: Headers,
            todo: SUBSET Msgs, headers: Headers, stray: SUBSET Offsets,
            counted: SUBSET Msgs]

MainThreadFree == \A c \in Compactors : comp[c].phase \notin MainThread

Become(c, r) == comp' = [comp EXCEPT ![c] = r]
Enter(c, p) == Become(c, [comp[c] EXCEPT !.phase = p])

About(f, S, p) == [phase |-> p, folder |-> f, rest |-> S]

\* The folders the compactor is at work on or will come to.
Asked(c) == IF comp[c] = Idle THEN {} ELSE {comp[c].folder} \cup comp[c].rest

\* CompactNextFolder, or CompactCompleted when there is none.
CompactNextFolder(c) ==
  \/ comp[c].rest = {} /\ Become(c, Idle)
  \/ \E f \in comp[c].rest : Become(c, About(f, comp[c].rest \ {f}, "compact"))

\* ReleaseFolderLock: only a holder releases.
ReleaseFolderLock(c) ==
  holder' = [f \in Folders |->
               IF f = comp[c].folder /\ holder[f] = c THEN "nobody" ELSE holder[f]]

\* CleanupTempFilesAfterError, and the end of FinishCompact after a failure.
CleanupTempFiles(c) ==
  /\ mbox' = [mbox EXCEPT ![comp[c].temp] = NoMailbox]
  /\ summary' = [summary EXCEPT ![comp[c].temp] = NoSummary]

GiveUpFolder(c) ==
  /\ CleanupTempFiles(c)
  /\ ReleaseFolderLock(c)
  /\ CompactNextFolder(c)
  /\ UNCHANGED <<reparse, crashes>>
------------------------------------------------------------------------------
Init ==
  /\ mbox = [n \in Names |->
               IF n \in Folders THEN [msgs |-> FirstMail[n], expunged |-> {}]
                                ELSE NoMailbox]
  /\ summary = [n \in Names |->
                  IF n \in Folders
                  THEN [at |-> TrueHeaders(mbox[n]), size |-> Range(FirstMail[n]),
                        stray |-> {}]
                  ELSE NoSummary]
  /\ holder = [f \in Folders |-> "nobody"]
  /\ reparse = [f \in Folders |-> "nobody"]
  /\ comp = [c \in Compactors |-> Idle]
  /\ crashes = 0
  /\ deleted = {}
  /\ heir = [f \in Folders |-> {}]
  /\ lost = {}
------------------------------------------------------------------------------
(***************************************************************************)
(* Compact.                                                                *)
(***************************************************************************)

\* CompactAll collects the folders that have something to give back;
\* CompactFolder asks for one of them.
CompactFolders(c, S) ==
  /\ MainThreadFree
  /\ comp[c] = Idle
  /\ \A f \in S : HasExpunged(f)
  /\ "again" \in Behaviours \/ \A d \in Compactors : S \cap Asked(d) = {}
  /\ \E f \in S : Become(c, About(f, S \ {f}, "compact"))
  /\ UNCHANGED <<files, locks, crashes, ghosts>>

\* The database is missing or out of date: Compact asks for a reparse and waits
\* to be called back, also when ParseFolder was refused because of the semaphore.
ParseFirst(c) ==
  LET f == comp[c].folder IN
  /\ comp[c].phase = "compact"
  /\ ~Opens(f)
  /\ reparse' = [reparse EXCEPT ![f] = c]
  /\ holder' = [holder EXCEPT ![f] = IF @ = "nobody" THEN "parser" ELSE @]
  /\ Enter(c, "parsing")
  /\ UNCHANGED <<files, crashes, ghosts>>

\* The database is open and out of date: the folder is left alone.
SkipFolder(c) ==
  /\ comp[c].phase = "compact"
  /\ Opens(comp[c].folder)
  /\ ~Valid(comp[c].folder)
  /\ CompactNextFolder(c)
  /\ UNCHANGED <<files, locks, crashes, ghosts>>

\* Init creates the temporary files before the semaphore is tested.
DeniedLock(c) ==
  /\ comp[c].phase = "compact"
  /\ Opens(comp[c].folder) /\ Valid(comp[c].folder)
  /\ holder[comp[c].folder] # "nobody"
  /\ \E t \in Temps :
       /\ CreateUnique(t)
       /\ mbox' = [mbox EXCEPT ![t] = NoMailbox]
       /\ summary' = [summary EXCEPT ![t] = NoSummary]
  /\ CompactNextFolder(c)
  /\ UNCHANGED <<locks, crashes, ghosts>>

\* The database does not open for another reason, or Init cannot make the
\* temporary files: Compact returns, and the other folders are forgotten.
CompactFails(c) ==
  /\ "initFails" \in Behaviours
  /\ comp[c].phase = "compact"
  /\ \/ UNCHANGED files
     \/ /\ Opens(comp[c].folder) /\ Valid(comp[c].folder)
        /\ \E t \in Temps :
             CreateUnique(t) /\ summary' = [summary EXCEPT ![t] = NoSummary]
        /\ UNCHANGED mbox
  /\ Become(c, Idle)
  /\ UNCHANGED <<locks, crashes, ghosts>>

\* Init, InitDB and AcquireSemaphore.  What the program makes of a folder with
\* a mixed summary is left out.
Acquire(c, t, old) ==
  LET f == comp[c].folder IN
  /\ comp[c].phase = "compact"
  /\ Opens(f) /\ Valid(f)
  /\ ~Mixed(f)
  /\ holder[f] = "nobody"
  /\ CreateUnique(t)
  /\ old \in InitDB(t)
  /\ holder' = [holder EXCEPT ![f] = c]
  /\ mbox' = [mbox EXCEPT ![t] = EmptyMailbox]
  /\ summary' = [summary EXCEPT ![t] = [at |-> NoHeaders, size |-> {}, stray |-> old]]
  /\ UNCHANGED <<reparse, crashes, ghosts>>

\* StartCompacting goes straight on to FinishCompact when nothing is copied.
StartCompacting(c) ==
  \E t \in Temps : \E old \in InitDB(t) :
    /\ Acquire(c, t, old)
    /\ Become(c, [phase |-> IF summary[comp[c].folder].at = NoHeaders
                            THEN "finish" ELSE "copying",
                  folder |-> comp[c].folder, rest |-> comp[c].rest, temp |-> t,
                  keys |-> summary[comp[c].folder].at,
                  todo |-> Keys(summary[comp[c].folder].at),
                  headers |-> NoHeaders, stray |-> old, counted |-> {}])

\* CopyMessages returns an error: the object is never released.
StartFails(c) ==
  /\ "startFails" \in Behaviours
  /\ \E t \in Temps : \E old \in InitDB(t) : Acquire(c, t, old)
  /\ summary[comp[c].folder].at # NoHeaders
  /\ Enter(c, "stuck")
------------------------------------------------------------------------------
(***************************************************************************)
(* Copying: the mailbox is streamed message by message, and the event loop *)
(* runs in between.                                                        *)
(***************************************************************************)
\* The message that is streamed among those of S: keys ascend with offsets.
IsNext(c, m, S) == m \in S /\ \A n \in S : comp[c].keys[m] <= comp[c].keys[n]

HeaderGone(c, m) == summary[comp[c].folder].at[m] = 0

\* What the stream delivers for m: the message at the offset of its key.
Streamed(c, m) == mbox[comp[c].folder].msgs[comp[c].keys[m]]

\* Mutant: m_curIndex is not moved on.
CopiedMutant(c, m, S, p) ==
  IF HeaderGone(c, m)
  THEN [comp[c] EXCEPT !.phase = p]
  ELSE [comp[c] EXCEPT !.phase = p,
          !.headers[m] = Len(mbox[comp[c].temp].msgs) + 1,
          !.stray = @ \ {Size(comp[c].temp)},
          !.counted = @ \cup {m}]

\* OnDataAvailable and EndCopy.  The header of a message deleted meanwhile is
\* empty: it adds no header and nothing to m_totalMsgSize.  The key of the new
\* row is its offset, so it takes the place of an old one with that offset.
Copied(c, m, S, p) ==
  IF HeaderGone(c, m)
  THEN [comp[c] EXCEPT !.phase = p, !.todo = S]
  ELSE [comp[c] EXCEPT !.phase = p, !.todo = S,
          !.headers[m] = Len(mbox[comp[c].temp].msgs) + 1,
          !.stray = @ \ {Size(comp[c].temp)},
          !.counted = @ \cup {m}]

AppendToTemp(c, m) ==
  mbox' = [mbox EXCEPT ![comp[c].temp].msgs = Append(@, Streamed(c, m))]

EndCopy(c) ==
  /\ MainThreadFree
  /\ comp[c].phase = "copying"
  /\ \E m \in comp[c].todo :
       LET left == comp[c].todo \ {m} IN
       /\ IsNext(c, m, comp[c].todo)
       /\ \A n \in left : IsNext(c, n, left) => ~HeaderGone(c, n)
       /\ AppendToTemp(c, m)
       /\ Become(c, Copied(c, m, left, IF left = {} THEN "finish" ELSE "copying"))
  /\ UNCHANGED <<summary, locks, crashes, ghosts>>

\* The next header is gone: nsMailboxProtocol ends the request after EndCopy,
\* and OnStopRequest calls EndCopy once more, which skips the missing message.
\* Unless that was the last one the compactor gives up, for all its folders.
NextIsGone(c) ==
  /\ MainThreadFree
  /\ comp[c].phase = "copying"
  /\ \E m, n \in comp[c].todo :
       /\ IsNext(c, m, comp[c].todo)
       /\ IsNext(c, n, comp[c].todo \ {m})
       /\ HeaderGone(c, n)
       /\ \/ /\ comp[c].todo = {m, n}
             /\ AppendToTemp(c, m)
             /\ Become(c, Copied(c, m, {}, "finish"))
             /\ UNCHANGED <<summary, holder>>
          \/ /\ comp[c].todo # {m, n}
             /\ CleanupTempFiles(c)
             /\ ReleaseFolderLock(c)
             /\ Become(c, Idle)
  /\ UNCHANGED <<reparse, crashes, ghosts>>

\* Mutant: the semaphore is kept after an error of the stream.
StreamFailsMutant(c) ==
  /\ "streamFails" \in Behaviours
  /\ MainThreadFree
  /\ comp[c].phase = "copying"
  /\ CleanupTempFiles(c)
  /\ Become(c, Idle)
  /\ UNCHANGED <<locks, crashes, ghosts>>

\* OnStopRequest with an error: the destructor removes the temporary files,
\* and the other folders are forgotten.
StreamFails(c) ==
  /\ "streamFails" \in Behaviours
  /\ MainThreadFree
  /\ comp[c].phase = "copying"
  /\ CleanupTempFiles(c)
  /\ ReleaseFolderLock(c)
  /\ Become(c, Idle)
  /\ UNCHANGED <<reparse, crashes, ghosts>>
------------------------------------------------------------------------------
(***************************************************************************)
(* FinishCompact, one action per file operation.                           *)
(***************************************************************************)
\* What Flush leaves in the temporary file; its result is not looked at.
Flushed(s) ==
  {s} \cup (IF "diskFull" \in Behaviours /\ s # <<>>
            THEN {SubSeq(s, 1, Len(s) - 1)} ELSE {})

\* What ForceClosed writes of m_db.
NewSummary(c) == [at |-> comp[c].headers, size |-> {}, stray |-> comp[c].stray]

\* Mutant: the size of the temporary file is not compared.
FinishCompactMutant(c) ==
  LET t == comp[c].temp IN
  /\ comp[c].phase = "finish"
  /\ \E kept \in Flushed(mbox[t].msgs) :
       mbox' = [mbox EXCEPT ![t].msgs = kept]
  /\ summary' = [summary EXCEPT ![t] = NewSummary(c)]
  /\ Enter(c, "removeSummary")
  /\ UNCHANGED <<locks, crashes, ghosts>>

\* ForceClosed commits m_db; m_totalMsgSize is compared with the file's size.
FinishCompact(c) ==
  LET t == comp[c].temp IN
  /\ comp[c].phase = "finish"
  /\ \E kept \in Flushed(mbox[t].msgs) :
       \/ /\ Range(kept) = comp[c].counted
          /\ mbox' = [mbox EXCEPT ![t].msgs = kept]
          /\ summary' = [summary EXCEPT ![t] = NewSummary(c)]
          /\ Enter(c, "removeSummary")
          /\ UNCHANGED <<locks, crashes>>
       \/ Range(kept) # comp[c].counted /\ GiveUpFolder(c)
  /\ UNCHANGED ghosts

RemoveSummary(c) ==
  /\ comp[c].phase = "removeSummary"
  /\ \/ /\ summary' = [summary EXCEPT ![comp[c].folder] = NoSummary]
        /\ Enter(c, "removeMailbox")
        /\ UNCHANGED <<mbox, locks, crashes>>
     \/ "fileFails" \in Behaviours /\ GiveUpFolder(c)
  /\ UNCHANGED ghosts

RemoveMailbox(c) ==
  /\ comp[c].phase = "removeMailbox"
  /\ \/ /\ mbox' = [mbox EXCEPT ![comp[c].folder] = NoMailbox]
        /\ heir' = [heir EXCEPT ![comp[c].folder] = @ \cup {comp[c].temp}]
        /\ Enter(c, "moveMailbox")
        /\ UNCHANGED <<summary, locks, crashes, deleted, lost>>
     \/ "fileFails" \in Behaviours /\ GiveUpFolder(c) /\ UNCHANGED ghosts

MoveMailbox(c) ==
  LET f == comp[c].folder  t == comp[c].temp IN
  /\ comp[c].phase = "moveMailbox"
  /\ heir' = [heir EXCEPT ![f] = @ \ {t}]
  /\ UNCHANGED <<deleted, lost>>
  /\ \/ /\ mbox' = [mbox EXCEPT ![f] = mbox[t], ![t] = NoMailbox]
        /\ Enter(c, "moveSummary")
        /\ UNCHANGED <<summary, locks, crashes>>
     \/ "moveFails" \in Behaviours /\ GiveUpFolder(c)

MoveSummary(c) ==
  LET f == comp[c].folder  t == comp[c].temp IN
  /\ comp[c].phase = "moveSummary"
  /\ \/ /\ summary' = [summary EXCEPT ![f] = summary[t], ![t] = NoSummary]
        /\ Enter(c, "reopen")
        /\ UNCHANGED <<mbox, locks, crashes>>
     \/ "fileFails" \in Behaviours /\ GiveUpFolder(c)
  /\ UNCHANGED ghosts

\* The lock is released, the new database opened and set valid.
Reopen(c) ==
  LET f == comp[c].folder IN
  /\ comp[c].phase = "reopen"
  /\ summary' = [summary EXCEPT ![f].size = Size(f)]
  /\ ReleaseFolderLock(c)
  /\ CompactNextFolder(c)
  /\ UNCHANGED <<mbox, reparse, crashes, ghosts>>
------------------------------------------------------------------------------
(***************************************************************************)
(* The others that work on the files of a folder.                          *)
(***************************************************************************)
\* GetDatabaseWithReparse, when the user opens a folder that is out of date.
OpenFolder(f) ==
  /\ MainThreadFree
  /\ mbox[f] # NoMailbox /\ ~Valid(f) /\ holder[f] = "nobody"
  /\ holder' = [holder EXCEPT ![f] = "parser"]
  /\ reparse' = [reparse EXCEPT ![f] = "nobody"]
  /\ UNCHANGED <<files, comp, crashes, ghosts>>

\* DoneParsingFolder, then OnStopRunningUrl of the folder and the compactor
\* that is its listener, which compacts the folder or goes on to the next.
ParseDone(f, ok) ==
  /\ MainThreadFree
  /\ holder[f] = "parser"
  /\ summary' = [summary EXCEPT ![f] =
                   IF ok
                   THEN [at |-> TrueHeaders(mbox[f]), size |-> Size(f), stray |-> {}]
                   ELSE NoSummary]
  /\ holder' = [holder EXCEPT ![f] = "nobody"]
  /\ reparse' = [reparse EXCEPT ![f] = "nobody"]
  /\ \/ reparse[f] = "nobody" /\ UNCHANGED comp
     \/ \E c \in Compactors :
          /\ reparse[f] = c
          /\ IF ok THEN Enter(c, "compact") ELSE CompactNextFolder(c)
  /\ UNCHANGED <<mbox, crashes, ghosts>>

Parsed(f) == mbox[f] # NoMailbox /\ ParseDone(f, TRUE)
ParseFails(f) ==
  /\ "parseFails" \in Behaviours \/ mbox[f] = NoMailbox
  /\ ParseDone(f, FALSE)

\* nsPop3Sink::BeginMailDelivery; biff and GetNewMessages look at the summary.
BeginMailDelivery(f) ==
  /\ MainThreadFree
  /\ Valid(f) /\ holder[f] = "nobody"
  /\ holder' = [holder EXCEPT ![f] = "delivery"]
  /\ UNCHANGED <<files, reparse, comp, crashes, ghosts>>

IncorporateMessage(f, m) ==
  /\ MainThreadFree
  /\ holder[f] = "delivery"
  /\ \A n \in Names : m \notin Size(n)
  /\ m \notin deleted \cup lost
  /\ mbox' = [mbox EXCEPT ![f].msgs = Append(@, m)]
  /\ summary' = [summary EXCEPT ![f].at[m] = Len(mbox[f].msgs) + 1]
  /\ UNCHANGED <<locks, comp, crashes, ghosts>>

\* EndMailDelivery, or AbortMailDelivery when the connection is lost.
EndMailDelivery(f) ==
  /\ MainThreadFree
  /\ holder[f] = "delivery"
  /\ summary' = [summary EXCEPT ![f].size = Size(f)]
  /\ holder' = [holder EXCEPT ![f] = "nobody"]
  /\ UNCHANGED <<mbox, reparse, comp, crashes, ghosts>>

\* DeleteMessages with deleteStorage: nobody asks for the semaphore.  The
\* message is flagged in the file and its header removed; EnableNotifications
\* marks the database valid.
DeleteMessage(f, m) ==
  /\ MainThreadFree
  /\ Opens(f)
  /\ holder[f] \in Compactors => "deletes" \in Behaviours
  /\ summary[f].at[m] # 0
  /\ mbox' = [mbox EXCEPT ![f].expunged = @ \cup {mbox[f].msgs[summary[f].at[m]]}]
  /\ summary' = [summary EXCEPT ![f].at[m] = 0, ![f].size = Size(f)]
  /\ deleted' = deleted \cup {m}
  /\ UNCHANGED <<locks, comp, crashes, heir, lost>>

\* The program dies and is started again: CreateDefaultMailboxes creates the
\* mailboxes that are missing; whatever was in memory is gone.  Nobody looks
\* for a mailbox in the temporary files that are left.
Crash ==
  /\ crashes < MaxCrashes
  /\ crashes' = crashes + 1
  /\ comp' = [c \in Compactors |-> Idle]
  /\ holder' = [f \in Folders |-> "nobody"]
  /\ reparse' = [f \in Folders |-> "nobody"]
  /\ mbox' = [n \in Names |-> IF n \in Folders /\ mbox[n] = NoMailbox
                              THEN EmptyMailbox ELSE mbox[n]]
  /\ lost' = lost \cup UNION {Live(t) : t \in UNION Range(heir)}
  /\ heir' = [f \in Folders |-> {}]
  /\ UNCHANGED <<summary, deleted>>
------------------------------------------------------------------------------
CompactorStep(c) ==
  \/ ParseFirst(c) \/ CompactFails(c) \/ SkipFolder(c) \/ DeniedLock(c)
  \/ StartCompacting(c) \/ StartFails(c)
  \/ FinishCompact(c) \/ RemoveSummary(c) \/ RemoveMailbox(c) \/ MoveMailbox(c)
  \/ MoveSummary(c) \/ Reopen(c)

StreamStep(c) == EndCopy(c) \/ NextIsGone(c) \/ StreamFails(c)

FolderStep(f) ==
  \/ OpenFolder(f) \/ Parsed(f) \/ ParseFails(f)
  \/ BeginMailDelivery(f) \/ EndMailDelivery(f)
  \/ \E m \in Msgs : IncorporateMessage(f, m) \/ DeleteMessage(f, m)

Next ==
  \/ \E c \in Compactors :
       \/ CompactFolders(c, {f \in Folders : HasExpunged(f)})
       \/ \E f \in Folders : CompactFolders(c, {f})
       \/ CompactorStep(c) \/ StreamStep(c)
  \/ \E f \in Folders : FolderStep(f)
  \/ Crash

Spec == Init /\ [][Next]_vars

\* The code that runs goes on, and the event loop serves every stream, parser
\* and connection that has something to deliver.
Fairness ==
  /\ \A c \in Compactors : WF_vars(CompactorStep(c)) /\ SF_vars(StreamStep(c))
  /\ \A f \in Folders : SF_vars(Parsed(f) \/ ParseFails(f)) /\ SF_vars(EndMailDelivery(f))

FairSpec == Spec /\ Fairness
------------------------------------------------------------------------------
\* Files, locks and compactors are well formed, and no message is twice in a
\* mailbox file.
TypeOK ==
  /\ mbox \in [Names -> Mailbox \cup {NoMailbox}]
  /\ \A n \in Names : mbox[n] # NoMailbox =>
       IsInjective(mbox[n].msgs) /\ mbox[n].expunged \subseteq Range(mbox[n].msgs)
  /\ summary \in [Names -> Summary \cup {NoSummary}]
  /\ holder \in [Folders -> Compactors \cup Others]
  /\ reparse \in [Folders -> Compactors \cup {"nobody"}]
  /\ comp \in [Compactors -> {Idle} \cup Waiting \cup Working]
  /\ crashes \in 0..MaxCrashes
  /\ deleted \subseteq Msgs
  /\ heir \in [Folders -> SUBSET Temps]
  /\ lost \subseteq Msgs

\* A summary the program will trust without a reparse has every live message of
\* its mailbox at its offset, and no other message of that mailbox: otherwise a
\* folder would show one message and open another.
SummaryAgrees ==
  \A f \in Folders :
    mbox[f] # NoMailbox /\ Valid(f) => Describes(summary[f].at, mbox[f])

\* "Make sure the new database is valid", FinishCompact says before it closes it:
\* a summary that is trusted has no row of an earlier compaction's mailbox.  The
\* run CompactStale finds this violated.
NewDatabaseIsValid ==
  \A f \in Folders : holder[f] = "nobody" /\ Valid(f) => ~Mixed(f)

\* The mail of a folder is in its mailbox, or in the file about to replace it
\* between the two file operations that do so.
MailOf(f) == Live(f) \cup UNION {Live(t) : t \in heir[f]}

Store == INSTANCE MailStore WITH
           mail <- [f \in Folders |-> MailOf(f)],
           stranded <- lost,
           FirstMail <- [f \in Folders |-> Range(FirstMail[f])]

\* Whatever is compacted, reparsed or interrupted, a folder shows no message again
\* that was deleted, and loses none, unless the program dies after the mailbox is
\* removed and before the copy has its name: then one folder loses all its mail.
MailStoreSpec == Store!Spec

\* A compactor gives the folder's semaphore back, whatever goes wrong.
Holds(c) == \E f \in Folders : holder[f] = c
LocksReleased == \A c \in Compactors : Holds(c) ~> ~Holds(c)
==============================================================================
