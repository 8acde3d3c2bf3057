--------------------------- MODULE ImapConnections ---------------------------
(***************************************************************************)
(* The connections of one IMAP server: nsImapIncomingServer, which keeps a *)
(* cache of them and a queue of URLs, and the part of nsImapProtocol that  *)
(* takes a URL, runs it in a thread of its own, and ends or retries it.    *)
(*                                                                         *)
(* What runs on the main thread, called there or proxied to it, is one     *)
(* step: no other call comes between.  Only the turns of the loop of       *)
(* LoadNextQueuedUrl are steps of their own.  What a connection does by    *)
(* itself is divided where another thread may see the difference.          *)
(***************************************************************************)
EXTENDS Integers, Sequences, FiniteSets, SequencesExt, SequenceFilter

CONSTANTS
  Urls,
  Kind,            \* per URL: see Kinds
  FolderOf,        \* per URL: the folder it is about
  Local,           \* URLs that the offline store may answer
  Folders,
  Inbox,
  NoFolder,
  NoUrl,
  Connections,     \* identities; that of a dead connection is used again
  NoConnection,
  MaxConnections,  \* the limit the user has set
  Behaviours,      \* see AllBehaviours
  MaxEvents        \* bound: how many of the events happen, once each

\* "select": needs its folder selected; "prefer": does not, but CanHandleUrl
\* pretends so (create, delete, rename, append, status); "subscribe": about
\* subscriptions; "plain": any other.
Kinds == {"select", "prefer", "subscribe", "plain"}

(***************************************************************************)
(* Behaviours of the surroundings:                                         *)
(*   suspends     a folder has more headers than are fetched in one go     *)
(*   selectFails  the server refuses to select a folder                    *)
(*   searches     a draft is appended to a server without UIDPLUS          *)
(*   idles        connections that do nothing get too old                  *)
(*   hangs        connections that are busy get too old                    *)
(*   closes       a folder is closed, or connections to it are             *)
(*   loses        the connection is lost                                   *)
(*   badEnd       a login fails, or an answer cannot be parsed             *)
(*   returns      a URL is not valid, or opens a window of its own         *)
(*   setupFails   a new connection gets no streams                         *)
(*   cancels      the user, or a window that closes, cancels a URL         *)
(*   offline      the program goes offline, and comes back                 *)
(***************************************************************************)
AllBehaviours == {"suspends", "selectFails", "searches", "idles", "hangs", "closes",
                  "loses", "badEnd", "returns", "setupFails", "cancels", "offline"}

ASSUME ImapAssumption ==
  /\ Kind \in [Urls -> Kinds] /\ FolderOf \in [Urls -> Folders]
  /\ Local \subseteq Urls
  /\ Inbox \in Folders /\ NoFolder \notin Folders
  /\ NoUrl \notin Urls /\ NoConnection \notin Connections
  /\ MaxConnections \in Nat \ {0}
  /\ Behaviours \subseteq AllBehaviours
  /\ MaxEvents \in Nat

VARIABLES
  queue,       \* m_urlQueue
  cache,       \* m_connectionCache
  conn,        \* per connection: see Fresh
  told,        \* per URL: what its listener knows
  cancelled,   \* URLs whose channel has an error
  rerunning,   \* URLs that are run for the second time
  suspended,   \* URLs that were suspended
  online,
  loop,        \* who called LoadNextQueuedUrl, while it runs
  events       \* the events so far, members of Behaviours

vars == <<queue, cache, conn, told, cancelled, rerunning, suspended, online, loop,
          events>>
------------------------------------------------------------------------------
Absent == [phase |-> "none", url |-> NoUrl, retry |-> NoUrl, ready |-> FALSE, busy |-> FALSE,
           die |-> FALSE, transport |-> "none", status |-> "ok", sel |-> NoFolder, more |-> FALSE]

\* url is m_runningUrl, ready m_nextUrlReadyToRun, busy m_urlInProgress, die
\* m_threadShouldDie, sel the selected mailbox, more the URL's
\* m_moreHeadersToDownload.
Fresh == [Absent EXCEPT !.phase = "wait"]

Init ==
  /\ queue = <<>> /\ cache = <<>>
  /\ conn = [c \in Connections |-> Absent]
  /\ told = [u \in Urls |-> "new"]
  /\ cancelled = {} /\ rerunning = {} /\ suspended = {}
  /\ online = TRUE
  /\ loop = NoConnection
  /\ events = {}

MainThreadFree == loop = NoConnection

MayHappen(b) == b \in Behaviours \ events /\ Cardinality(events) < MaxEvents

Happens(b) == MayHappen(b) /\ events' = events \cup {b}

\* SetUrlState of the URL: what is known already is not told again.
SetUrlState(u, state) == told' = [told EXCEPT ![u] = state]

Started(u) ==
  IF told[u] = "started" \/ u \in rerunning THEN UNCHANGED told ELSE SetUrlState(u, "started")

Stopped(u) ==
  IF told[u] = "started" THEN SetUrlState(u, "stopped") ELSE UNCHANGED told
------------------------------------------------------------------------------
(***************************************************************************)
(* nsImapIncomingServer: which connection takes a URL.                     *)
(***************************************************************************)
\* Mutant: the folder that is about to be selected is not considered.
PendingFolderMutant(c) == NoFolder

\* The folder that the running URL is going to select.
PendingFolder(c) ==
  LET u == conn[c].url IN
  IF conn[c].busy /\ u # NoUrl /\ Kind[u] = "select" THEN FolderOf[u] ELSE NoFolder

\* DeathSignalReceived.
Dying(c) == conn[c].die \/ conn[c].url \in cancelled

OnFolderOf(c, u) == FolderOf[u] \in {conn[c].sel, PendingFolder(c)}

CanRun(c, u) ==
  /\ ~conn[c].busy
  /\ \/ Kind[u] = "plain"
     \/ Kind[u] \in {"select", "prefer"} /\ OnFolderOf(c, u)

\* Mutant: a connection is waited for only by URLs about subscriptions.
HasToWaitMutant(c, u) ==
  conn[c].busy /\ Kind[u] = "subscribe" /\ conn[c].url # NoUrl /\ Kind[conn[c].url] = "subscribe"

HasToWait(c, u) ==
  /\ conn[c].busy
  /\ \/ Kind[u] \in {"select", "prefer"} /\ OnFolderOf(c, u)
     \/ Kind[u] = "subscribe" /\ conn[c].url # NoUrl /\ Kind[conn[c].url] = "subscribe"

CanHandleUrl(c, u) == ~Dying(c) /\ (CanRun(c, u) \/ HasToWait(c, u))

IsFree(c) ==
  /\ ~Dying(c) /\ ~conn[c].busy
  /\ conn[c].sel # Inbox \/ MaxConnections <= 1

\* ConnectionTimeOut: a connection that never got a transport has no time stamp
\* and is too old, and so are those in old.
TooOld(c, old) == conn[c].transport = "none" \/ c \in old

\* The sets of connections that may be too old now: one that does nothing, or
\* for b = "hangs" one that is busy, or none.
MayBeOld(b) ==
  {{}} \cup {{c} : c \in {d \in Range(cache) : MayHappen(b) /\ conn[d].busy = (b = "hangs")
                                           /\ (b = "idles" => conn[d].phase = "wait")}}

\* The loop of GetImapConnection goes backwards through the cache until a
\* connection can take the URL or has it wait; it closes those it finds too old.
Usable(old) == {i \in DOMAIN cache : ~TooOld(cache[i], old)}
Hit(u, old) == Max({0} \cup {i \in Usable(old) : CanHandleUrl(cache[i], u)})
Closed(hit, old) == {cache[i] : i \in (hit + 1)..Len(cache) \ Usable(old)}
Free(hit, old) == {i \in Usable(old) : i > hit /\ IsFree(cache[i])}

\* The last one with no folder selected, or else the first one found.
BestFree(free) ==
  LET neutral == {i \in free : conn[cache[i]].sel = NoFolder} IN
  cache[IF neutral # {} THEN Min(neutral) ELSE Max(free)]

\* Bound: there is an identity left.
Unused == {c \in Connections : conn[c].phase = "none"}
NewConnection == CHOOSE c \in Unused : TRUE

Found(u, hit, free, left) ==
  LET mayMake == left < MaxConnections /\ (free = {} \/ Kind[u] = "select") IN
  CASE hit # 0 /\ CanRun(cache[hit], u) -> cache[hit]
    [] hit = 0 /\ mayMake -> NewConnection
    [] hit = 0 /\ ~mayMake /\ free # {} -> BestFree(free)
    [] OTHER -> NoConnection

\* TellThreadToDie(bool), called on the main thread, for each of dying.
TellThreadToDie(cs, dying) ==
  [c \in Connections |-> IF c \in dying THEN [cs[c] EXCEPT !.die = TRUE, !.ready = TRUE] ELSE cs[c]]

\* LoadImapUrl of the connection that was found, if any.  There is none; or it
\* runs the URL; or the offline store answers, and the connection is left as it
\* is; or a new connection cannot be set up.
Given(u, outcome, cs, closed, to) ==
  LET new == to # NoConnection /\ conn[to].phase = "none"
      base == IF new THEN Fresh ELSE conn[to]
      with(state) == [TellThreadToDie(cs, closed) EXCEPT ![to] = state]
  IN
  /\ cache' = IF new THEN Append(Without(cache, closed), to) ELSE Without(cache, closed)
  /\ (to = NoConnection) = (outcome = "none")
  /\ \/ outcome = "none" /\ conn' = TellThreadToDie(cs, closed)
     \/ outcome = "runs" /\ conn' = with([base EXCEPT !.url = u, !.busy = TRUE, !.ready = TRUE,
                                    !.transport = IF @ = "none" THEN "new" ELSE @])
     \/ outcome = "local" /\ u \in Local /\ conn' = with(base)
     \/ outcome = "fails" /\ new /\ conn' = with([base EXCEPT !.url = u, !.busy = TRUE])

\* GetImapConnection, and LoadImapUrl of what it finds.
LoadImapUrl(u, outcome, cs) ==
  /\ Unused # {}
  /\ outcome = "fails" => MayHappen("setupFails")
  /\ \E b \in {"idles", "hangs"} : \E old \in MayBeOld(b) :
     \E hit \in {Hit(u, old)} : \E closed \in {Closed(hit, old)} :
       /\ Given(u, outcome, cs, closed,
                Found(u, hit, Free(hit, old), Len(Without(cache, closed))))
       /\ events' = events \cup (IF outcome = "fails" THEN {"setupFails"} ELSE {})
                            \cup (IF old # {} THEN {b} ELSE {})

\* GetImapConnectionAndLoadUrl, which queues the URL if there is no connection
\* and then serves the queue.
GetImapConnectionAndLoadUrl(u) ==
  /\ MainThreadFree
  /\ told[u] = "new"
  /\ online \/ u \in Local
  /\ \/ /\ LoadImapUrl(u, "none", conn)
        /\ SetUrlState(u, "asked")
        /\ queue' = Append(queue, u) /\ loop' = "main"
     \/ /\ \E o \in {<<"runs", "asked">>, <<"local", "stopped">>, <<"fails", "refused">>} :
             LoadImapUrl(u, o[1], conn) /\ SetUrlState(u, o[2])
        /\ UNCHANGED <<queue, loop>>
  /\ UNCHANGED <<cancelled, rerunning, suspended, online>>

\* One turn of LoadNextQueuedUrl.
LoadNextQueuedUrl ==
  /\ ~MainThreadFree
  /\ \/ /\ queue = <<>> \/ ~online
        /\ loop' = NoConnection
        /\ UNCHANGED <<queue, cache, conn, told, events>>
     \/ /\ queue # <<>> /\ online
        /\ LET u == Head(queue) IN
           \/ /\ u \in cancelled
              /\ SetUrlState(u, "stopped")
              /\ queue' = Tail(queue)
              /\ UNCHANGED <<cache, conn, loop, events>>
           \/ /\ u \notin cancelled
              /\ \/ LoadImapUrl(u, "none", conn) /\ loop' = NoConnection /\ UNCHANGED <<queue, told>>
                 \/ /\ LoadImapUrl(u, "runs", conn) /\ loop' = NoConnection
                    /\ queue' = Tail(queue) /\ UNCHANGED told
                 \/ /\ LoadImapUrl(u, "local", conn) /\ SetUrlState(u, "stopped")
                    /\ queue' = Tail(queue) /\ UNCHANGED loop
                 \/ /\ LoadImapUrl(u, "fails", conn)
                    /\ queue' = Tail(queue) /\ UNCHANGED <<told, loop>>
  /\ UNCHANGED <<cancelled, rerunning, suspended, online>>
------------------------------------------------------------------------------
(***************************************************************************)
(* nsImapIncomingServer: the other calls on the main thread.               *)
(***************************************************************************)
\* Cancel of the channel, which a URL that waits after it was suspended has
\* lost.
Cancel(u) ==
  /\ MainThreadFree /\ Happens("cancels")
  /\ told[u] \in {"asked", "started"} /\ u \notin cancelled
  /\ LET on == {c \in Connections : u \in {conn[c].url, conn[c].retry} /\ conn[c].phase # "release"} IN
     /\ on # {} \/ u \in Range(queue) \ suspended
     /\ conn' = TellThreadToDie(conn, on)
     /\ cache' = Without(cache, on)
  /\ cancelled' = cancelled \cup {u}
  /\ UNCHANGED <<queue, told, rerunning, suspended, online, loop>>

\* CloseConnectionForFolder: the first connection on the folder, unless busy.
CloseConnectionForFolder(f) ==
  /\ MainThreadFree /\ Happens("closes")
  /\ LET on == {i \in DOMAIN cache : conn[cache[i]].sel = f} IN
     /\ on # {} /\ ~conn[cache[Min(on)]].busy
     /\ conn' = TellThreadToDie(conn, {cache[Min(on)]})
     /\ cache' = Without(cache, {cache[Min(on)]})
  /\ UNCHANGED <<queue, told, cancelled, rerunning, suspended, online, loop>>

\* The account manager closes all connections before the program goes offline.
GoOffline ==
  /\ MainThreadFree /\ Happens("offline")
  /\ online /\ online' = FALSE
  /\ conn' = TellThreadToDie(conn, Range(cache))
  /\ cache' = <<>>
  /\ UNCHANGED <<queue, told, cancelled, rerunning, suspended, loop>>

GoOnline ==
  /\ MainThreadFree
  /\ ~online /\ online' = TRUE
  /\ UNCHANGED <<queue, cache, conn, told, cancelled, rerunning, suspended, loop, events>>
------------------------------------------------------------------------------
(***************************************************************************)
(* nsImapProtocol: the thread of a connection.                             *)
(***************************************************************************)
In(c, phase) == conn[c].phase = phase

Becomes(c, record) == conn' = [conn EXCEPT ![c] = record]

Goes(c, phase) == Becomes(c, [conn[c] EXCEPT !.phase = phase])

Leaves(c) == cache' = Without(cache, {c})

\* The thread ends: Run drops the URL, CloseStreams takes the connection out of
\* the cache.
Ends(c) == Becomes(c, Absent) /\ Leaves(c)

\* ImapThreadMainLoop is told to stop, or finds its URL cancelled.
ThreadDies(c) ==
  /\ MainThreadFree
  /\ In(c, "wait") /\ Dying(c)
  /\ Ends(c)
  /\ UNCHANGED <<queue, told, cancelled, rerunning, suspended, online, loop, events>>

HasUrlToRun(c) == In(c, "wait") /\ conn[c].ready /\ ~conn[c].die /\ conn[c].url # NoUrl

\* ProcessCurrentURL up to the first command; that of a cancelled URL is not sent.
ProcessCurrentURL(c) ==
  /\ MainThreadFree
  /\ HasUrlToRun(c)
  /\ Becomes(c, [conn[c] EXCEPT !.phase = IF Dying(c) THEN "selected" ELSE "run", !.ready = FALSE,
                                !.transport = "used", !.status = "ok",
                                !.more = conn[c].url \in suspended])
  /\ Started(conn[c].url)
  /\ UNCHANGED <<queue, cache, cancelled, rerunning, suspended, online, loop, events>>

\* ProcessCurrentURL returns early, before or after it tells that the URL
\* starts, and leaves it on the connection, which is busy until it gets too old.
ReturnsEarly(c) ==
  /\ MainThreadFree /\ Happens("returns")
  /\ HasUrlToRun(c)
  /\ Becomes(c, [conn[c] EXCEPT !.ready = FALSE])
  /\ Started(conn[c].url) \/ UNCHANGED told
  /\ UNCHANGED <<queue, cache, cancelled, rerunning, suspended, online, loop>>

\* The server has closed the connection since it was last used, which is seen
\* before the URL is run, or when it leaves the idle mode.
FoundDead(c) ==
  /\ MainThreadFree /\ Happens("loses")
  /\ HasUrlToRun(c) /\ conn[c].transport = "used"
  /\ rerunning' = rerunning \ {conn[c].url}
  /\ Becomes(c, [conn[c] EXCEPT !.phase = "retry", !.ready = FALSE])
  /\ UNCHANGED <<queue, cache, told, cancelled, suspended, online, loop>>

\* GetMsgHdrsToDownload, once the folder f is selected, says whether there are
\* more headers than those that are fetched now.  Bound: once per URL.
MoreHeaders(c, f) ==
  LET u == conn[c].url
      selects == Kind[u] = "select" /\ f = FolderOf[u]
  IN {m \in BOOLEAN : \/ m = conn[c].more /\ (Dying(c) \/ ~selects)
                      \/ ~m /\ selects
                      \/ m /\ selects /\ "suspends" \in Behaviours /\ u \notin suspended}

\* What the URL does to the selected folder; a folder is closed before it is
\* deleted or renamed.  A URL with more headers is marked as run again, before
\* any header is fetched.
SelectMailbox(c) ==
  /\ In(c, "run")
  /\ LET u == conn[c].url
         sels == CASE Kind[u] = "select" ->
                        {FolderOf[u]} \cup (IF "selectFails" \in Behaviours THEN {NoFolder} ELSE {})
                   [] Kind[u] = "prefer" ->
                        {conn[c].sel} \cup (IF conn[c].sel = FolderOf[u] THEN {NoFolder} ELSE {})
                          \cup (IF "searches" \in Behaviours THEN {FolderOf[u]} ELSE {})
                   [] OTHER -> {conn[c].sel}
     IN \E s \in sels \cup (IF Dying(c) THEN {conn[c].sel} ELSE {}) : \E m \in MoreHeaders(c, s) :
          /\ Becomes(c, [conn[c] EXCEPT !.phase = "selected", !.sel = s, !.more = m])
          /\ rerunning' = IF m THEN rerunning \cup {u} ELSE rerunning
  /\ UNCHANGED <<queue, cache, told, cancelled, suspended, online, loop, events>>

\* CreateNewLineFromSocket and SendData: TellThreadToDie, and once per URL the
\* decision to run it again, unless it copies messages and took too long.
ConnectionLost(c) ==
  /\ Happens("loses")
  /\ conn[c].phase \in {"run", "selected"} /\ conn[c].transport = "used"
  /\ \E next \in IF conn[c].url \in rerunning THEN {"selected"} ELSE {"selected", "retry"} :
       /\ Becomes(c, [conn[c] EXCEPT !.phase = next, !.transport = "none", !.die = TRUE,
                                     !.status = "failed"])
       /\ rerunning' = IF next = "retry" THEN rerunning \cup {conn[c].url} ELSE rerunning
  /\ Leaves(c)
  /\ UNCHANGED <<queue, told, cancelled, suspended, online, loop>>

\* The login fails; or the parser does not understand an answer.
BadEnd(c) ==
  /\ Happens("badEnd")
  /\ In(c, "run")
  /\ \E s \in {"failed", "syntax"} :
       Becomes(c, [conn[c] EXCEPT !.phase = "selected", !.status = s])
  /\ UNCHANGED <<queue, cache, told, cancelled, rerunning, suspended, online, loop>>

\* suspendUrl: whatever became of the connection meanwhile.
Suspends(c) == Kind[conn[c].url] = "select" /\ conn[c].more

\* Mutant: the listener of a URL that is suspended is told that it ended.
UrlStopsMutant(c) ==
  /\ MainThreadFree
  /\ In(c, "selected")
  /\ LET u == conn[c].url IN
     /\ Stopped(u)
     /\ Goes(c, IF Suspends(c) THEN "suspend" ELSE "release")
  /\ UNCHANGED <<queue, cache, cancelled, rerunning, suspended, online, loop, events>>

\* SetUrlState(false) of the folder, which does not tell the listener of a URL
\* that is suspended.
UrlStops(c) ==
  /\ MainThreadFree
  /\ In(c, "selected")
  /\ LET u == conn[c].url IN
     \/ ~Suspends(c) /\ Stopped(u) /\ Goes(c, "release")
     \/ Suspends(c) /\ UNCHANGED told /\ Goes(c, "suspend")
  /\ UNCHANGED <<queue, cache, cancelled, rerunning, suspended, online, loop, events>>

SuspendUrl(c) ==
  /\ MainThreadFree
  /\ In(c, "suspend")
  /\ queue' = Append(queue, conn[c].url)
  /\ suspended' = suspended \cup {conn[c].url}
  /\ Goes(c, "release")
  /\ UNCHANGED <<cache, told, cancelled, rerunning, online, loop, events>>

\* Mutant: the URL is still that of the connection.
ReleaseUrlStateMutant(c) ==
  /\ In(c, "release")
  /\ Becomes(c, [conn[c] EXCEPT !.phase = "next", !.busy = FALSE])
  /\ UNCHANGED <<queue, cache, told, cancelled, rerunning, suspended, online, loop, events>>

ReleaseUrlState(c) ==
  /\ In(c, "release")
  /\ Becomes(c, [conn[c] EXCEPT !.phase = "next", !.url = NoUrl, !.busy = FALSE, !.more = FALSE])
  /\ UNCHANGED <<queue, cache, told, cancelled, rerunning, suspended, online, loop, events>>

\* Mutant: the queue is not served when a URL has ended.
ServeQueueMutant(c) ==
  /\ MainThreadFree
  /\ In(c, "next")
  /\ Goes(c, "after")
  /\ UNCHANGED <<queue, cache, told, cancelled, rerunning, suspended, online, loop, events>>

\* LoadNextQueuedUrl is called; or, after an error, AbortQueuedUrls.
ServeQueue(c) ==
  /\ MainThreadFree
  /\ In(c, "next")
  /\ Goes(c, "after")
  /\ \/ conn[c].status # "failed" /\ loop' = c /\ UNCHANGED <<queue, told>>
     \/ /\ conn[c].status = "failed"
        /\ queue' = Without(queue, cancelled)
        /\ told' = [u \in Urls |-> IF u \in Range(queue) \cap cancelled THEN "stopped" ELSE told[u]]
        /\ UNCHANGED loop
  /\ UNCHANGED <<cache, cancelled, rerunning, suspended, online, events>>

\* After an error the connection ends, with the URL it may have been given;
\* else it waits for the next.
NextTurn(c) ==
  /\ MainThreadFree
  /\ In(c, "after")
  /\ \/ conn[c].status # "ok" /\ Ends(c)
     \/ conn[c].status = "ok" /\ Goes(c, "wait") /\ UNCHANGED cache
  /\ UNCHANGED <<queue, told, cancelled, rerunning, suspended, online, loop, events>>

\* RetryUrl of the connection: it releases the URL, leaves the cache, and has
\* the server look for another connection.
ReleaseForRetry(c) ==
  /\ In(c, "retry")
  /\ Becomes(c, [conn[c] EXCEPT !.phase = "remove", !.retry = conn[c].url, !.url = NoUrl,
                                !.busy = FALSE])
  /\ UNCHANGED <<queue, cache, told, cancelled, rerunning, suspended, online, loop, events>>

RemoveConnection(c) ==
  /\ In(c, "remove")
  /\ Leaves(c)
  /\ Goes(c, "rerun")
  /\ UNCHANGED <<queue, told, cancelled, rerunning, suspended, online, loop, events>>

\* RetryUrl of the server, which forgets the URL when there is no connection.
RetryUrl(c) ==
  /\ MainThreadFree
  /\ In(c, "rerun")
  /\ LET u == conn[c].retry
         without == [conn EXCEPT ![c] = Absent]
     IN
     \/ \E o \in {"none", "runs", "fails"} : LoadImapUrl(u, o, without) /\ UNCHANGED told
     \/ LoadImapUrl(u, "local", without) /\ SetUrlState(u, "stopped")
  /\ UNCHANGED <<queue, cancelled, rerunning, suspended, online, loop>>

ThreadStep(c) ==
  \/ ThreadDies(c) \/ ProcessCurrentURL(c) \/ ReturnsEarly(c) \/ FoundDead(c)
  \/ SelectMailbox(c) \/ ConnectionLost(c) \/ BadEnd(c)
  \/ UrlStops(c) \/ SuspendUrl(c) \/ ReleaseUrlState(c)
  \/ ServeQueue(c) \/ NextTurn(c)
  \/ ReleaseForRetry(c) \/ RemoveConnection(c) \/ RetryUrl(c)
------------------------------------------------------------------------------
Next ==
  \/ \E u \in Urls : GetImapConnectionAndLoadUrl(u) \/ Cancel(u)
  \/ LoadNextQueuedUrl
  \/ \E f \in Folders : CloseConnectionForFolder(f)
  \/ GoOffline \/ GoOnline
  \/ \E c \in Connections : ThreadStep(c)

Spec == Init /\ [][Next]_vars

\* A thread runs; the server answers, or the connection fails; and what is
\* called on the main thread returns.
Fairness ==
  /\ WF_vars(LoadNextQueuedUrl)
  /\ \A c \in Connections : WF_vars(ThreadStep(c))

FairSpec == Spec /\ Fairness
------------------------------------------------------------------------------
\* No two connections of the cache have the same folder selected: the server
\* may not tell one of them what the other changes.  After a connection was lost
\* and a URL cancelled it may happen.
FolderOnOneConnection ==
  ~({"cancels", "loses"} \subseteq events) => \A i, j \in DOMAIN cache : i # j =>
    LET sel == conn[cache[i]].sel IN sel # NoFolder => sel # conn[cache[j]].sel

\* A URL is at one place, in the queue or on a connection that has not ended it:
\* it is never run twice at the same time, nor again while it runs.
Holders(u) == {c \in Connections : conn[c].url = u /\ conn[c].phase # "release"}
OnePlace ==
  \A u \in Urls :
    Cardinality(Holders(u)) + Cardinality({i \in DOMAIN queue : queue[i] = u}) <= 1

\* A URL with more headers is put into the queue before its connection has let
\* go of it: no other connection takes it from there meanwhile.
SuspendedUrlRests ==
  ~({"cancels", "loses"} \subseteq events) =>
    \A c \in Range(cache) :
      In(c, "release") /\ told[conn[c].url] \in {"asked", "started"} => Holders(conn[c].url) = {}

\* Listeners are told what they may expect.
Ledger == INSTANCE UrlLedger
LedgerSpec == Ledger!Spec

\* As long as no connection fails, every URL ends: none is forgotten in the
\* queue when the connections it could run on become free, are closed, grow old
\* or are used for others.
Harmless == {"idles", "closes"}
EveryUrlEnds ==
  \A u \in Urls : told[u] \in {"asked", "started"} ~> told[u] = "stopped" \/ ~(events \subseteq Harmless)
==============================================================================
