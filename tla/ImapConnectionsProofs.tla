----------------------- MODULE ImapConnectionsProofs -----------------------
(***************************************************************************)
(* What the connections of an IMAP server guarantee, for any URLs, folders *)
(* and connections, any limit, any behaviours and any number of events: a  *)
(* URL is at one place (OnePlace), its listener hears what it may expect   *)
(* (UrlLedger), and a folder is selected on one connection.                *)
(***************************************************************************)
EXTENDS ImapConnections, SequenceFilterProofs

Phases == {"none", "wait", "run", "selected", "suspend", "release", "next", "after",
           "retry", "remove", "rerun"}
States == {"new", "asked", "refused", "started", "stopped"}

ConnectionRecord ==
  [phase: Phases, url: Urls \cup {NoUrl}, retry: Urls \cup {NoUrl}, ready: BOOLEAN,
   busy: BOOLEAN, die: BOOLEAN, transport: {"none", "new", "used"},
   status: {"ok", "failed", "syntax"}, sel: Folders \cup {NoFolder}, more: BOOLEAN]

Marks ==
  /\ cancelled \subseteq Urls /\ rerunning \subseteq Urls /\ suspended \subseteq Urls
  /\ online \in BOOLEAN
  /\ loop \in Connections \cup {NoConnection, "main"}
  /\ events \subseteq Behaviours

Typed ==
  /\ queue \in Seq(Urls) /\ cache \in Seq(Connections)
  /\ conn \in [Connections -> ConnectionRecord]
  /\ told \in [Urls -> States]
  /\ Marks

\* What the phase of a connection says of its other fields.
RecordOK(r) ==
  /\ r.phase = "none" => r = Absent
  /\ r.busy = (r.url # NoUrl)
  /\ r.phase \in {"run", "selected", "suspend", "release", "retry"} => r.busy
  /\ r.retry # NoUrl <=> r.phase \in {"remove", "rerun"}

PhasesOK == \A c \in Connections : RecordOK(conn[c])

\* The cache has living connections only, each once.
CacheOK ==
  /\ \A i, j \in DOMAIN cache : cache[i] = cache[j] => i = j
  /\ \A c \in Range(cache) : conn[c].phase \notin {"none", "rerun"} /\ ~conn[c].die

\* The connection is going to run the URL, or runs it, or looks for another to
\* run it.
Holds(record, u) == (record.url = u /\ record.phase # "release") \/ record.retry = u
On(c, u) == Holds(conn[c], u)

PlacesOK ==
  /\ \A u \in Urls : \A c, d \in Connections : On(c, u) /\ On(d, u) => c = d
  /\ \A u \in Range(queue) : \A c \in Connections : ~On(c, u)
  /\ \A i, j \in DOMAIN queue : queue[i] = queue[j] => i = j
  /\ \A u \in Urls : told[u] = "new" =>
       /\ u \notin Range(queue)
       /\ \A c \in Connections : conn[c].url # u /\ conn[c].retry # u

Waiting == {"asked", "started"}

\* What the listeners of a connection's URLs know: t is told.
ToldOf(r, t) ==
  /\ r.retry # NoUrl => t[r.retry] \in Waiting
  /\ r.url # NoUrl /\ r.phase # "release" =>
       \/ t[r.url] \in Waiting
       \/ t[r.url] = "refused" /\ r.phase = "wait" /\ (~r.ready \/ r.die)
  /\ r.phase \in {"run", "selected", "suspend"} => t[r.url] = "started"

ToldOK ==
  /\ \A u \in Range(queue) : told[u] \in Waiting
  /\ \A u \in rerunning : told[u] \in {"started", "stopped"}
  /\ \A u \in cancelled : told[u] \notin {"new", "refused"}
  /\ \A c \in Connections : ToldOf(conn[c], told)

IInv == Typed /\ PhasesOK /\ CacheOK /\ PlacesOK /\ ToldOK

EventsOK ==
  /\ cancelled # {} => "cancels" \in events
  /\ \A c \in Connections :
       /\ conn[c].phase \in {"retry", "remove", "rerun"} => "loses" \in events
       /\ conn[c].phase = "suspend" => Kind[conn[c].url] = "select"

\* The connection has the folder selected, or is going to select it.
ClaimOn(r, f) ==
  \/ r.sel = f
  \/ r.busy /\ r.url # NoUrl /\ Kind[r.url] = "select" /\ FolderOf[r.url] = f

Exclusive ==
  \A c, d \in Range(cache) : \A f \in Folders :
    ClaimOn(conn[c], f) /\ ClaimOn(conn[d], f) => c = d

\* A URL that was suspended and is not released yet is nowhere else but in the
\* queue.
Resting ==
  \A c \in Range(cache) :
    conn[c].phase = "release" /\ told[conn[c].url] \in Waiting =>
      /\ Kind[conn[c].url] = "select" /\ conn[c].url \in suspended
      /\ \A d \in Connections : ~On(d, conn[c].url)

FoldersOK ==
  ~({"cancels", "loses"} \subseteq events) =>
     /\ Exclusive
     /\ \A c \in Range(cache) : conn[c].url \notin cancelled
     /\ Resting

FInv == EventsOK /\ FoldersOK
------------------------------------------------------------------------------
(***************************************************************************)
(* A record at a time.                                                     *)
(***************************************************************************)
LEMMA RecordFacts ==
  /\ Absent \in ConnectionRecord /\ Fresh \in ConnectionRecord
  /\ Absent.phase = "none" /\ Absent.url = NoUrl /\ Absent.retry = NoUrl /\ ~Absent.busy
  /\ ~Absent.die /\ ~Absent.ready /\ Absent.sel = NoFolder
  /\ Fresh.phase = "wait" /\ Fresh.url = NoUrl /\ Fresh.retry = NoUrl /\ ~Fresh.busy
  /\ ~Fresh.die /\ ~Fresh.ready /\ Fresh.sel = NoFolder /\ Fresh.transport = "none"
  BY DEF Absent, Fresh, ConnectionRecord, Phases

LEMMA AbsentKeeps ==
  /\ RecordOK(Absent)
  /\ \A t : ToldOf(Absent, t)
  /\ \A u \in Urls : ~Holds(Absent, u)
  <1>1. Absent.busy = FALSE
    BY DEF Absent
  <1>2. RecordOK(Absent)
    BY <1>1, RecordFacts DEF RecordOK
  <1>3. \A t : ToldOf(Absent, t)
    BY RecordFacts DEF ToldOf
  <1>4. \A u \in Urls : ~Holds(Absent, u)
    BY RecordFacts, ImapAssumption DEF Holds
  <1>5. QED
    BY <1>2, <1>3, <1>4

LEMMA BecomesRecord ==
  ASSUME Typed, NEW c \in Connections, NEW r \in ConnectionRecord, Becomes(c, r)
  PROVE  /\ conn' \in [Connections -> ConnectionRecord]
         /\ conn'[c] = r
         /\ \A d \in Connections : d # c => conn'[d] = conn[d]
  BY DEF Typed, Becomes

LEMMA ToldToDie ==
  ASSUME NEW cs \in [Connections -> ConnectionRecord], NEW dying
  PROVE  /\ TellThreadToDie(cs, dying) \in [Connections -> ConnectionRecord]
         /\ \A c \in Connections :
              /\ c \notin dying => TellThreadToDie(cs, dying)[c] = cs[c]
              /\ c \in dying => TellThreadToDie(cs, dying)[c] = [cs[c] EXCEPT !.die = TRUE, !.ready = TRUE]
  BY DEF TellThreadToDie, ConnectionRecord

(***************************************************************************)
(* LoadImapUrl.                                                            *)
(***************************************************************************)
\* The connection `to' is given the URL, or a new one is made of it, and those
\* in `closed' have been closed.
Loaded(u, o, cs, to, closed) ==
  LET base == IF conn[to].phase = "none" THEN Fresh ELSE conn[to] IN
  /\ closed \subseteq Range(cache)
  /\ (o = "none") = (to = NoConnection)
  /\ conn' \in [Connections -> ConnectionRecord]
  /\ \A c \in Connections : c # to =>
       /\ c \notin closed => conn'[c] = cs[c]
       /\ c \in closed => conn'[c] = [cs[c] EXCEPT !.die = TRUE, !.ready = TRUE]
  /\ o # "none" =>
       /\ to \in Connections /\ to \notin closed /\ ~conn[to].busy
       /\ conn[to].phase = "none" \/ to \in Range(cache)
       /\ \/ o = "runs" /\ conn'[to] = [base EXCEPT !.url = u, !.busy = TRUE, !.ready = TRUE,
                                         !.transport = IF @ = "none" THEN "new" ELSE @]
          \/ o = "local" /\ conn'[to] = base
          \/ o = "fails" /\ conn[to].phase = "none" /\ conn'[to] = [base EXCEPT !.url = u, !.busy = TRUE]
  /\ cache' = IF o # "none" /\ conn[to].phase = "none" THEN Append(Without(cache, closed), to)
              ELSE Without(cache, closed)
  /\ events \subseteq events' /\ events' \subseteq Behaviours
  /\ o = "local" => u \in Local
  /\ o # "none" /\ Kind[u] \in {"select", "prefer"} =>
       \A c \in Range(cache) : c \notin closed /\ ~Dying(c) /\ OnFolderOf(c, u) => CanRun(to, u)

\* The loop of GetImapConnection stops at a connection of the cache, or at none.
LEMMA HitInCache ==
  ASSUME Typed, NEW u, NEW old
  PROVE  /\ Hit(u, old) \in 0..Len(cache)
         /\ Hit(u, old) # 0 => Hit(u, old) \in Usable(old) /\ CanHandleUrl(cache[Hit(u, old)], u)
         /\ \A i \in Usable(old) : CanHandleUrl(cache[i], u) => i <= Hit(u, old)
  <1> DEFINE able == {i \in Usable(old) : CanHandleUrl(cache[i], u)}
  <1>1. Usable(old) \subseteq 1..Len(cache) /\ Len(cache) \in Nat
    BY DEF Usable, Typed
  <1> HIDE DEF able
  <1>2. able \subseteq Usable(old)
    BY DEF able
  <1>3. {0} \cup able \in SUBSET (0..Len(cache)) /\ IsFiniteSet(0..Len(cache))
    BY <1>1, <1>2, FS_Interval
  <1>4. IsFiniteSet({0} \cup able) /\ {0} \cup able \subseteq Int /\ {0} \cup able # {}
    BY <1>3, FS_Subset
  <1>5. Max({0} \cup able) \in {0} \cup able /\ \A k \in {0} \cup able : k <= Max({0} \cup able)
    BY <1>4, Extremes
  <1>6. Hit(u, old) = Max({0} \cup able)
    BY DEF Hit, able
  <1>7. QED
    BY <1>1, <1>2, <1>3, <1>5, <1>6 DEF able

LEMMA BestIsFree ==
  ASSUME Typed, NEW free, free \subseteq DOMAIN cache, free # {}
  PROVE  \E i \in free : BestFree(free) = cache[i]
  <1> DEFINE neutral == {i \in free : conn[cache[i]].sel = NoFolder}
  <1>1. DOMAIN cache = 1..Len(cache) /\ Len(cache) \in Nat
    BY DEF Typed
  <1>2. IsFiniteSet(1..Len(cache)) /\ free \in SUBSET (1..Len(cache))
    BY <1>1, FS_Interval
  <1>3. neutral \in SUBSET free /\ BestFree(free) = cache[IF neutral # {} THEN Min(neutral) ELSE Max(free)]
    BY DEF BestFree
  <1> HIDE DEF neutral
  <1>4. IsFiniteSet(free) /\ free \subseteq Int
    BY <1>2, FS_Subset
  <1>5. IsFiniteSet(neutral) /\ neutral \subseteq Int
    BY <1>3, <1>4, FS_Subset
  <1>6. Max(free) \in free
    BY <1>4, Extremes
  <1>7. neutral # {} => Min(neutral) \in neutral
    BY <1>5, Extremes
  <1>8. QED
    BY <1>3, <1>6, <1>7

LEMMA LoadImapUrlEffect ==
  ASSUME Typed, PhasesOK, CacheOK, NEW u \in Urls, NEW o,
         NEW cs \in [Connections -> ConnectionRecord], LoadImapUrl(u, o, cs)
  PROVE  \E to, closed : Loaded(u, o, cs, to, closed)
  <1>1. PICK b, old, hit, closed, to :
          /\ old \in MayBeOld(b)
          /\ hit = Hit(u, old) /\ closed = Closed(hit, old)
          /\ to = Found(u, hit, Free(hit, old), Len(Without(cache, closed)))
          /\ Given(u, o, cs, closed, to)
          /\ events' = events \cup (IF o = "fails" THEN {"setupFails"} ELSE {})
                               \cup (IF old # {} THEN {b} ELSE {})
    BY DEF LoadImapUrl
  <1>2. PICK free : free = Free(hit, old)
    OBVIOUS
  <1>3. /\ DOMAIN cache = 1..Len(cache) /\ Len(cache) \in Nat
        /\ \A i \in DOMAIN cache : cache[i] \in Range(cache) /\ cache[i] \in Connections
        /\ \A c \in Range(cache) : \E i \in DOMAIN cache : cache[i] = c
    BY Elements DEF Typed
  <1>4. Usable(old) \subseteq DOMAIN cache /\ Free(hit, old) \subseteq Usable(old)
    BY DEF Usable, Free
  <1>5. /\ hit \in 0..Len(cache)
        /\ hit # 0 => hit \in Usable(old) /\ CanHandleUrl(cache[hit], u)
        /\ \A i \in Usable(old) : CanHandleUrl(cache[i], u) => i <= hit
    BY <1>1, HitInCache
  <1>6. closed \subseteq Range(cache)
    <2>1. \A i \in (hit + 1)..Len(cache) : i \in DOMAIN cache
      BY <1>3, <1>5
    <2>2. QED
      BY <1>1, <1>3, <2>1 DEF Closed
  <1>7. ASSUME NEW i \in Usable(old) PROVE cache[i] \notin closed
    BY <1>1, <1>3, <1>4, <1>5 DEF Closed, CacheOK
  <1>8. ASSUME hit = 0, NEW c \in Range(cache), c \notin closed
        PROVE  ~CanHandleUrl(c, u)
    <2>1. PICK i \in DOMAIN cache : cache[i] = c
      BY <1>3, <1>8
    <2>2. i \in Usable(old)
      BY <1>1, <1>3, <1>8, <2>1 DEF Closed
    <2>3. ~(i <= hit)
      BY <1>3, <1>8
    <2>4. QED
      BY <1>5, <2>1, <2>2, <2>3
  <1>9. ASSUME o # "none"
        PROVE  \/ hit # 0 /\ CanRun(cache[hit], u) /\ to = cache[hit]
               \/ hit = 0 /\ to \in Connections /\ conn[to].phase = "none"
               \/ hit = 0 /\ \E i \in free : to = cache[i]
    <2>1. to = Found(u, hit, free, Len(Without(cache, closed))) /\ to # NoConnection
      <3>1. to # NoConnection
        BY <1>1, <1>9 DEF Given
      <3>2. QED
        BY <1>1, <1>2, <3>1
    <2>2. PICK mayMake \in BOOLEAN :
            to = CASE hit # 0 /\ CanRun(cache[hit], u) -> cache[hit]
                   [] hit = 0 /\ mayMake -> NewConnection
                   [] hit = 0 /\ ~mayMake /\ free # {} -> BestFree(free)
                   [] OTHER -> NoConnection
      BY <2>1 DEF Found
    <2>3. CASE hit # 0
      BY <2>1, <2>2, <2>3
    <2>4. CASE hit = 0 /\ mayMake
      <3>1. to = NewConnection
        BY <2>2, <2>4
      <3>2. NewConnection \in Unused
        BY DEF NewConnection, LoadImapUrl
      <3>3. QED
        BY <2>4, <3>1, <3>2 DEF Unused
    <2>5. CASE hit = 0 /\ ~mayMake
      <3>1. free # {} /\ to = BestFree(free)
        BY <2>1, <2>2, <2>5
      <3>2. \E i \in free : BestFree(free) = cache[i]
        BY <1>2, <1>4, <3>1, BestIsFree
      <3>3. QED
        BY <2>5, <3>1, <3>2
    <2>6. QED
      BY <2>2, <2>3, <2>4, <2>5
  <1>10. ASSUME o # "none"
         PROVE  /\ to \in Connections /\ to \notin closed /\ ~conn[to].busy
                /\ conn[to].phase = "none" \/ to \in Range(cache)
    <2>1. CASE hit # 0 /\ CanRun(cache[hit], u) /\ to = cache[hit]
      BY <1>3, <1>4, <1>5, <1>7, <2>1 DEF CanRun
    <2>2. CASE hit = 0 /\ to \in Connections /\ conn[to].phase = "none"
      <3>1. to \notin closed
        BY <1>6, <2>2 DEF CacheOK
      <3>2. ~conn[to].busy
        BY <2>2, RecordFacts DEF PhasesOK, RecordOK
      <3>3. QED
        BY <2>2, <3>1, <3>2
    <2>3. CASE hit = 0 /\ \E i \in free : to = cache[i]
      BY <1>2, <1>3, <1>4, <1>7, <2>3 DEF Free, IsFree
    <2>4. QED
      BY <1>9, <1>10, <2>1, <2>2, <2>3
  <1>11. /\ conn' \in [Connections -> ConnectionRecord]
         /\ \A c \in Connections : c # to =>
              /\ c \notin closed => conn'[c] = cs[c]
              /\ c \in closed => conn'[c] = [cs[c] EXCEPT !.die = TRUE, !.ready = TRUE]
         /\ o # "none" =>
              LET base == IF conn[to].phase = "none" THEN Fresh ELSE conn[to] IN
              \/ o = "runs" /\ conn'[to] = [base EXCEPT !.url = u, !.busy = TRUE, !.ready = TRUE,
                                                !.transport = IF @ = "none" THEN "new" ELSE @]
              \/ o = "local" /\ conn'[to] = base
              \/ o = "fails" /\ conn[to].phase = "none" /\ conn'[to] = [base EXCEPT !.url = u, !.busy = TRUE]
    <2>1. PICK after :
            /\ after = TellThreadToDie(cs, closed)
            /\ after \in [Connections -> ConnectionRecord]
            /\ \A c \in Connections :
                 /\ c \notin closed => after[c] = cs[c]
                 /\ c \in closed => after[c] = [cs[c] EXCEPT !.die = TRUE, !.ready = TRUE]
      <3>1. /\ TellThreadToDie(cs, closed) \in [Connections -> ConnectionRecord]
            /\ \A c \in Connections :
                 /\ c \notin closed => TellThreadToDie(cs, closed)[c] = cs[c]
                 /\ c \in closed => TellThreadToDie(cs, closed)[c] = [cs[c] EXCEPT !.die = TRUE, !.ready = TRUE]
        BY ToldToDie
      <3>2. QED
        BY <3>1
    <2>3. CASE o = "none"
      <3>1. conn' = after
        BY <1>1, <2>1, <2>3 DEF Given
      <3>2. QED
        BY <2>1, <2>3, <3>1
    <2>4. CASE o # "none"
      <3>1. PICK base : base = IF conn[to].phase = "none" THEN Fresh ELSE conn[to]
        OBVIOUS
      <3>2. to # NoConnection
        BY <1>1, <2>4 DEF Given
      <3>3. \/ /\ o = "runs"
               /\ conn' = [after EXCEPT ![to] = [base EXCEPT !.url = u, !.busy = TRUE, !.ready = TRUE,
                                                !.transport = IF @ = "none" THEN "new" ELSE @]]
            \/ o = "local" /\ conn' = [after EXCEPT ![to] = base]
            \/ /\ o = "fails" /\ conn[to].phase = "none"
               /\ conn' = [after EXCEPT ![to] = [base EXCEPT !.url = u, !.busy = TRUE]]
        BY <1>1, <2>1, <2>4, <3>1, <3>2 DEF Given
      <3>4. PICK r : /\ conn' = [after EXCEPT ![to] = r]
                     /\ \/ o = "runs" /\ r = [base EXCEPT !.url = u, !.busy = TRUE, !.ready = TRUE,
                                                !.transport = IF @ = "none" THEN "new" ELSE @]
                        \/ o = "local" /\ r = base
                        \/ o = "fails" /\ conn[to].phase = "none" /\ r = [base EXCEPT !.url = u, !.busy = TRUE]
        BY <3>3
      <3>5. to \in Connections
        BY <1>10, <2>4
      <3>6. base \in ConnectionRecord
        BY <3>1, <3>5, RecordFacts DEF Typed
      <3>7. r \in ConnectionRecord
        BY <3>4, <3>6 DEF ConnectionRecord
      <3>8. /\ conn' \in [Connections -> ConnectionRecord] /\ conn'[to] = r
            /\ \A c \in Connections : c # to => conn'[c] = after[c]
        BY <2>1, <3>4, <3>5, <3>7
      <3>9. QED
        BY <2>1, <3>1, <3>4, <3>8
    <2>5. QED
      BY <2>3, <2>4
  <1>12. events \subseteq events' /\ events' \subseteq Behaviours
    <2>1. old # {} => b \in Behaviours
      BY <1>1 DEF MayBeOld, MayHappen
    <2>2. o = "fails" => "setupFails" \in Behaviours
      BY DEF LoadImapUrl, MayHappen
    <2>3. QED
      BY <1>1, <2>1, <2>2 DEF Typed, Marks
  <1>13. ASSUME o # "none", Kind[u] \in {"select", "prefer"}, NEW c \in Range(cache),
                c \notin closed, ~Dying(c), OnFolderOf(c, u)
         PROVE  CanRun(to, u)
    <2>1. CASE hit = 0
      <3>1. ~CanRun(c, u) /\ ~HasToWait(c, u)
        BY <1>8, <1>13, <2>1 DEF CanHandleUrl
      <3>2. QED
        BY <1>13, <3>1 DEF CanRun, HasToWait
    <2>2. CASE hit # 0
      BY <1>9, <1>13, <2>2
    <2>3. QED
      BY <2>1, <2>2
  <1>14. o = "local" => u \in Local
    BY <1>1 DEF Given
  <1>15. Loaded(u, o, cs, to, closed)
    <2>1. cache' = IF o # "none" /\ conn[to].phase = "none" THEN Append(Without(cache, closed), to)
                   ELSE Without(cache, closed)
      <3>1. o = "none" <=> to = NoConnection
        BY <1>1 DEF Given
      <3>2. QED
        BY <1>1, <3>1 DEF Given
    <2>2. (o = "none") = (to = NoConnection)
      BY <1>1 DEF Given
    <2>3. QED
      BY <1>6, <1>10, <1>11, <1>12, <1>13, <1>14, <2>1, <2>2 DEF Loaded
  <1>16. QED
    BY <1>15
------------------------------------------------------------------------------
(***************************************************************************)
(* The parts of the invariant, for a step that changes one connection or   *)
(* closes some.                                                            *)
(***************************************************************************)
\* No connection gets a URL that it had not, and none enters the queue.
LEMMA PlacesStep ==
  ASSUME Typed, PlacesOK, queue' \in Seq(Urls),
         \A c \in Connections, u \in Urls : On(c, u)' => On(c, u),
         \A c \in Connections, u \in Urls :
           conn'[c].url = u \/ conn'[c].retry = u => conn[c].url = u \/ conn[c].retry = u,
         Range(queue') \subseteq Range(queue),
         \A i, j \in DOMAIN queue' : queue'[i] = queue'[j] => i = j,
         \A u \in Urls : told'[u] = "new" => told[u] = "new"
  PROVE  PlacesOK'
  <1>1. \A u \in Urls : \A c, d \in Connections : (On(c, u) /\ On(d, u))' => c = d
    BY DEF PlacesOK
  <1>2. \A u \in Range(queue') : \A c \in Connections : ~On(c, u)'
    <2>1. Range(queue') \subseteq Urls
      BY Elements
    <2>2. QED
      BY <2>1 DEF PlacesOK
  <1>3. \A u \in Urls : told'[u] = "new" =>
          /\ u \notin Range(queue')
          /\ \A c \in Connections : conn'[c].url # u /\ conn'[c].retry # u
    BY DEF PlacesOK
  <1>4. QED
    BY <1>1, <1>2, <1>3 DEF PlacesOK

\* One URL changes its place.
LEMMA PlacesMove ==
  ASSUME Typed, PlacesOK, queue' \in Seq(Urls), NEW w \in Urls,
         \A c \in Connections, u \in Urls : u # w /\ On(c, u)' => On(c, u),
         \A c \in Connections, u \in Urls : u # w /\ (conn'[c].url = u \/ conn'[c].retry = u) =>
           conn[c].url = u \/ conn[c].retry = u,
         \A c, d \in Connections : On(c, w)' /\ On(d, w)' => c = d,
         w \in Range(queue') => \A c \in Connections : ~On(c, w)',
         Range(queue') \subseteq Range(queue) \cup {w},
         \A i, j \in DOMAIN queue' : queue'[i] = queue'[j] => i = j,
         \A u \in Urls : told'[u] = "new" => told[u] = "new" /\ u # w
  PROVE  PlacesOK'
  <1>1. \A u \in Urls : \A c, d \in Connections : (On(c, u) /\ On(d, u))' => c = d
    BY DEF PlacesOK
  <1>2. \A u \in Range(queue') : \A c \in Connections : ~On(c, u)'
    <2>1. Range(queue') \subseteq Urls
      BY Elements
    <2>2. QED
      BY <2>1 DEF PlacesOK
  <1>3. \A u \in Urls : told'[u] = "new" =>
          /\ u \notin Range(queue')
          /\ \A c \in Connections : conn'[c].url # u /\ conn'[c].retry # u
    BY DEF PlacesOK
  <1>4. QED
    BY <1>1, <1>2, <1>3 DEF PlacesOK

\* A connection that another one's step leaves alone, or tells to die.
Same(r, s) ==
  \/ s = r
  \/ r.phase # "none" /\ s = [r EXCEPT !.die = TRUE, !.ready = TRUE]

LEMMA SameItself ==
  ASSUME NEW r
  PROVE  Same(r, r)
  BY DEF Same

LEMMA SameFacts ==
  ASSUME NEW r \in ConnectionRecord, NEW s, Same(r, s)
  PROVE  /\ s \in ConnectionRecord
         /\ s.phase = r.phase /\ s.url = r.url /\ s.retry = r.retry /\ s.busy = r.busy /\ s.sel = r.sel
         /\ RecordOK(r) => RecordOK(s)
         /\ \A u : Holds(s, u) <=> Holds(r, u)
         /\ \A t : ToldOf(r, t) => ToldOf(s, t)
  <1>1. /\ s \in ConnectionRecord
        /\ s.phase = r.phase /\ s.url = r.url /\ s.retry = r.retry /\ s.busy = r.busy /\ s.sel = r.sel
        /\ s = r \/ (s.phase # "none" /\ s.die)
    BY DEF Same, ConnectionRecord
  <1>2. RecordOK(r) => RecordOK(s)
    BY <1>1 DEF RecordOK
  <1>3. \A u : Holds(s, u) <=> Holds(r, u)
    BY <1>1 DEF Holds
  <1>4. ASSUME NEW t, ToldOf(r, t) PROVE ToldOf(s, t)
    BY <1>1, <1>4 DEF ToldOf
  <1>5. QED
    BY <1>1, <1>2, <1>3, <1>4

\* A step that changes the connections in `moving' and may tell others to die.
LEMMA Step ==
  ASSUME IInv, PlacesOK', Marks', NEW moving \in SUBSET Connections,
         conn' \in [Connections -> ConnectionRecord], queue' \in Seq(Urls),
         cache' \in Seq(Connections), told' \in [Urls -> States],
         \A c \in Connections \ moving : Same(conn[c], conn'[c]),
         \A c \in moving : RecordOK(conn'[c]) /\ ToldOf(conn'[c], told'),
         \A c \in Connections \ moving, u \in Urls : On(c, u) => told'[u] = told[u],
         \A i, j \in DOMAIN cache' : cache'[i] = cache'[j] => i = j,
         \A c \in Range(cache') :
           /\ c \notin moving => c \in Range(cache) /\ conn'[c] = conn[c]
           /\ c \in moving => conn'[c].phase \notin {"none", "rerun"} /\ ~conn'[c].die,
         \A u \in Range(queue') : told'[u] \in Waiting,
         \A u \in rerunning' : told'[u] \in {"started", "stopped"},
         \A u \in cancelled' : told'[u] \notin {"new", "refused"}
  PROVE  IInv'
  <1>1. Typed'
    BY DEF Typed
  <1>2. PhasesOK'
    <2>1. ASSUME NEW c \in Connections PROVE RecordOK(conn'[c])
      <3>1. CASE c \notin moving
        <4>1. conn[c] \in ConnectionRecord /\ Same(conn[c], conn'[c]) /\ RecordOK(conn[c])
          BY <3>1 DEF IInv, Typed, PhasesOK
        <4>2. QED
          BY <4>1, SameFacts
      <3>2. QED
        BY <3>1
    <2>2. QED
      BY <2>1 DEF PhasesOK
  <1>3. CacheOK'
    <2>1. ASSUME NEW c \in Range(cache') PROVE conn'[c].phase \notin {"none", "rerun"} /\ ~conn'[c].die
      BY DEF IInv, CacheOK
    <2>2. QED
      BY <2>1 DEF CacheOK
  <1>4. ToldOK'
    <2>1. ASSUME NEW c \in Connections \ moving PROVE ToldOf(conn'[c], told')
      <3>1. PICK r \in ConnectionRecord : r = conn[c]
        BY DEF IInv, Typed
      <3>2. /\ r.url \in Urls \cup {NoUrl} /\ r.retry \in Urls \cup {NoUrl}
            /\ RecordOK(r) /\ ToldOf(r, told)
        BY <3>1 DEF ConnectionRecord, IInv, PhasesOK, ToldOK
      <3>3. r.phase \in {"run", "selected", "suspend"} => r.url # NoUrl /\ r.phase # "release"
        BY <3>2 DEF RecordOK
      <3>4. \A u \in Urls : Holds(r, u) => told'[u] = told[u]
        BY <3>1 DEF On
      <3>5. ToldOf(r, told')
        BY <3>2, <3>3, <3>4 DEF ToldOf, Holds
      <3>6. QED
        BY <3>1, <3>5, SameFacts
    <2>2. \A c \in Connections : ToldOf(conn'[c], told')
      BY <2>1
    <2>3. QED
      BY <2>2 DEF ToldOK
  <1>5. QED
    BY <1>1, <1>2, <1>3, <1>4 DEF IInv

\* The same where one connection changes, and no URL changes its place.
LEMMA ThreadStepKeeps ==
  ASSUME IInv, Marks', NEW c \in Connections, NEW r \in ConnectionRecord, Becomes(c, r),
         RecordOK(r), ToldOf(r, told'),
         \A u \in Urls : Holds(r, u) => On(c, u),
         r.url \in {conn[c].url, NoUrl}, r.retry \in {conn[c].url, conn[c].retry, NoUrl},
         told' \in [Urls -> States],
         \A u \in Urls : told'[u] # told[u] => told'[u] # "new" /\ \A d \in Connections : On(d, u) => d = c,
         queue' \in Seq(Urls), Range(queue') \subseteq Range(queue),
         \A i, j \in DOMAIN queue' : queue'[i] = queue'[j] => i = j,
         \/ cache' = cache /\ (c \in Range(cache) => r.phase \notin {"none", "rerun"} /\ ~r.die)
         \/ cache' = Without(cache, {c}),
         \A u \in Range(queue') : told'[u] \in Waiting,
         \A u \in rerunning' : told'[u] \in {"started", "stopped"},
         \A u \in cancelled' : told'[u] \notin {"new", "refused"}
  PROVE  IInv'
  <1>1. Typed /\ PlacesOK
    BY DEF IInv
  <1>2. /\ conn' \in [Connections -> ConnectionRecord] /\ conn'[c] = r
        /\ \A d \in Connections : d # c => conn'[d] = conn[d]
    BY <1>1, BecomesRecord
  <1>3. PlacesOK'
    <2>1. ASSUME NEW d \in Connections, NEW u \in Urls, Holds(conn'[d], u) PROVE On(d, u)
      BY <1>2, <2>1 DEF On
    <2>2. ASSUME NEW d \in Connections, NEW u \in Urls, conn'[d].url = u \/ conn'[d].retry = u
          PROVE  conn[d].url = u \/ conn[d].retry = u
      BY <1>2, <2>2, ImapAssumption
    <2>3. \A u \in Urls : told'[u] = "new" => told[u] = "new"
      OBVIOUS
    <2>4. \A d \in Connections, u \in Urls : On(d, u)' => On(d, u)
      BY <2>1 DEF On
    <2>5. QED
      BY <1>1, <2>2, <2>3, <2>4, PlacesStep
  <1>4. /\ cache' \in Seq(Connections)
        /\ \A i, j \in DOMAIN cache' : cache'[i] = cache'[j] => i = j
        /\ \A d \in Range(cache') :
             /\ d # c => d \in Range(cache) /\ conn'[d] = conn[d]
             /\ d = c => conn'[d].phase \notin {"none", "rerun"} /\ ~conn'[d].die
    <2>1. cache \in Seq(Connections) /\ \A i, j \in DOMAIN cache : cache[i] = cache[j] => i = j
      BY DEF IInv, Typed, CacheOK
    <2>2. Range(cache) \subseteq Connections
      BY <2>1, Elements
    <2>3. CASE cache' = cache /\ (c \in Range(cache) => r.phase \notin {"none", "rerun"} /\ ~r.die)
      BY <1>2, <2>1, <2>2, <2>3
    <2>4. CASE cache' = Without(cache, {c})
      <3>1. /\ Without(cache, {c}) \in Seq(Connections)
            /\ Range(Without(cache, {c})) = Range(cache) \ {c}
            /\ \A m, n \in DOMAIN Without(cache, {c}) : Without(cache, {c})[m] = Without(cache, {c})[n] => m = n
        BY <2>1, WithoutProperties
      <3>2. QED
        BY <1>2, <2>2, <2>4, <3>1
    <2>5. QED
      BY <2>3, <2>4
  <1>5. ASSUME NEW d \in Connections \ {c} PROVE Same(conn[d], conn'[d])
    <2>1. conn'[d] = conn[d]
      BY <1>2
    <2>2. QED
      BY <2>1, SameItself
  <1>6. ASSUME NEW d \in Connections \ {c}, NEW u \in Urls, On(d, u) PROVE told'[u] = told[u]
    <2>1. told'[u] # told[u] => d = c
      BY <1>6
    <2>2. QED
      BY <2>1
  <1>7. \A d \in {c} : RecordOK(conn'[d]) /\ ToldOf(conn'[d], told')
    BY <1>2
  <1>8. {c} \in SUBSET Connections
    OBVIOUS
  <1>9. \A d \in Range(cache') :
          /\ d \notin {c} => d \in Range(cache) /\ conn'[d] = conn[d]
          /\ d \in {c} => conn'[d].phase \notin {"none", "rerun"} /\ ~conn'[d].die
    BY <1>4
  <1>10. QED
    BY <1>2, <1>3, <1>4, <1>5, <1>6, <1>7, <1>8, <1>9, Step

LEMMA AreToldToDie ==
  ASSUME conn \in [Connections -> ConnectionRecord], NEW dying, conn' = TellThreadToDie(conn, dying)
  PROVE  /\ conn' \in [Connections -> ConnectionRecord]
         /\ \A c \in Connections :
              /\ c \notin dying => conn'[c] = conn[c]
              /\ c \in dying => conn'[c] = [conn[c] EXCEPT !.die = TRUE, !.ready = TRUE]
  <1>1. PICK cs \in [Connections -> ConnectionRecord] : cs = conn
    OBVIOUS
  <1>2. /\ TellThreadToDie(cs, dying) \in [Connections -> ConnectionRecord]
        /\ \A c \in Connections :
             /\ c \notin dying => TellThreadToDie(cs, dying)[c] = cs[c]
             /\ c \in dying => TellThreadToDie(cs, dying)[c] = [cs[c] EXCEPT !.die = TRUE, !.ready = TRUE]
    BY ToldToDie
  <1>3. QED
    BY <1>1, <1>2

\* The same where connections are told to die, and leave the cache.
LEMMA DieStepKeeps ==
  ASSUME IInv, Marks', NEW dying \in SUBSET Connections,
         \A c \in dying : conn[c].phase # "none",
         conn' = TellThreadToDie(conn, dying), cache' = Without(cache, dying),
         told' = told, queue' = queue, rerunning' = rerunning,
         \A u \in cancelled' : told[u] \notin {"new", "refused"}
  PROVE  IInv'
  <1>1. Typed /\ PlacesOK /\ conn \in [Connections -> ConnectionRecord]
    BY DEF IInv, Typed
  <1>2. /\ conn' \in [Connections -> ConnectionRecord]
        /\ \A c \in Connections :
             /\ c \notin dying => conn'[c] = conn[c]
             /\ c \in dying => conn'[c] = [conn[c] EXCEPT !.die = TRUE, !.ready = TRUE]
    BY <1>1, AreToldToDie
  <1>3. ASSUME NEW c \in Connections PROVE Same(conn[c], conn'[c])
    <2>1. CASE c \in dying
      BY <1>2, <2>1 DEF Same
    <2>2. CASE c \notin dying
      BY <1>2, <2>2, SameItself
    <2>3. QED
      BY <2>1, <2>2
  <1>4. ASSUME NEW c \in Connections
        PROVE  /\ conn'[c].url = conn[c].url /\ conn'[c].retry = conn[c].retry
               /\ \A u \in Urls : On(c, u)' <=> On(c, u)
    <2>1. PICK r \in ConnectionRecord : r = conn[c]
      BY <1>1
    <2>2. PICK s \in ConnectionRecord : s = conn'[c]
      BY <1>2
    <2>3. s.url = r.url /\ s.retry = r.retry /\ \A u : Holds(s, u) <=> Holds(r, u)
      BY <1>3, <2>1, <2>2, SameFacts
    <2>4. QED
      BY <2>1, <2>2, <2>3 DEF On
  <1>5. PlacesOK' /\ queue' \in Seq(Urls)
    <2>1. queue' \in Seq(Urls) /\ \A i, j \in DOMAIN queue' : queue'[i] = queue'[j] => i = j
      BY DEF IInv, Typed, PlacesOK
    <2>2. QED
      BY <1>1, <1>4, <2>1, PlacesStep
  <1>6. /\ cache' \in Seq(Connections) /\ Range(cache') = Range(cache) \ dying
        /\ \A i, j \in DOMAIN cache' : cache'[i] = cache'[j] => i = j
    <2>1. cache \in Seq(Connections) /\ \A i, j \in DOMAIN cache : cache[i] = cache[j] => i = j
      BY DEF IInv, Typed, CacheOK
    <2>2. /\ Without(cache, dying) \in Seq(Connections)
          /\ Range(Without(cache, dying)) = Range(cache) \ dying
          /\ \A m, n \in DOMAIN Without(cache, dying) : Without(cache, dying)[m] = Without(cache, dying)[n] => m = n
      BY <2>1, WithoutProperties
    <2>3. QED
      BY <2>2
  <1>7. ASSUME NEW c \in Range(cache') PROVE c \in Range(cache) /\ conn'[c] = conn[c]
    <2>1. Range(cache) \subseteq Connections
      BY <1>1, Elements DEF Typed
    <2>2. QED
      BY <1>2, <1>6, <2>1
  <1>8. /\ told' \in [Urls -> States]
        /\ \A u \in Range(queue') : told'[u] \in Waiting
        /\ \A u \in rerunning' : told'[u] \in {"started", "stopped"}
        /\ \A u \in cancelled' : told'[u] \notin {"new", "refused"}
    BY DEF IInv, Typed, ToldOK
  <1>9. PICK none : none = {}
    OBVIOUS
  <1>10. /\ none \in SUBSET Connections
         /\ \A c \in Connections \ none : Same(conn[c], conn'[c])
         /\ \A c \in none : RecordOK(conn'[c]) /\ ToldOf(conn'[c], told')
         /\ \A c \in Connections \ none, u \in Urls : On(c, u) => told'[u] = told[u]
         /\ \A c \in Range(cache') :
              /\ c \notin none => c \in Range(cache) /\ conn'[c] = conn[c]
              /\ c \in none => conn'[c].phase \notin {"none", "rerun"} /\ ~conn'[c].die
    BY <1>3, <1>7, <1>9
  <1>11. QED
    BY <1>2, <1>5, <1>6, <1>8, <1>10, Step
------------------------------------------------------------------------------
(***************************************************************************)
(* LoadImapUrl keeps the invariant.                                        *)
(***************************************************************************)
\* `cs' is conn, or conn without a connection that ends.
Left(cs) ==
  \A c \in Connections : cs[c] = conn[c] \/ (conn[c].phase = "rerun" /\ cs[c] = Absent)

\* The connection that is given the URL.
LEMMA LoadedTo ==
  ASSUME IInv, NEW u \in Urls, NEW o \in {"runs", "local", "fails"},
         NEW cs, NEW to, NEW closed, Loaded(u, o, cs, to, closed)
  PROVE  /\ to \in Connections /\ conn'[to] \in ConnectionRecord
         /\ conn'[to].phase = IF conn[to].phase = "none" THEN "wait" ELSE conn[to].phase
         /\ conn'[to].phase \notin {"none", "rerun", "run", "selected", "suspend", "release", "retry"}
         /\ ~conn'[to].die
         /\ conn'[to].url \in {u, NoUrl} /\ conn'[to].retry = conn[to].retry
         /\ o = "runs" => conn'[to].url = u
         /\ o = "fails" => conn'[to].url = u /\ conn'[to].phase = "wait" /\ ~conn'[to].ready
         /\ o = "local" => conn'[to].url = NoUrl
         /\ RecordOK(conn'[to])
  <1>1. /\ to \in Connections /\ ~conn[to].busy
        /\ conn[to].phase = "none" \/ to \in Range(cache)
    BY DEF Loaded
  <1>2. PICK base \in ConnectionRecord : base = IF conn[to].phase = "none" THEN Fresh ELSE conn[to]
    BY <1>1, RecordFacts DEF IInv, Typed
  <1>3. \/ o = "runs" /\ conn'[to] = [base EXCEPT !.url = u, !.busy = TRUE, !.ready = TRUE,
                                         !.transport = IF @ = "none" THEN "new" ELSE @]
        \/ o = "local" /\ conn'[to] = base
        \/ o = "fails" /\ conn[to].phase = "none" /\ conn'[to] = [base EXCEPT !.url = u, !.busy = TRUE]
    BY <1>2 DEF Loaded
  <1>4. /\ base.phase = IF conn[to].phase = "none" THEN "wait" ELSE conn[to].phase
        /\ base.phase \notin {"none", "rerun"} /\ ~base.die /\ ~base.busy
        /\ base.url = NoUrl
        /\ base.retry = conn[to].retry
        /\ base.retry # NoUrl <=> base.phase \in {"remove", "rerun"}
        /\ base.phase \notin {"run", "selected", "suspend", "release", "retry"}
        /\ conn[to].phase = "none" => ~base.ready
    <2>1. RecordOK(conn[to])
      BY <1>1 DEF IInv, PhasesOK
    <2>2. CASE conn[to].phase = "none"
      <3>1. conn[to] = Absent /\ base = Fresh
        BY <1>2, <2>1, <2>2 DEF RecordOK
      <3>2. QED
        BY <2>2, <3>1, RecordFacts
    <2>3. CASE conn[to].phase # "none"
      <3>1. base = conn[to] /\ to \in Range(cache)
        BY <1>1, <1>2, <2>3
      <3>2. conn[to].phase \notin {"none", "rerun"} /\ ~conn[to].die
        BY <3>1 DEF IInv, CacheOK
      <3>3. base.busy \in BOOLEAN
        BY DEF ConnectionRecord
      <3>4. QED
        BY <1>1, <2>1, <2>3, <3>1, <3>2, <3>3 DEF RecordOK
    <2>4. QED
      BY <2>2, <2>3
  <1>5. PICK r \in ConnectionRecord : r = conn'[to]
    BY <1>1 DEF Loaded
  <1>6. /\ r.phase = base.phase /\ r.die = base.die /\ r.retry = base.retry
        /\ r.url = (IF o = "local" THEN NoUrl ELSE u)
        /\ r.busy = (o # "local")
        /\ o = "fails" => conn[to].phase = "none" /\ r.ready = base.ready
    <2>1. CASE o = "runs"
      <3>1. PICK t : t = IF base.transport = "none" THEN "new" ELSE base.transport
        OBVIOUS
      <3>2. r = [base EXCEPT !.url = u, !.busy = TRUE, !.ready = TRUE, !.transport = t]
        BY <1>3, <1>5, <2>1, <3>1
      <3>3. QED
        BY <1>2, <2>1, <3>2 DEF ConnectionRecord
    <2>2. CASE o = "local"
      <3>1. base.busy = FALSE
        BY <1>4 DEF ConnectionRecord
      <3>2. QED
        BY <1>3, <1>4, <1>5, <2>2, <3>1
    <2>3. CASE o = "fails"
      <3>1. conn[to].phase = "none" /\ r = [base EXCEPT !.url = u, !.busy = TRUE]
        BY <1>3, <1>5, <2>3
      <3>2. QED
        BY <1>2, <2>3, <3>1 DEF ConnectionRecord
    <2>4. QED
      BY <2>1, <2>2, <2>3
  <1>7. RecordOK(r)
    <2>1. u # NoUrl
      BY ImapAssumption
    <2>2. QED
      BY <1>4, <1>6, <2>1 DEF RecordOK
  <1>8. QED
    BY <1>1, <1>4, <1>5, <1>6, <1>7

\* The others.
LEMMA LoadedOthers ==
  ASSUME IInv, NEW u, NEW o, NEW cs \in [Connections -> ConnectionRecord], NEW to, NEW closed,
         Loaded(u, o, cs, to, closed), Left(cs), NEW c \in Connections, c # to
  PROVE  /\ cs[c] # conn[c] => conn[c].phase = "rerun" /\ conn'[c] = Absent
         /\ cs[c] = conn[c] => Same(conn[c], conn'[c])
         /\ cs[c] = conn[c] /\ c \notin closed => conn'[c] = conn[c]
  <1>1. /\ closed \subseteq Range(cache)
        /\ c \notin closed => conn'[c] = cs[c]
        /\ c \in closed => conn'[c] = [cs[c] EXCEPT !.die = TRUE, !.ready = TRUE]
    BY DEF Loaded
  <1>2. c \in closed => conn[c].phase \notin {"none", "rerun"}
    BY <1>1 DEF IInv, CacheOK
  <1>3. CASE c \in closed
    <2>1. cs[c] = conn[c]
      BY <1>2, <1>3 DEF Left
    <2>2. QED
      BY <1>1, <1>2, <1>3, <2>1 DEF Same
  <1>4. CASE c \notin closed
    BY <1>1, <1>4, SameItself DEF Left
  <1>5. QED
    BY <1>3, <1>4

\* What happens to the cache.
LEMMA LoadedCache ==
  ASSUME IInv, NEW u, NEW o, NEW cs, NEW to, NEW closed, Loaded(u, o, cs, to, closed)
  PROVE  /\ cache' \in Seq(Connections)
         /\ \A i, j \in DOMAIN cache' : cache'[i] = cache'[j] => i = j
         /\ Range(cache') = (Range(cache) \ closed) \cup (IF o = "none" THEN {} ELSE {to})
  <1>1. cache \in Seq(Connections) /\ \A i, j \in DOMAIN cache : cache[i] = cache[j] => i = j
    BY DEF IInv, Typed, CacheOK
  <1>2. PICK rest \in Seq(Connections) :
          /\ rest = Without(cache, closed)
          /\ Range(rest) = Range(cache) \ closed
          /\ \A m, n \in DOMAIN rest : rest[m] = rest[n] => m = n
    <2>1. /\ Without(cache, closed) \in Seq(Connections)
          /\ Range(Without(cache, closed)) = Range(cache) \ closed
          /\ \A m, n \in DOMAIN Without(cache, closed) : Without(cache, closed)[m] = Without(cache, closed)[n] => m = n
      BY <1>1, WithoutProperties
    <2>2. QED
      BY <2>1
  <1>3. CASE o # "none" /\ conn[to].phase = "none"
    <2>1. cache' = Append(rest, to) /\ to \in Connections
      BY <1>2, <1>3 DEF Loaded
    <2>2. to \notin Range(rest)
      BY <1>2, <1>3 DEF IInv, CacheOK
    <2>3. /\ Append(rest, to) \in Seq(Connections)
          /\ Range(Append(rest, to)) = Range(rest) \cup {to}
          /\ \A i, j \in DOMAIN Append(rest, to) : Append(rest, to)[i] = Append(rest, to)[j] => i = j
      BY <1>2, <2>1, <2>2, AppendNew
    <2>4. QED
      BY <1>2, <1>3, <2>1, <2>3
  <1>4. CASE ~(o # "none" /\ conn[to].phase = "none")
    <2>1. cache' = rest
      BY <1>2, <1>4 DEF Loaded
    <2>2. o # "none" => to \in Range(cache) /\ to \notin closed
      BY <1>4 DEF Loaded
    <2>3. QED
      BY <1>2, <2>1, <2>2
  <1>5. QED
    BY <1>3, <1>4

LEMMA LoadKeeps ==
  ASSUME IInv, NEW u \in Urls, NEW o \in {"none", "runs", "local", "fails"},
         NEW cs \in [Connections -> ConnectionRecord], NEW to, NEW closed,
         Loaded(u, o, cs, to, closed), Left(cs),
         \A c \in Connections : On(c, u) => conn[c].phase = "rerun" /\ cs[c] = Absent,
         told' \in [Urls -> States], \A v \in Urls : v # u => told'[v] = told[v],
         told'[u] # "new",
         o = "runs" => told'[u] \in Waiting,
         o = "fails" => told'[u] \in Waiting \cup {"refused"},
         queue' \in Seq(Urls), Range(queue') \subseteq Range(queue) \cup {u},
         \A i, j \in DOMAIN queue' : queue'[i] = queue'[j] => i = j,
         u \in Range(queue') => o = "none" /\ told'[u] \in Waiting,
         rerunning' = rerunning, cancelled' = cancelled, Marks',
         u \in rerunning => told'[u] \in {"started", "stopped"},
         u \in cancelled => told'[u] # "refused"
  PROVE  IInv'
  <1>1. PICK moving \in SUBSET Connections :
          moving = {c \in Connections : (c = to /\ o # "none") \/ cs[c] # conn[c]}
    OBVIOUS
  <1>2. o = "none" => to \notin Connections
    BY ImapAssumption DEF Loaded
  <1>3. o # "none" =>
         /\ to \in Connections /\ conn'[to] \in ConnectionRecord
         /\ conn'[to].phase = IF conn[to].phase = "none" THEN "wait" ELSE conn[to].phase
         /\ conn'[to].phase \notin {"none", "rerun", "run", "selected", "suspend", "release", "retry"}
         /\ ~conn'[to].die
         /\ conn'[to].url \in {u, NoUrl} /\ conn'[to].retry = conn[to].retry
         /\ o = "runs" => conn'[to].url = u
         /\ o = "fails" => conn'[to].url = u /\ conn'[to].phase = "wait" /\ ~conn'[to].ready
         /\ o = "local" => conn'[to].url = NoUrl
         /\ RecordOK(conn'[to])
    BY LoadedTo
  <1>4. ASSUME NEW c \in Connections, c # to \/ o = "none"
        PROVE  /\ cs[c] # conn[c] => conn[c].phase = "rerun" /\ conn'[c] = Absent
               /\ cs[c] = conn[c] => Same(conn[c], conn'[c])
               /\ cs[c] = conn[c] /\ c \notin closed => conn'[c] = conn[c]
    BY <1>2, <1>4, LoadedOthers
  <1>5. /\ conn \in [Connections -> ConnectionRecord] /\ conn' \in [Connections -> ConnectionRecord]
        /\ queue \in Seq(Urls) /\ told \in [Urls -> States]
        /\ cache \in Seq(Connections)
    BY DEF Loaded, IInv, Typed
  <1>6. ASSUME NEW c \in Connections \ moving PROVE c # to \/ o = "none"
    BY <1>1, <1>6
  <1>7. ASSUME NEW c \in Connections \ moving
        PROVE  /\ cs[c] = conn[c] /\ Same(conn[c], conn'[c])
               /\ c \notin closed => conn'[c] = conn[c]
               /\ conn'[c].url = conn[c].url /\ conn'[c].retry = conn[c].retry
               /\ \A v : Holds(conn'[c], v) <=> Holds(conn[c], v)
    <2>1. /\ cs[c] = conn[c] /\ Same(conn[c], conn'[c])
          /\ c \notin closed => conn'[c] = conn[c]
      BY <1>1, <1>4, <1>6
    <2>2. conn[c] \in ConnectionRecord
      BY <1>5
    <2>3. QED
      BY <2>1, <2>2, SameFacts
  <1>8. ASSUME NEW c \in moving, c # to \/ o = "none"
        PROVE  conn[c].phase = "rerun" /\ conn'[c] = Absent
    BY <1>1, <1>4, <1>8
  <1>9. ASSUME NEW c \in Connections, NEW v \in Urls, v # u
        PROVE  /\ Holds(conn'[c], v) => Holds(conn[c], v)
               /\ conn'[c].url = v \/ conn'[c].retry = v => conn[c].url = v \/ conn[c].retry = v
    <2>1. CASE c \notin moving
      BY <1>7, <2>1
    <2>2. CASE c \in moving /\ (c # to \/ o = "none")
      BY <1>8, <2>2, RecordFacts, ImapAssumption DEF Holds
    <2>3. CASE c = to /\ o # "none"
      <3>1. conn'[c].url # v /\ conn'[c].retry = conn[c].retry
        BY <1>3, <1>9, <2>3, ImapAssumption
      <3>2. QED
        BY <3>1 DEF Holds
    <2>4. QED
      BY <2>1, <2>2, <2>3
  <1>10. ASSUME NEW c \in Connections, Holds(conn'[c], u)
         PROVE  c = to /\ o # "none"
    <2>1. CASE c \notin moving
      <3>1. On(c, u)
        BY <1>7, <1>10, <2>1 DEF On
      <3>2. cs[c] = Absent /\ conn[c].phase = "rerun" /\ cs[c] = conn[c]
        BY <1>7, <2>1, <3>1
      <3>3. QED
        BY <3>2, RecordFacts
    <2>2. CASE c \in moving /\ (c # to \/ o = "none")
      BY <1>8, <1>10, <2>2, RecordFacts, ImapAssumption DEF Holds
    <2>3. QED
      BY <2>1, <2>2
  <1>11. PlacesOK'
    <2>1. \A c \in Connections, v \in Urls : v # u /\ On(c, v)' => On(c, v)
      BY <1>9 DEF On
    <2>2. \A c \in Connections, v \in Urls : v # u /\ (conn'[c].url = v \/ conn'[c].retry = v) =>
             conn[c].url = v \/ conn[c].retry = v
      BY <1>9
    <2>3. \A c, d \in Connections : On(c, u)' /\ On(d, u)' => c = d
      BY <1>10 DEF On
    <2>4. u \in Range(queue') => \A c \in Connections : ~On(c, u)'
      BY <1>10 DEF On
    <2>5. \A v \in Urls : told'[v] = "new" => told[v] = "new" /\ v # u
      OBVIOUS
    <2>6. Typed /\ PlacesOK
      BY DEF IInv
    <2>7. QED
      BY <2>1, <2>2, <2>3, <2>4, <2>5, <2>6, PlacesMove
  <1>12. \A c \in moving : RecordOK(conn'[c]) /\ ToldOf(conn'[c], told')
    <2>1. ASSUME NEW c \in moving PROVE RecordOK(conn'[c]) /\ ToldOf(conn'[c], told')
      <3>1. CASE c # to \/ o = "none"
        BY <1>8, <3>1, AbsentKeeps
      <3>2. CASE c = to /\ o # "none"
        <4>1. /\ conn'[to].url \in {u, NoUrl} /\ conn'[to].retry = conn[to].retry
              /\ conn'[to].phase \notin {"run", "selected", "suspend"}
              /\ RecordOK(conn'[to]) /\ to \in Connections
          BY <1>3, <3>2
        <4>2. conn[to].retry # NoUrl => told'[conn[to].retry] \in Waiting
          <5>1. SUFFICES ASSUME conn[to].retry # NoUrl PROVE told'[conn[to].retry] \in Waiting
            OBVIOUS
          <5>2. conn[to].retry \in Urls /\ told[conn[to].retry] \in Waiting
            BY <1>5, <4>1, <5>1 DEF ConnectionRecord, IInv, ToldOK, ToldOf
          <5>3. conn[to].retry # u
            <6>1. conn[to].retry = u => On(to, u)
              BY DEF On, Holds
            <6>2. conn[to].phase # "rerun"
              BY <3>2 DEF Loaded, IInv, CacheOK
            <6>3. QED
              BY <4>1, <6>1, <6>2
          <5>4. QED
            BY <5>2, <5>3
        <4>3. conn'[to].url # NoUrl =>
                \/ told'[u] \in Waiting
                \/ told'[u] = "refused" /\ conn'[to].phase = "wait" /\ ~conn'[to].ready
          BY <1>3, <3>2
        <4>4. ToldOf(conn'[to], told')
          BY <4>1, <4>2, <4>3 DEF ToldOf
        <4>5. QED
          BY <3>2, <4>1, <4>4
      <3>3. QED
        BY <3>1, <3>2
    <2>2. QED
      BY <2>1
  <1>13. ASSUME NEW c \in Connections \ moving, NEW v \in Urls, On(c, v)
         PROVE  told'[v] = told[v]
    <2>1. CASE v = u
      BY <1>7, <1>13, <2>1, RecordFacts
    <2>2. QED
      BY <2>1
  <1>14. /\ cache' \in Seq(Connections)
         /\ \A i, j \in DOMAIN cache' : cache'[i] = cache'[j] => i = j
         /\ Range(cache') = (Range(cache) \ closed) \cup (IF o = "none" THEN {} ELSE {to})
    BY LoadedCache
  <1>15. \A c \in Range(cache') :
           /\ c \notin moving => c \in Range(cache) /\ conn'[c] = conn[c]
           /\ c \in moving => conn'[c].phase \notin {"none", "rerun"} /\ ~conn'[c].die
    <2>1. ASSUME NEW c \in Range(cache')
          PROVE  /\ c \notin moving => c \in Range(cache) /\ conn'[c] = conn[c]
                 /\ c \in moving => conn'[c].phase \notin {"none", "rerun"} /\ ~conn'[c].die
      <3>1. CASE c = to /\ o # "none"
        BY <1>1, <1>3, <3>1
      <3>2. CASE ~(c = to /\ o # "none")
        <4>1. c \in Range(cache) /\ c \notin closed /\ c \in Connections
          <5>1. Range(cache) \subseteq Connections
            BY <1>5, Elements
          <5>2. QED
            BY <1>14, <2>1, <3>2, <5>1
        <4>2. conn[c].phase # "rerun"
          BY <4>1 DEF IInv, CacheOK
        <4>3. c \notin moving
          BY <1>8, <3>2, <4>2
        <4>4. QED
          BY <1>7, <4>1, <4>3
      <3>3. QED
        BY <3>1, <3>2
    <2>2. QED
      BY <2>1
  <1>16. /\ \A v \in Range(queue') : told'[v] \in Waiting
         /\ \A v \in rerunning' : told'[v] \in {"started", "stopped"}
         /\ \A v \in cancelled' : told'[v] \notin {"new", "refused"}
    <2>1. Range(queue') \subseteq Urls
      BY Elements
    <2>2. rerunning \subseteq Urls /\ cancelled \subseteq Urls
      BY DEF IInv, Typed, Marks
    <2>3. ToldOK
      BY DEF IInv
    <2>4. QED
      BY <2>1, <2>2, <2>3 DEF ToldOK
  <1>17. /\ \A c \in Connections \ moving : Same(conn[c], conn'[c])
         /\ \A c \in Connections \ moving, v \in Urls : On(c, v) => told'[v] = told[v]
    BY <1>7, <1>13
  <1>18. QED
    BY <1>5, <1>11, <1>12, <1>14, <1>15, <1>16, <1>17, Step

LEMMA LoadImapUrlKeeps ==
  ASSUME IInv, NEW u \in Urls, NEW o \in {"none", "runs", "local", "fails"},
         NEW cs \in [Connections -> ConnectionRecord], LoadImapUrl(u, o, cs), Left(cs),
         \A c \in Connections : On(c, u) => conn[c].phase = "rerun" /\ cs[c] = Absent,
         told' \in [Urls -> States], \A v \in Urls : v # u => told'[v] = told[v],
         told'[u] # "new",
         o = "runs" => told'[u] \in Waiting,
         o = "fails" => told'[u] \in Waiting \cup {"refused"},
         queue' \in Seq(Urls), Range(queue') \subseteq Range(queue) \cup {u},
         \A i, j \in DOMAIN queue' : queue'[i] = queue'[j] => i = j,
         u \in Range(queue') => o = "none" /\ told'[u] \in Waiting,
         UNCHANGED <<cancelled, rerunning, suspended, online>>,
         loop' \in Connections \cup {NoConnection, "main"},
         u \in rerunning => told'[u] \in {"started", "stopped"},
         u \in cancelled => told'[u] # "refused"
  PROVE  IInv'
  <1>1. Typed /\ PhasesOK /\ CacheOK
    BY DEF IInv
  <1>2. PICK to, closed : Loaded(u, o, cs, to, closed)
    BY <1>1, LoadImapUrlEffect
  <1>3. events' \subseteq Behaviours
    BY <1>2 DEF Loaded
  <1>4. Marks'
    BY <1>1, <1>3 DEF Typed, Marks
  <1>5. QED
    BY <1>2, <1>4, LoadKeeps

LEMMA GetImapConnectionAndLoadUrlKeeps ==
  ASSUME IInv, NEW u \in Urls, GetImapConnectionAndLoadUrl(u)
  PROVE  IInv'
  <1>1. PICK cs \in [Connections -> ConnectionRecord] : cs = conn
    BY DEF IInv, Typed
  <1>2. Left(cs)
    BY <1>1 DEF Left
  <1>3. /\ told[u] = "new" /\ loop = NoConnection
        /\ UNCHANGED <<cancelled, rerunning, suspended, online>>
        /\ told \in [Urls -> States] /\ queue \in Seq(Urls)
        /\ loop \in Connections \cup {NoConnection, "main"}
    BY DEF GetImapConnectionAndLoadUrl, MainThreadFree, IInv, Typed, Marks
  <1>4. /\ u \notin Range(queue) /\ u \notin rerunning /\ u \notin cancelled
        /\ \A c \in Connections : ~On(c, u)
    BY <1>3 DEF IInv, PlacesOK, ToldOK, On, Holds
  <1>5. \A i, j \in DOMAIN queue : queue[i] = queue[j] => i = j
    BY DEF IInv, PlacesOK
  <1>6. CASE LoadImapUrl(u, "none", conn) /\ SetUrlState(u, "asked")
               /\ queue' = Append(queue, u) /\ loop' = "main"
    <2>1. /\ told' \in [Urls -> States] /\ told'[u] = "asked"
          /\ \A v \in Urls : v # u => told'[v] = told[v]
      BY <1>3, <1>6 DEF SetUrlState, States
    <2>2. /\ Append(queue, u) \in Seq(Urls) /\ Range(Append(queue, u)) = Range(queue) \cup {u}
          /\ \A i, j \in DOMAIN Append(queue, u) : Append(queue, u)[i] = Append(queue, u)[j] => i = j
      BY <1>3, <1>4, <1>5, AppendNew
    <2>3. LoadImapUrl(u, "none", cs)
      BY <1>1, <1>6
    <2>4. /\ queue' \in Seq(Urls) /\ Range(queue') \subseteq Range(queue) \cup {u}
          /\ \A i, j \in DOMAIN queue' : queue'[i] = queue'[j] => i = j
      BY <1>6, <2>2
    <2>5. told'[u] # "new" /\ told'[u] \in Waiting
      BY <2>1 DEF Waiting
    <2>6. QED
      BY <1>2, <1>3, <1>4, <1>6, <2>1, <2>3, <2>4, <2>5, LoadImapUrlKeeps
  <1>7. ASSUME NEW o \in {"runs", "local", "fails"}, NEW s \in {"asked", "stopped", "refused"},
               o = "runs" => s = "asked", o = "fails" => s = "refused",
               LoadImapUrl(u, o, conn), SetUrlState(u, s), UNCHANGED <<queue, loop>>
        PROVE  IInv'
    <2>1. /\ told' \in [Urls -> States] /\ told'[u] = s
          /\ \A v \in Urls : v # u => told'[v] = told[v]
      BY <1>3, <1>7 DEF SetUrlState, States
    <2>2. LoadImapUrl(u, o, cs)
      BY <1>1, <1>7
    <2>3. /\ queue' \in Seq(Urls) /\ Range(queue') \subseteq Range(queue) \cup {u}
          /\ \A i, j \in DOMAIN queue' : queue'[i] = queue'[j] => i = j
          /\ u \notin Range(queue')
      BY <1>3, <1>4, <1>5, <1>7
    <2>4. /\ told'[u] # "new"
          /\ o = "runs" => told'[u] \in Waiting
          /\ o = "fails" => told'[u] \in Waiting \cup {"refused"}
      BY <1>7, <2>1 DEF Waiting
    <2>5. QED
      BY <1>2, <1>3, <1>4, <1>7, <2>1, <2>2, <2>3, <2>4, LoadImapUrlKeeps
  <1>8. CASE \E o \in {<<"runs", "asked">>, <<"local", "stopped">>, <<"fails", "refused">>} :
               LoadImapUrl(u, o[1], conn) /\ SetUrlState(u, o[2]) /\ UNCHANGED <<queue, loop>>
    BY <1>7, <1>8
  <1>9. QED
    BY <1>6, <1>8 DEF GetImapConnectionAndLoadUrl

\* A step that changes no connection and moves no URL.
LEMMA StillKeeps ==
  ASSUME IInv, Marks', UNCHANGED <<cache, conn>>,
         told' \in [Urls -> States],
         \A u \in Urls : told'[u] # told[u] => told'[u] = "stopped" /\ \A c \in Connections : ~On(c, u),
         queue' \in Seq(Urls), Range(queue') \subseteq Range(queue),
         \A i, j \in DOMAIN queue' : queue'[i] = queue'[j] => i = j,
         \A u \in Range(queue') : told'[u] = told[u],
         rerunning' = rerunning, cancelled' = cancelled
  PROVE  IInv'
  <1>1. Typed /\ PlacesOK /\ ToldOK
    BY DEF IInv
  <1>2. /\ cancelled \subseteq Urls /\ rerunning \subseteq Urls
        /\ conn' \in [Connections -> ConnectionRecord] /\ cache' \in Seq(Connections)
    BY <1>1 DEF Typed, Marks
  <1>3. PlacesOK'
    <2>1. /\ \A c \in Connections, u \in Urls : On(c, u)' => On(c, u)
          /\ \A c \in Connections, u \in Urls :
               conn'[c].url = u \/ conn'[c].retry = u => conn[c].url = u \/ conn[c].retry = u
          /\ \A u \in Urls : told'[u] = "new" => told[u] = "new"
      BY DEF On
    <2>2. QED
      BY <1>1, <2>1, PlacesStep
  <1>4. PICK none \in SUBSET Connections : none = {}
    OBVIOUS
  <1>5. /\ \A c \in Connections \ none : Same(conn[c], conn'[c])
        /\ \A c \in none : RecordOK(conn'[c]) /\ ToldOf(conn'[c], told')
    BY <1>4, SameItself
  <1>6. \A c \in Connections \ none, u \in Urls : On(c, u) => told'[u] = told[u]
    <2>1. ASSUME NEW c \in Connections, NEW u \in Urls, On(c, u) PROVE told'[u] = told[u]
      BY <2>1
    <2>2. QED
      BY <2>1
  <1>7. /\ \A i, j \in DOMAIN cache' : cache'[i] = cache'[j] => i = j
        /\ \A c \in Range(cache') :
             /\ c \notin none => c \in Range(cache) /\ conn'[c] = conn[c]
             /\ c \in none => conn'[c].phase \notin {"none", "rerun"} /\ ~conn'[c].die
    BY <1>4 DEF IInv, CacheOK
  <1>8. \A u \in Range(queue') : told'[u] \in Waiting
    BY <1>1 DEF ToldOK
  <1>9. /\ \A u \in rerunning' : told'[u] \in {"started", "stopped"}
        /\ \A u \in cancelled' : told'[u] \notin {"new", "refused"}
    BY <1>1, <1>2 DEF ToldOK
  <1>10. QED
    BY <1>2, <1>3, <1>5, <1>6, <1>7, <1>8, <1>9, Step

LEMMA LoadNextQueuedUrlKeeps ==
  ASSUME IInv, LoadNextQueuedUrl
  PROVE  IInv'
  <1>1. /\ UNCHANGED <<cancelled, rerunning, suspended, online>>
        /\ loop' \in {loop, NoConnection}
    BY DEF LoadNextQueuedUrl
  <1>2. /\ told \in [Urls -> States] /\ queue \in Seq(Urls)
        /\ loop \in Connections \cup {NoConnection, "main"}
        /\ \A i, j \in DOMAIN queue : queue[i] = queue[j] => i = j
        /\ Marks
    BY DEF IInv, Typed, Marks, PlacesOK
  <1>3. CASE UNCHANGED <<queue, cache, conn, told, events>>
    <2>1. Marks'
      BY <1>1, <1>2, <1>3 DEF Marks
    <2>2. QED
      BY <1>1, <1>2, <1>3, <2>1, StillKeeps
  <1>4. ASSUME queue # <<>>, NEW u, u = Head(queue) PROVE
          /\ u \in Urls /\ u \in Range(queue) /\ told[u] \in Waiting
          /\ \A c \in Connections : ~On(c, u)
          /\ Tail(queue) \in Seq(Urls)
          /\ Range(Tail(queue)) = Range(queue) \ {u}
          /\ \A i, j \in DOMAIN Tail(queue) : Tail(queue)[i] = Tail(queue)[j] => i = j
    <2>1. /\ Head(queue) \in Range(queue)
          /\ Tail(queue) \in Seq(Urls)
          /\ Range(Tail(queue)) = Range(queue) \ {Head(queue)}
          /\ \A i, j \in DOMAIN Tail(queue) : Tail(queue)[i] = Tail(queue)[j] => i = j
      BY <1>2, <1>4, TailOfDistinct
    <2>2. u \in Urls /\ u \in Range(queue)
      BY <1>2, <1>4, <2>1, Elements
    <2>3. told[u] \in Waiting /\ \A c \in Connections : ~On(c, u)
      BY <2>2 DEF IInv, PlacesOK, ToldOK
    <2>4. QED
      BY <1>4, <2>1, <2>2, <2>3
  <1>5. ASSUME queue # <<>>, Head(queue) \in cancelled, SetUrlState(Head(queue), "stopped"),
               queue' = Tail(queue), UNCHANGED <<cache, conn, loop, events>>
        PROVE  IInv'
    <2>1. PICK u : u = Head(queue)
      OBVIOUS
    <2>2. /\ u \in Urls
          /\ \A c \in Connections : ~On(c, u)
          /\ queue' \in Seq(Urls)
          /\ Range(queue') = Range(queue) \ {u}
          /\ \A i, j \in DOMAIN queue' : queue'[i] = queue'[j] => i = j
      BY <1>4, <1>5, <2>1
    <2>3. /\ told' \in [Urls -> States] /\ told'[u] = "stopped"
          /\ \A v \in Urls : v # u => told'[v] = told[v]
      BY <1>2, <1>5, <2>1 DEF SetUrlState, States
    <2>4. \A v \in Urls : told'[v] # told[v] => told'[v] = "stopped" /\ \A c \in Connections : ~On(c, v)
      BY <2>2, <2>3
    <2>5. Marks'
      BY <1>1, <1>2, <1>5 DEF Marks
    <2>6. Range(queue') \subseteq Range(queue) /\ \A v \in Range(queue') : told'[v] = told[v]
      BY <2>2, <2>3, Elements
    <2>7. QED
      BY <1>1, <1>5, <2>2, <2>3, <2>4, <2>5, <2>6, StillKeeps
  <1>6. ASSUME queue # <<>>, NEW o \in {"none", "runs", "local", "fails"},
               LoadImapUrl(Head(queue), o, conn),
               o = "local" => SetUrlState(Head(queue), "stopped"),
               o # "local" => UNCHANGED told,
               IF o = "none" THEN UNCHANGED queue ELSE queue' = Tail(queue)
        PROVE  IInv'
    <2>1. PICK cs \in [Connections -> ConnectionRecord] : cs = conn
      BY DEF IInv, Typed
    <2>2. Left(cs)
      BY <2>1 DEF Left
    <2>3. PICK u : u = Head(queue)
      OBVIOUS
    <2>4. /\ u \in Urls /\ u \in Range(queue) /\ told[u] \in Waiting
          /\ \A c \in Connections : ~On(c, u)
          /\ Tail(queue) \in Seq(Urls)
          /\ Range(Tail(queue)) = Range(queue) \ {u}
          /\ \A i, j \in DOMAIN Tail(queue) : Tail(queue)[i] = Tail(queue)[j] => i = j
      BY <1>4, <1>6, <2>3
    <2>5. /\ queue' \in Seq(Urls) /\ Range(queue') \subseteq Range(queue) \cup {u}
          /\ \A i, j \in DOMAIN queue' : queue'[i] = queue'[j] => i = j
          /\ u \in Range(queue') => o = "none"
      BY <1>2, <1>6, <2>4
    <2>6. /\ told' \in [Urls -> States] /\ told'[u] = (IF o = "local" THEN "stopped" ELSE told[u])
          /\ \A v \in Urls : v # u => told'[v] = told[v]
      BY <1>2, <1>6, <2>3 DEF SetUrlState, States
    <2>7. /\ told'[u] # "new" /\ told'[u] # "refused" /\ o # "local" => told'[u] \in Waiting
          /\ told'[u] \notin {"new", "refused"}
      BY <2>4, <2>6 DEF Waiting
    <2>8. u \in rerunning => told'[u] \in {"started", "stopped"}
      BY <2>6 DEF IInv, ToldOK
    <2>9. LoadImapUrl(u, o, cs)
      BY <1>6, <2>1, <2>3
    <2>10. QED
      BY <1>1, <1>2, <2>2, <2>4, <2>5, <2>6, <2>7, <2>8, <2>9, LoadImapUrlKeeps
  <1>7. QED
    BY <1>3, <1>5, <1>6 DEF LoadNextQueuedUrl

LEMMA RetryUrlKeeps ==
  ASSUME IInv, NEW c \in Connections, RetryUrl(c)
  PROVE  IInv'
  <1>1. PICK cs : cs = [conn EXCEPT ![c] = Absent]
    OBVIOUS
  <1>2. /\ UNCHANGED <<queue, cancelled, rerunning, suspended, online, loop>>
        /\ conn[c].phase = "rerun"
    BY DEF RetryUrl, In
  <1>3. /\ told \in [Urls -> States] /\ queue \in Seq(Urls)
        /\ loop \in Connections \cup {NoConnection, "main"}
        /\ \A i, j \in DOMAIN queue : queue[i] = queue[j] => i = j
        /\ conn \in [Connections -> ConnectionRecord]
    BY DEF IInv, Typed, Marks, PlacesOK
  <1>4. cs \in [Connections -> ConnectionRecord] /\ cs[c] = Absent /\ \A d \in Connections : d # c => cs[d] = conn[d]
    BY <1>1, <1>3, RecordFacts
  <1>5. Left(cs)
    BY <1>2, <1>4 DEF Left
  <1>6. PICK u : u = conn[c].retry
    OBVIOUS
  <1>7. u \in Urls /\ told[u] \in Waiting
    <2>1. RecordOK(conn[c]) /\ ToldOf(conn[c], told) /\ u \in Urls \cup {NoUrl}
      BY <1>3, <1>6 DEF IInv, PhasesOK, ToldOK, ConnectionRecord
    <2>2. u # NoUrl
      BY <1>2, <1>6, <2>1 DEF RecordOK
    <2>3. QED
      BY <1>6, <2>1, <2>2 DEF ToldOf
  <1>8. On(c, u)
    BY <1>6 DEF On, Holds
  <1>9. \A d \in Connections : On(d, u) => conn[d].phase = "rerun" /\ cs[d] = Absent
    BY <1>2, <1>4, <1>7, <1>8 DEF IInv, PlacesOK
  <1>10. u \notin Range(queue)
    BY <1>7, <1>8 DEF IInv, PlacesOK
  <1>11. ASSUME NEW o \in {"none", "runs", "local", "fails"}, LoadImapUrl(conn[c].retry, o, [conn EXCEPT ![c] = Absent]),
                o = "local" => SetUrlState(conn[c].retry, "stopped"),
                o # "local" => UNCHANGED told
         PROVE  IInv'
    <2>1. LoadImapUrl(u, o, cs)
      BY <1>1, <1>6, <1>11
    <2>2. /\ told' \in [Urls -> States] /\ told'[u] = (IF o = "local" THEN "stopped" ELSE told[u])
          /\ \A v \in Urls : v # u => told'[v] = told[v]
      BY <1>3, <1>6, <1>7, <1>11 DEF SetUrlState, States
    <2>3. /\ o # "local" => told'[u] \in Waiting
          /\ told'[u] \notin {"new", "refused"}
      BY <1>7, <2>2 DEF Waiting
    <2>4. u \in rerunning => told'[u] \in {"started", "stopped"}
      BY <2>2 DEF IInv, ToldOK
    <2>5. /\ queue' \in Seq(Urls) /\ Range(queue') \subseteq Range(queue) \cup {u}
          /\ \A i, j \in DOMAIN queue' : queue'[i] = queue'[j] => i = j
          /\ u \notin Range(queue')
          /\ loop' \in Connections \cup {NoConnection, "main"}
      BY <1>2, <1>3, <1>10
    <2>6. QED
      BY <1>2, <1>4, <1>5, <1>7, <1>9, <2>1, <2>2, <2>3, <2>4, <2>5, LoadImapUrlKeeps
  <1>12. QED
    BY <1>11 DEF RetryUrl
------------------------------------------------------------------------------
(***************************************************************************)
(* The other actions keep the invariant.                                   *)
(***************************************************************************)
\* What the invariant says of one connection.
LEMMA AtConnection ==
  ASSUME IInv, NEW c \in Connections
  PROVE  /\ conn[c] \in ConnectionRecord /\ RecordOK(conn[c]) /\ ToldOf(conn[c], told)
         /\ conn[c].url \in Urls \cup {NoUrl} /\ conn[c].retry \in Urls \cup {NoUrl}
         /\ conn[c].phase \in {"run", "selected", "suspend", "release", "retry"} => conn[c].url \in Urls
         /\ conn[c].phase \in {"run", "selected", "suspend"} => told[conn[c].url] = "started"
         /\ conn[c].url # NoUrl /\ conn[c].phase # "release" => On(c, conn[c].url)
         /\ c \in Range(cache) => conn[c].phase \notin {"none", "rerun"} /\ ~conn[c].die
  <1>1. conn[c] \in ConnectionRecord /\ RecordOK(conn[c]) /\ ToldOf(conn[c], told)
    BY DEF IInv, Typed, PhasesOK, ToldOK
  <1>2. conn[c].url \in Urls \cup {NoUrl} /\ conn[c].retry \in Urls \cup {NoUrl}
    BY <1>1 DEF ConnectionRecord
  <1>3. conn[c].phase \in {"run", "selected", "suspend", "release", "retry"} => conn[c].url \in Urls
    BY <1>1, <1>2 DEF RecordOK
  <1>4. conn[c].phase \in {"run", "selected", "suspend"} => told[conn[c].url] = "started"
    BY <1>1 DEF ToldOf
  <1>5. conn[c].url # NoUrl /\ conn[c].phase # "release" => On(c, conn[c].url)
    BY DEF On, Holds
  <1>6. c \in Range(cache) => conn[c].phase \notin {"none", "rerun"} /\ ~conn[c].die
    BY DEF IInv, CacheOK
  <1>7. QED
    BY <1>1, <1>2, <1>3, <1>4, <1>5, <1>6

\* A connection that goes on to another phase, or ends; neither the queue nor
\* what is told changes.
LEMMA GoesOnKeeps ==
  ASSUME IInv, NEW c \in Connections, NEW r \in ConnectionRecord, Becomes(c, r),
         RecordOK(r), ToldOf(r, told),
         \A u \in Urls : Holds(r, u) => On(c, u),
         r.url \in {conn[c].url, NoUrl}, r.retry \in {conn[c].url, conn[c].retry, NoUrl},
         \/ cache' = cache /\ (c \in Range(cache) => r.phase \notin {"none", "rerun"} /\ ~r.die)
         \/ cache' = Without(cache, {c}),
         UNCHANGED <<queue, told, cancelled, suspended, online>>,
         loop' \in {loop, c}, events' \subseteq Behaviours,
         \A u \in rerunning' : u \in rerunning \/ (u \in Urls /\ told[u] = "started")
  PROVE  IInv'
  <1>1. Typed /\ ToldOK
    BY DEF IInv
  <1>2. Marks'
    BY <1>1 DEF Typed, Marks
  <1>3. /\ told' \in [Urls -> States] /\ queue' \in Seq(Urls)
        /\ Range(queue') \subseteq Range(queue)
        /\ \A i, j \in DOMAIN queue' : queue'[i] = queue'[j] => i = j
        /\ \A u \in Urls : told'[u] # told[u] => told'[u] # "new" /\ \A d \in Connections : On(d, u) => d = c
    BY DEF IInv, Typed, PlacesOK
  <1>4. /\ \A u \in Range(queue') : told'[u] \in Waiting
        /\ \A u \in rerunning' : told'[u] \in {"started", "stopped"}
        /\ \A u \in cancelled' : told'[u] \notin {"new", "refused"}
    BY <1>1 DEF ToldOK
  <1>5. ToldOf(r, told')
    OBVIOUS
  <1>6. QED
    BY <1>2, <1>3, <1>4, <1>5, ThreadStepKeeps

LEMMA EndsKeeps ==
  ASSUME IInv, NEW c \in Connections, Ends(c),
         UNCHANGED <<queue, told, cancelled, rerunning, suspended, online, loop, events>>
  PROVE  IInv'
  <1>1. Becomes(c, Absent) /\ cache' = Without(cache, {c})
    BY DEF Ends, Leaves
  <1>2. /\ Absent \in ConnectionRecord /\ Absent.url = NoUrl /\ Absent.retry = NoUrl
        /\ RecordOK(Absent) /\ ToldOf(Absent, told)
        /\ \A u \in Urls : ~Holds(Absent, u)
    BY RecordFacts, AbsentKeeps
  <1>3. events' \subseteq Behaviours
    BY DEF IInv, Typed, Marks
  <1>4. QED
    BY <1>1, <1>2, <1>3, GoesOnKeeps

LEMMA ThreadDiesKeeps ==
  ASSUME IInv, NEW c \in Connections, ThreadDies(c)
  PROVE  IInv'
  BY EndsKeeps DEF ThreadDies

\* A record that keeps its URLs while the phase changes to one that demands no
\* more of the listeners than p did.
LEMMA PhaseChanges ==
  ASSUME NEW s \in ConnectionRecord, NEW r \in ConnectionRecord, NEW t,
         RecordOK(s), ToldOf(s, t),
         r.url = s.url, r.retry = s.retry, r.busy = s.busy,
         s.phase \notin {"none", "release"}, r.phase # "none",
         r.phase \in {"remove", "rerun"} <=> s.phase \in {"remove", "rerun"},
         r.phase \in {"run", "selected", "suspend", "release", "retry"} => r.url # NoUrl,
         s.phase = "wait" /\ s.url # NoUrl => t[s.url] \in Waiting \/ r.phase = "release",
         r.phase \in {"run", "selected", "suspend"} => t[r.url] = "started"
  PROVE  /\ RecordOK(r) /\ ToldOf(r, t)
         /\ \A u : Holds(r, u) => Holds(s, u)
  <1>1. RecordOK(r)
    BY DEF RecordOK
  <1>2. ToldOf(r, t)
    BY DEF ToldOf
  <1>3. \A u : Holds(r, u) => Holds(s, u)
    BY DEF Holds
  <1>4. QED
    BY <1>1, <1>2, <1>3

\* A connection that begins with its URL, or only tells that it starts.
LEMMA BeginsKeeps ==
  ASSUME IInv, NEW c \in Connections, HasUrlToRun(c), NEW r \in ConnectionRecord, Becomes(c, r),
         r.url = conn[c].url, r.retry = conn[c].retry, r.busy = conn[c].busy, r.die = conn[c].die,
         \/ r.phase \in {"selected", "run"} /\ Started(conn[c].url)
         \/ r.phase = "wait" /\ (Started(conn[c].url) \/ UNCHANGED told),
         UNCHANGED <<queue, cache, cancelled, rerunning, suspended, online, loop>>,
         events' \subseteq Behaviours
  PROVE  IInv'
  <1>1. PICK s \in ConnectionRecord : s = conn[c] /\ RecordOK(s) /\ ToldOf(s, told) /\ s.url \in Urls \cup {NoUrl}
    BY AtConnection
  <1>2. /\ s.phase = "wait" /\ s.ready /\ ~s.die /\ s.url \in Urls
        /\ Started(s.url) \/ (r.phase = "wait" /\ UNCHANGED told)
        /\ UNCHANGED <<queue, cache, cancelled, rerunning, suspended, online, loop>>
    BY <1>1 DEF HasUrlToRun, In
  <1>5. /\ r.phase \in {"selected", "run", "wait"} /\ r.url = s.url /\ r.retry = s.retry
        /\ r.busy = s.busy /\ r.die = s.die
    BY <1>1
  <1>6. told[s.url] \in Waiting /\ On(c, s.url)
    BY <1>1, <1>2, ImapAssumption DEF ToldOf, On, Holds
  <1>7. /\ told' \in [Urls -> States] /\ \A u \in Urls : u # s.url => told'[u] = told[u]
        /\ told'[s.url] = "started" \/ (r.phase = "wait" /\ told'[s.url] = told[s.url])
    <2>1. told \in [Urls -> States] /\ (s.url \in rerunning => told[s.url] = "started")
      BY <1>6 DEF IInv, Typed, ToldOK, Waiting
    <2>2. CASE Started(s.url) /\ (told[s.url] = "started" \/ s.url \in rerunning)
      BY <2>1, <2>2 DEF Started
    <2>3. CASE Started(s.url) /\ ~(told[s.url] = "started" \/ s.url \in rerunning)
      BY <1>2, <2>1, <2>3 DEF Started, SetUrlState, States
    <2>4. CASE r.phase = "wait" /\ UNCHANGED told
      BY <2>1, <2>4
    <2>5. QED
      BY <1>2, <2>2, <2>3, <2>4
  <1>8. RecordOK(r) /\ ToldOf(r, told') /\ \A u : Holds(r, u) => Holds(s, u)
    <2>1. s.url # NoUrl /\ s.retry = NoUrl
      BY <1>1, <1>2, ImapAssumption DEF RecordOK
    <2>2. RecordOK(r)
      BY <1>1, <1>2, <1>5, <2>1 DEF RecordOK
    <2>3. ToldOf(r, told')
      BY <1>5, <1>6, <1>7, <2>1 DEF ToldOf, Waiting
    <2>4. \A u : Holds(r, u) => Holds(s, u)
      BY <1>2, <1>5, <2>1 DEF Holds
    <2>5. QED
      BY <2>2, <2>3, <2>4
  <1>9. \A u \in Urls : Holds(r, u) => On(c, u)
    BY <1>1, <1>8 DEF On
  <1>10. \A u \in Urls : told'[u] # told[u] => told'[u] # "new" /\ \A d \in Connections : On(d, u) => d = c
    <2>1. \A d \in Connections : On(d, s.url) => d = c
      BY <1>2, <1>6 DEF IInv, PlacesOK
    <2>2. told[s.url] # "new"
      BY <1>6 DEF Waiting
    <2>3. QED
      BY <1>7, <2>1, <2>2
  <1>11. /\ queue' \in Seq(Urls) /\ Range(queue') \subseteq Range(queue)
         /\ \A i, j \in DOMAIN queue' : queue'[i] = queue'[j] => i = j
         /\ Marks'
    BY <1>2 DEF IInv, Typed, Marks, PlacesOK
  <1>12. /\ \A u \in Range(queue') : told'[u] \in Waiting
         /\ \A u \in rerunning' : told'[u] \in {"started", "stopped"}
         /\ \A u \in cancelled' : told'[u] \notin {"new", "refused"}
    <2>1. Range(queue) \subseteq Urls /\ rerunning \subseteq Urls /\ cancelled \subseteq Urls
      BY Elements DEF IInv, Typed, Marks
    <2>2. QED
      BY <1>2, <1>6, <1>7, <2>1 DEF IInv, ToldOK, Waiting
  <1>13. c \in Range(cache) => r.phase \notin {"none", "rerun"} /\ ~r.die
    BY <1>1, <1>5 DEF IInv, CacheOK
  <1>14. /\ r.url \in {conn[c].url, NoUrl} /\ r.retry \in {conn[c].url, conn[c].retry, NoUrl}
         /\ cache' = cache /\ (c \in Range(cache) => r.phase \notin {"none", "rerun"} /\ ~r.die)
    BY <1>1, <1>2, <1>5, <1>13
  <1>15. /\ told' \in [Urls -> States]
         /\ RecordOK(r) /\ ToldOf(r, told')
    BY <1>7, <1>8
  <1>16. QED
    BY <1>9, <1>10, <1>11, <1>12, <1>14, <1>15, ThreadStepKeeps

LEMMA ProcessCurrentURLRecord ==
  ASSUME IInv, NEW c \in Connections, ProcessCurrentURL(c)
  PROVE  \E r \in ConnectionRecord :
           /\ Becomes(c, r)
           /\ r.phase \in {"selected", "run"} /\ r.url = conn[c].url /\ r.retry = conn[c].retry
           /\ r.busy = conn[c].busy /\ r.die = conn[c].die /\ r.sel = conn[c].sel
  <1>1. PICK s \in ConnectionRecord : s = conn[c]
    BY AtConnection
  <1>2. PICK p \in {"selected", "run"} : p = IF Dying(c) THEN "selected" ELSE "run"
    OBVIOUS
  <1>3. PICK m \in BOOLEAN : m = (s.url \in suspended)
    <2>1. CASE s.url \in suspended
      <3>1. TRUE = (s.url \in suspended)
        BY <2>1
      <3>2. QED
        BY <3>1
    <2>2. CASE s.url \notin suspended
      <3>1. FALSE = (s.url \in suspended)
        BY <2>2
      <3>2. QED
        BY <3>1
    <2>3. QED
      BY <2>1, <2>2
  <1>4. PICK r : /\ r = [s EXCEPT !.phase = p, !.ready = FALSE, !.transport = "used", !.status = "ok", !.more = m]
                 /\ Becomes(c, r)
    BY <1>1, <1>2, <1>3 DEF ProcessCurrentURL
  <1>5. p \in Phases
    BY <1>2 DEF Phases
  <1>6. /\ r \in ConnectionRecord /\ r.phase \in {"selected", "run"} /\ r.url = s.url /\ r.retry = s.retry
        /\ r.busy = s.busy /\ r.die = s.die /\ r.sel = s.sel
    BY <1>2, <1>3, <1>4, <1>5 DEF ConnectionRecord
  <1>7. QED
    BY <1>1, <1>4, <1>6

LEMMA ProcessCurrentURLKeeps ==
  ASSUME IInv, NEW c \in Connections, ProcessCurrentURL(c)
  PROVE  IInv'
  <1>1. /\ HasUrlToRun(c) /\ Started(conn[c].url)
        /\ UNCHANGED <<queue, cache, cancelled, rerunning, suspended, online, loop, events>>
    BY DEF ProcessCurrentURL
  <1>2. events' \subseteq Behaviours
    BY <1>1 DEF IInv, Typed, Marks
  <1>3. QED
    BY <1>1, <1>2, ProcessCurrentURLRecord, BeginsKeeps

LEMMA ReturnsEarlyRecord ==
  ASSUME IInv, NEW c \in Connections, ReturnsEarly(c)
  PROVE  \E r \in ConnectionRecord :
           /\ Becomes(c, r)
           /\ r.phase = "wait" /\ r.url = conn[c].url /\ r.retry = conn[c].retry
           /\ r.busy = conn[c].busy /\ r.die = conn[c].die /\ r.sel = conn[c].sel
  <1>1. PICK s \in ConnectionRecord : s = conn[c]
    BY AtConnection
  <1>2. PICK r : r = [s EXCEPT !.ready = FALSE] /\ Becomes(c, r) /\ s.phase = "wait"
    BY <1>1 DEF ReturnsEarly, HasUrlToRun, In
  <1>3. /\ r \in ConnectionRecord /\ r.phase = "wait" /\ r.url = s.url /\ r.retry = s.retry
        /\ r.busy = s.busy /\ r.die = s.die /\ r.sel = s.sel
    BY <1>2 DEF ConnectionRecord
  <1>4. QED
    BY <1>1, <1>2, <1>3

\* A connection that goes on with the URLs it has.
LEMMA AdvanceKeeps ==
  ASSUME IInv, NEW c \in Connections, NEW r \in ConnectionRecord, Becomes(c, r),
         r.url = conn[c].url, r.retry = conn[c].retry, r.busy = conn[c].busy,
         conn[c].phase \notin {"none", "release"}, r.phase # "none",
         r.phase \in {"remove", "rerun"} <=> conn[c].phase \in {"remove", "rerun"},
         r.phase \in {"run", "selected", "suspend", "release", "retry"} => r.url # NoUrl,
         conn[c].phase = "wait" /\ conn[c].url # NoUrl => told[conn[c].url] \in Waiting,
         r.phase \in {"run", "selected", "suspend"} => told[r.url] = "started",
         \/ cache' = cache /\ r.die = conn[c].die /\ r.phase # "rerun"
         \/ cache' = Without(cache, {c}),
         UNCHANGED <<queue, told, cancelled, suspended, online>>,
         loop' \in {loop, c}, events' \subseteq Behaviours,
         \A u \in rerunning' : u \in rerunning \/ (u \in Urls /\ told[u] = "started")
  PROVE  IInv'
  <1>1. PICK s \in ConnectionRecord : s = conn[c] /\ RecordOK(s) /\ ToldOf(s, told)
    BY AtConnection
  <1>2. /\ r.url = s.url /\ r.retry = s.retry /\ r.busy = s.busy
        /\ s.phase \notin {"none", "release"}
        /\ r.phase \in {"remove", "rerun"} <=> s.phase \in {"remove", "rerun"}
        /\ s.phase = "wait" /\ s.url # NoUrl => told[s.url] \in Waiting \/ r.phase = "release"
    BY <1>1
  <1>3. PICK t : t = told
    OBVIOUS
  <1>4. RecordOK(r) /\ ToldOf(r, t) /\ \A u : Holds(r, u) => Holds(s, u)
    <2>1. /\ ToldOf(s, t) /\ (r.phase \in {"run", "selected", "suspend"} => t[r.url] = "started")
          /\ (s.phase = "wait" /\ s.url # NoUrl => t[s.url] \in Waiting \/ r.phase = "release")
      BY <1>1, <1>2, <1>3
    <2>2. QED
      BY <1>1, <1>2, <2>1, PhaseChanges
  <1>5. RecordOK(r) /\ ToldOf(r, told) /\ \A u \in Urls : Holds(r, u) => On(c, u)
    BY <1>1, <1>3, <1>4 DEF On
  <1>6. \/ cache' = cache /\ (c \in Range(cache) => r.phase \notin {"none", "rerun"} /\ ~r.die)
        \/ cache' = Without(cache, {c})
    BY DEF IInv, CacheOK
  <1>7. /\ r.url \in {conn[c].url, NoUrl} /\ r.retry \in {conn[c].url, conn[c].retry, NoUrl}
    OBVIOUS
  <1>8. QED
    BY <1>5, <1>6, <1>7, GoesOnKeeps

LEMMA Happened ==
  ASSUME IInv, NEW b, Happens(b)
  PROVE  events' \subseteq Behaviours
  BY DEF IInv, Typed, Marks, Happens, MayHappen

LEMMA ReturnsEarlyKeeps ==
  ASSUME IInv, NEW c \in Connections, ReturnsEarly(c)
  PROVE  IInv'
  <1>1. /\ HasUrlToRun(c) /\ (Started(conn[c].url) \/ UNCHANGED told)
        /\ UNCHANGED <<queue, cache, cancelled, rerunning, suspended, online, loop>>
        /\ Happens("returns")
    BY DEF ReturnsEarly
  <1>2. events' \subseteq Behaviours
    BY <1>1, Happened
  <1>3. QED
    BY <1>1, <1>2, ReturnsEarlyRecord, BeginsKeeps

LEMMA FoundDeadKeeps ==
  ASSUME IInv, NEW c \in Connections, FoundDead(c)
  PROVE  IInv'
  <1>1. PICK s \in ConnectionRecord : s = conn[c] /\ RecordOK(s) /\ ToldOf(s, told) /\ s.url \in Urls \cup {NoUrl}
    BY AtConnection
  <1>2. /\ s.phase = "wait" /\ s.ready /\ ~s.die /\ s.url # NoUrl
        /\ UNCHANGED <<queue, cache, told, cancelled, suspended, online, loop>>
        /\ rerunning' \subseteq rerunning
        /\ Happens("loses")
    BY <1>1 DEF FoundDead, HasUrlToRun, In
  <1>3. PICK r : r = [s EXCEPT !.phase = "retry", !.ready = FALSE] /\ Becomes(c, r)
    BY <1>1 DEF FoundDead
  <1>4. /\ r \in ConnectionRecord /\ r.phase = "retry" /\ r.url = s.url /\ r.retry = s.retry
        /\ r.busy = s.busy /\ r.die = s.die
    BY <1>3 DEF ConnectionRecord, Phases
  <1>5. told[s.url] \in Waiting
    BY <1>1, <1>2 DEF ToldOf
  <1>6. events' \subseteq Behaviours
    BY <1>2, Happened
  <1>7. QED
    BY <1>1, <1>2, <1>3, <1>4, <1>5, <1>6, AdvanceKeeps

LEMMA SelectMailboxKeeps ==
  ASSUME IInv, NEW c \in Connections, SelectMailbox(c)
  PROVE  IInv'
  <1>1. PICK s \in ConnectionRecord : s = conn[c] /\ RecordOK(s) /\ ToldOf(s, told) /\ s.url \in Urls \cup {NoUrl}
    BY AtConnection
  <1>2. /\ s.phase = "run"
        /\ UNCHANGED <<queue, cache, told, cancelled, suspended, online, loop, events>>
    BY <1>1 DEF SelectMailbox, In
  <1>3. s.url \in Urls /\ told[s.url] = "started" /\ s.url # NoUrl
    BY <1>1, <1>2, AtConnection, ImapAssumption
  <1>4. PICK f \in Folders \cup {NoFolder}, m \in BOOLEAN :
          /\ Becomes(c, [s EXCEPT !.phase = "selected", !.sel = f, !.more = m])
          /\ rerunning' \subseteq rerunning \cup {s.url}
    <2>1. s.sel \in Folders \cup {NoFolder}
      BY DEF ConnectionRecord
    <2>2. FolderOf[s.url] \in Folders
      BY <1>3, ImapAssumption
    <2>3. \A g : MoreHeaders(c, g) \subseteq BOOLEAN
      BY DEF MoreHeaders
    <2>4. QED
      BY <1>1, <2>1, <2>2, <2>3 DEF SelectMailbox
  <1>5. PICK r : r = [s EXCEPT !.phase = "selected", !.sel = f, !.more = m]
    OBVIOUS
  <1>6. /\ r \in ConnectionRecord /\ r.phase = "selected" /\ r.url = s.url /\ r.retry = s.retry
        /\ r.busy = s.busy /\ r.die = s.die
    BY <1>5 DEF ConnectionRecord, Phases
  <1>7. /\ Becomes(c, r) /\ events' \subseteq Behaviours
        /\ \A u \in rerunning' : u \in rerunning \/ (u \in Urls /\ told[u] = "started")
    BY <1>2, <1>3, <1>4, <1>5 DEF IInv, Typed, Marks
  <1>8. QED
    BY <1>1, <1>2, <1>3, <1>6, <1>7, AdvanceKeeps

LEMMA ConnectionLostKeeps ==
  ASSUME IInv, NEW c \in Connections, ConnectionLost(c)
  PROVE  IInv'
  <1>1. PICK s \in ConnectionRecord : s = conn[c] /\ RecordOK(s) /\ ToldOf(s, told) /\ s.url \in Urls \cup {NoUrl}
    BY AtConnection
  <1>2. /\ s.phase \in {"run", "selected"}
        /\ UNCHANGED <<queue, told, cancelled, suspended, online, loop>>
        /\ cache' = Without(cache, {c})
        /\ Happens("loses")
    BY <1>1 DEF ConnectionLost, Leaves
  <1>3. s.url \in Urls /\ told[s.url] = "started" /\ s.url # NoUrl
    BY <1>1, <1>2, AtConnection, ImapAssumption
  <1>4. PICK next \in {"selected", "retry"} :
          /\ Becomes(c, [s EXCEPT !.phase = next, !.transport = "none", !.die = TRUE, !.status = "failed"])
          /\ rerunning' = IF next = "retry" THEN rerunning \cup {s.url} ELSE rerunning
    BY <1>1 DEF ConnectionLost
  <1>5. PICK r : r = [s EXCEPT !.phase = next, !.transport = "none", !.die = TRUE, !.status = "failed"]
    OBVIOUS
  <1>6. /\ r \in ConnectionRecord /\ r.phase \in {"selected", "retry"} /\ r.url = s.url /\ r.retry = s.retry
        /\ r.busy = s.busy
    BY <1>5 DEF ConnectionRecord, Phases
  <1>7. /\ Becomes(c, r) /\ events' \subseteq Behaviours
        /\ \A u \in rerunning' : u \in rerunning \/ (u \in Urls /\ told[u] = "started")
    BY <1>2, <1>3, <1>4, <1>5, Happened
  <1>8. QED
    BY <1>1, <1>2, <1>3, <1>6, <1>7, AdvanceKeeps

LEMMA BadEndKeeps ==
  ASSUME IInv, NEW c \in Connections, BadEnd(c)
  PROVE  IInv'
  <1>1. PICK s \in ConnectionRecord : s = conn[c] /\ RecordOK(s) /\ ToldOf(s, told) /\ s.url \in Urls \cup {NoUrl}
    BY AtConnection
  <1>2. /\ s.phase = "run"
        /\ UNCHANGED <<queue, cache, told, cancelled, rerunning, suspended, online, loop>>
        /\ Happens("badEnd")
    BY <1>1 DEF BadEnd, In
  <1>3. s.url \in Urls /\ told[s.url] = "started" /\ s.url # NoUrl
    BY <1>1, <1>2, AtConnection, ImapAssumption
  <1>4. PICK f \in {"failed", "syntax"} : Becomes(c, [s EXCEPT !.phase = "selected", !.status = f])
    BY <1>1 DEF BadEnd
  <1>5. PICK r : r = [s EXCEPT !.phase = "selected", !.status = f]
    OBVIOUS
  <1>6. /\ r \in ConnectionRecord /\ r.phase = "selected" /\ r.url = s.url /\ r.retry = s.retry
        /\ r.busy = s.busy /\ r.die = s.die
    BY <1>5 DEF ConnectionRecord, Phases
  <1>7. Becomes(c, r) /\ events' \subseteq Behaviours
    BY <1>2, <1>4, <1>5, Happened
  <1>8. QED
    BY <1>1, <1>2, <1>3, <1>6, <1>7, AdvanceKeeps

LEMMA GoesRecord ==
  ASSUME IInv, NEW c \in Connections, NEW p \in Phases, Goes(c, p)
  PROVE  \E r \in ConnectionRecord :
           /\ Becomes(c, r)
           /\ r.phase = p /\ r.url = conn[c].url /\ r.retry = conn[c].retry /\ r.busy = conn[c].busy
           /\ r.die = conn[c].die /\ r.sel = conn[c].sel /\ r.status = conn[c].status
  <1>1. PICK s \in ConnectionRecord : s = conn[c]
    BY AtConnection
  <1>2. PICK r : r = [s EXCEPT !.phase = p] /\ Becomes(c, r)
    BY <1>1 DEF Goes
  <1>3. /\ r \in ConnectionRecord
        /\ r.phase = p /\ r.url = s.url /\ r.retry = s.retry /\ r.busy = s.busy
        /\ r.die = s.die /\ r.sel = s.sel /\ r.status = s.status
    BY <1>2 DEF ConnectionRecord
  <1>4. QED
    BY <1>1, <1>2, <1>3

LEMMA UrlStopsKeeps ==
  ASSUME IInv, NEW c \in Connections, UrlStops(c)
  PROVE  IInv'
  <1>1. PICK s \in ConnectionRecord : s = conn[c] /\ RecordOK(s) /\ ToldOf(s, told) /\ s.url \in Urls \cup {NoUrl}
    BY AtConnection
  <1>2. /\ s.phase = "selected"
        /\ UNCHANGED <<queue, cache, cancelled, rerunning, suspended, online, loop, events>>
    BY <1>1 DEF UrlStops, In
  <1>3. /\ s.url \in Urls /\ told[s.url] = "started" /\ s.url # NoUrl /\ s.retry = NoUrl
        /\ On(c, s.url)
    BY <1>1, <1>2, AtConnection, ImapAssumption DEF RecordOK, On, Holds
  <1>4. Marks' /\ events' \subseteq Behaviours
    BY <1>2 DEF IInv, Typed, Marks
  <1>5. CASE Stopped(s.url) /\ Goes(c, "release")
    <2>1. PICK r \in ConnectionRecord :
            /\ Becomes(c, r)
            /\ r.phase = "release" /\ r.url = s.url /\ r.retry = s.retry /\ r.busy = s.busy
            /\ r.die = s.die
      BY <1>1, <1>5, GoesRecord DEF Phases
    <2>2. told' \in [Urls -> States] /\ told'[s.url] = "stopped" /\ \A u \in Urls : u # s.url => told'[u] = told[u]
      BY <1>3, <1>5 DEF Stopped, SetUrlState, States, IInv, Typed
    <2>3. RecordOK(r) /\ ToldOf(r, told')
      BY <1>1, <1>2, <1>3, <2>1 DEF RecordOK, ToldOf
    <2>4. \A u \in Urls : Holds(r, u) => On(c, u)
      BY <1>3, <2>1, ImapAssumption DEF Holds
    <2>5. \A u \in Urls : told'[u] # told[u] => told'[u] # "new" /\ \A d \in Connections : On(d, u) => d = c
      <3>1. \A d \in Connections : On(d, s.url) => d = c
        BY <1>3 DEF IInv, PlacesOK
      <3>2. QED
        BY <2>2, <3>1
    <2>6. /\ queue' \in Seq(Urls) /\ Range(queue') \subseteq Range(queue)
          /\ \A i, j \in DOMAIN queue' : queue'[i] = queue'[j] => i = j
      BY <1>2 DEF IInv, Typed, PlacesOK
    <2>7. \A u \in Range(queue') : told'[u] \in Waiting
      <3>1. s.url \notin Range(queue) /\ Range(queue) \subseteq Urls
        BY <1>3, Elements DEF IInv, PlacesOK, Typed
      <3>2. QED
        BY <1>2, <2>2, <3>1 DEF IInv, ToldOK
    <2>8. /\ \A u \in rerunning' : told'[u] \in {"started", "stopped"}
          /\ \A u \in cancelled' : told'[u] \notin {"new", "refused"}
      BY <1>2, <2>2 DEF IInv, ToldOK, Typed, Marks
    <2>9. /\ r.url \in {conn[c].url, NoUrl} /\ r.retry \in {conn[c].url, conn[c].retry, NoUrl}
          /\ cache' = cache /\ (c \in Range(cache) => r.phase \notin {"none", "rerun"} /\ ~r.die)
      BY <1>1, <1>2, <2>1 DEF IInv, CacheOK
    <2>10. told' \in [Urls -> States]
      BY <2>2
    <2>11. QED
      BY <1>4, <2>1, <2>3, <2>4, <2>5, <2>6, <2>7, <2>8, <2>9, <2>10, ThreadStepKeeps
  <1>6. CASE Goes(c, "suspend") /\ UNCHANGED told
    <2>1. PICK r \in ConnectionRecord :
            /\ Becomes(c, r)
            /\ r.phase = "suspend" /\ r.url = s.url /\ r.retry = s.retry /\ r.busy = s.busy
            /\ r.die = s.die
      BY <1>1, <1>6, GoesRecord DEF Phases
    <2>2. QED
      BY <1>1, <1>2, <1>3, <1>4, <1>6, <2>1, AdvanceKeeps
  <1>7. QED
    BY <1>1, <1>5, <1>6 DEF UrlStops

LEMMA SuspendUrlKeeps ==
  ASSUME IInv, NEW c \in Connections, SuspendUrl(c)
  PROVE  IInv'
  <1>1. PICK s \in ConnectionRecord : s = conn[c] /\ RecordOK(s) /\ ToldOf(s, told) /\ s.url \in Urls \cup {NoUrl}
    BY AtConnection
  <1>2. /\ s.phase = "suspend"
        /\ queue' = Append(queue, s.url)
        /\ suspended' = suspended \cup {s.url}
        /\ UNCHANGED <<cache, told, cancelled, rerunning, online, loop, events>>
        /\ Goes(c, "release")
    BY <1>1 DEF SuspendUrl, In
  <1>3. /\ s.url \in Urls /\ told[s.url] = "started" /\ s.url # NoUrl /\ s.retry = NoUrl
        /\ On(c, s.url)
    BY <1>1, <1>2, AtConnection, ImapAssumption DEF RecordOK, On, Holds
  <1>4. PICK u \in Urls : u = s.url
    BY <1>3
  <1>5. PICK r \in ConnectionRecord :
          /\ Becomes(c, r)
          /\ r.phase = "release" /\ r.url = s.url /\ r.retry = s.retry /\ r.busy = s.busy
          /\ r.die = s.die
    BY <1>1, <1>2, GoesRecord DEF Phases
  <1>6. Typed /\ PlacesOK
    BY DEF IInv
  <1>7. /\ conn' \in [Connections -> ConnectionRecord] /\ conn'[c] = r
        /\ \A d \in Connections : d # c => conn'[d] = conn[d]
    BY <1>5, <1>6, BecomesRecord
  <1>8. Marks'
    BY <1>2, <1>3 DEF IInv, Typed, Marks
  <1>9. /\ queue' \in Seq(Urls) /\ Range(queue') = Range(queue) \cup {u}
        /\ \A i, j \in DOMAIN queue' : queue'[i] = queue'[j] => i = j
    <2>1. u \notin Range(queue) /\ queue \in Seq(Urls) /\ \A i, j \in DOMAIN queue : queue[i] = queue[j] => i = j
      BY <1>3, <1>4, <1>6 DEF PlacesOK, Typed
    <2>2. /\ Append(queue, u) \in Seq(Urls) /\ Range(Append(queue, u)) = Range(queue) \cup {u}
          /\ \A i, j \in DOMAIN Append(queue, u) : Append(queue, u)[i] = Append(queue, u)[j] => i = j
      BY <2>1, AppendNew
    <2>3. QED
      BY <1>2, <1>4, <2>2
  <1>10. PlacesOK'
    <2>1. \A v \in Urls : ~Holds(r, v)
      BY <1>3, <1>5, ImapAssumption DEF Holds
    <2>2. ASSUME NEW d \in Connections, NEW v \in Urls, Holds(conn'[d], v) PROVE d # c /\ On(d, v)
      BY <1>7, <2>1, <2>2 DEF On
    <2>3. /\ \A d \in Connections, v \in Urls : v # u /\ On(d, v)' => On(d, v)
          /\ \A d \in Connections : ~On(d, u)'
      <3>1. \A d \in Connections : On(d, u) => d = c
        BY <1>3, <1>4, <1>6 DEF PlacesOK
      <3>2. QED
        BY <2>2, <3>1 DEF On
    <2>4. \A d \in Connections, v \in Urls : v # u /\ (conn'[d].url = v \/ conn'[d].retry = v) =>
            conn[d].url = v \/ conn[d].retry = v
      BY <1>1, <1>5, <1>7
    <2>5. \A v \in Urls : told'[v] = "new" => told[v] = "new" /\ v # u
      BY <1>2, <1>3, <1>4
    <2>6. /\ \A d, e \in Connections : On(d, u)' /\ On(e, u)' => d = e
          /\ u \in Range(queue') => \A d \in Connections : ~On(d, u)'
      BY <2>3
    <2>7. QED
      BY <1>6, <1>9, <2>3, <2>4, <2>5, <2>6, PlacesMove
  <1>11. RecordOK(r) /\ ToldOf(r, told')
    BY <1>1, <1>2, <1>3, <1>5 DEF RecordOK, ToldOf
  <1>12. PICK moving \in SUBSET Connections : moving = {c}
    OBVIOUS
  <1>13. /\ \A d \in Connections \ moving : Same(conn[d], conn'[d])
         /\ \A d \in moving : RecordOK(conn'[d]) /\ ToldOf(conn'[d], told')
         /\ \A d \in Connections \ moving, v \in Urls : On(d, v) => told'[v] = told[v]
    BY <1>2, <1>7, <1>11, <1>12, SameItself
  <1>14. /\ cache' \in Seq(Connections) /\ told' \in [Urls -> States]
         /\ \A i, j \in DOMAIN cache' : cache'[i] = cache'[j] => i = j
         /\ \A d \in Range(cache') :
              /\ d \notin moving => d \in Range(cache) /\ conn'[d] = conn[d]
              /\ d \in moving => conn'[d].phase \notin {"none", "rerun"} /\ ~conn'[d].die
    <2>1. cache \in Seq(Connections) /\ told \in [Urls -> States] /\ Range(cache) \subseteq Connections
      BY <1>6, Elements DEF Typed
    <2>2. c \in Range(cache) => ~s.die
      BY <1>1 DEF IInv, CacheOK
    <2>3. \A i, j \in DOMAIN cache : cache[i] = cache[j] => i = j
      BY DEF IInv, CacheOK
    <2>4. QED
      BY <1>2, <1>5, <1>7, <1>12, <2>1, <2>2, <2>3
  <1>15. \A v \in Range(queue') : told'[v] \in Waiting
    BY <1>2, <1>3, <1>4, <1>9 DEF IInv, ToldOK, Waiting
  <1>16. /\ \A v \in rerunning' : told'[v] \in {"started", "stopped"}
         /\ \A v \in cancelled' : told'[v] \notin {"new", "refused"}
    BY <1>2 DEF IInv, ToldOK
  <1>17. QED
    BY <1>7, <1>8, <1>9, <1>10, <1>13, <1>14, <1>15, <1>16, Step

LEMMA ReleaseUrlStateKeeps ==
  ASSUME IInv, NEW c \in Connections, ReleaseUrlState(c)
  PROVE  IInv'
  <1>1. PICK s \in ConnectionRecord : s = conn[c] /\ RecordOK(s) /\ ToldOf(s, told)
    BY AtConnection
  <1>2. /\ s.phase = "release"
        /\ UNCHANGED <<queue, cache, told, cancelled, rerunning, suspended, online, loop, events>>
    BY <1>1 DEF ReleaseUrlState, In
  <1>3. PICK r : r = [s EXCEPT !.phase = "next", !.url = NoUrl, !.busy = FALSE, !.more = FALSE] /\ Becomes(c, r)
    BY <1>1 DEF ReleaseUrlState
  <1>4. /\ r \in ConnectionRecord /\ r.phase = "next" /\ r.url = NoUrl /\ r.retry = s.retry
        /\ r.busy = FALSE /\ r.die = s.die
    BY <1>3 DEF ConnectionRecord, Phases
  <1>5. s.retry = NoUrl
    BY <1>1, <1>2 DEF RecordOK
  <1>6. RecordOK(r) /\ ToldOf(r, told) /\ \A u \in Urls : ~Holds(r, u)
    BY <1>4, <1>5, ImapAssumption DEF RecordOK, ToldOf, Holds
  <1>7. /\ r.url \in {conn[c].url, NoUrl} /\ r.retry \in {conn[c].url, conn[c].retry, NoUrl}
        /\ cache' = cache /\ (c \in Range(cache) => r.phase \notin {"none", "rerun"} /\ ~r.die)
        /\ events' \subseteq Behaviours
    BY <1>1, <1>2, <1>4 DEF IInv, CacheOK, Typed, Marks
  <1>8. QED
    BY <1>2, <1>3, <1>4, <1>6, <1>7, GoesOnKeeps

LEMMA ServeQueueKeeps ==
  ASSUME IInv, NEW c \in Connections, ServeQueue(c)
  PROVE  IInv'
  <1>1. PICK s \in ConnectionRecord : s = conn[c] /\ RecordOK(s) /\ ToldOf(s, told)
    BY AtConnection
  <1>2. /\ s.phase = "next"
        /\ UNCHANGED <<cache, cancelled, rerunning, suspended, online, events>>
        /\ Goes(c, "after")
    BY <1>1 DEF ServeQueue, In
  <1>3. PICK r \in ConnectionRecord :
          /\ Becomes(c, r)
          /\ r.phase = "after" /\ r.url = s.url /\ r.retry = s.retry /\ r.busy = s.busy
          /\ r.die = s.die
    BY <1>1, <1>2, GoesRecord DEF Phases
  <1>4. Typed /\ ToldOK /\ PlacesOK
    BY DEF IInv
  <1>5. CASE loop' = c /\ UNCHANGED <<queue, told>>
    <2>1. events' \subseteq Behaviours
      BY <1>2, <1>4 DEF Typed, Marks
    <2>2. QED
      BY <1>1, <1>2, <1>3, <1>5, <2>1, AdvanceKeeps
  <1>6. CASE /\ queue' = Without(queue, cancelled)
             /\ told' = [u \in Urls |-> IF u \in Range(queue) \cap cancelled THEN "stopped" ELSE told[u]]
             /\ UNCHANGED loop
    <2>1. /\ queue' \in Seq(Urls) /\ Range(queue') = Range(queue) \ cancelled
          /\ \A i, j \in DOMAIN queue' : queue'[i] = queue'[j] => i = j
      <3>1. queue \in Seq(Urls) /\ \A i, j \in DOMAIN queue : queue[i] = queue[j] => i = j
        BY <1>4 DEF Typed, PlacesOK
      <3>2. PICK X : X = cancelled
        OBVIOUS
      <3>3. /\ Without(queue, X) \in Seq(Urls)
            /\ Range(Without(queue, X)) = Range(queue) \ X
            /\ \A m, n \in DOMAIN Without(queue, X) : Without(queue, X)[m] = Without(queue, X)[n] => m = n
        BY <3>1, WithoutProperties
      <3>4. QED
        BY <1>6, <3>2, <3>3
    <2>2. /\ told' \in [Urls -> States]
          /\ \A u \in Urls : u \in Range(queue) \cap cancelled => told'[u] = "stopped"
          /\ \A u \in Urls : u \notin Range(queue) \cap cancelled => told'[u] = told[u]
      BY <1>4, <1>6 DEF Typed, States
    <2>3. \A u \in Urls : told'[u] # told[u] => told'[u] # "new" /\ \A d \in Connections : On(d, u) => d = c
      BY <1>4, <2>2 DEF PlacesOK
    <2>4. Range(queue') \subseteq Range(queue) /\ Range(queue) \subseteq Urls
      BY <1>4, <2>1, Elements DEF Typed
    <2>5. \A u \in Range(queue') : told'[u] \in Waiting
      BY <1>4, <2>1, <2>2, <2>4 DEF ToldOK
    <2>6. /\ \A u \in rerunning' : told'[u] \in {"started", "stopped"}
          /\ \A u \in cancelled' : told'[u] \notin {"new", "refused"}
      BY <1>2, <1>4, <2>2 DEF ToldOK, Typed, Marks
    <2>7. Marks'
      BY <1>2, <1>4, <1>6 DEF Typed, Marks
    <2>8. PICK t : t = told'
      OBVIOUS
    <2>9. RecordOK(r) /\ ToldOf(r, told')
      <3>1. r.retry = NoUrl
        BY <1>1, <1>2, <1>3 DEF RecordOK
      <3>2. r.url \in Urls /\ On(c, r.url) => told'[r.url] = told[r.url]
        BY <1>4, <2>2 DEF PlacesOK
      <3>3. r.url # NoUrl => r.url \in Urls /\ On(c, r.url) /\ told[r.url] \in Waiting
        BY <1>1, <1>2, <1>3, AtConnection DEF ToldOf, ConnectionRecord
      <3>4. RecordOK(r)
        BY <1>1, <1>2, <1>3 DEF RecordOK
      <3>5. ToldOf(r, told')
        BY <1>3, <3>1, <3>2, <3>3 DEF ToldOf
      <3>6. QED
        BY <3>4, <3>5
    <2>10. \A u \in Urls : Holds(r, u) => On(c, u)
      BY <1>1, <1>2, <1>3 DEF On, Holds
    <2>11. /\ r.url \in {conn[c].url, NoUrl} /\ r.retry \in {conn[c].url, conn[c].retry, NoUrl}
           /\ cache' = cache /\ (c \in Range(cache) => r.phase \notin {"none", "rerun"} /\ ~r.die)
      BY <1>1, <1>2, <1>3 DEF IInv, CacheOK
    <2>12. told' \in [Urls -> States]
      BY <2>2
    <2>13. QED
      BY <1>3, <2>1, <2>3, <2>4, <2>5, <2>6, <2>7, <2>9, <2>10, <2>11, <2>12, ThreadStepKeeps
  <1>7. QED
    BY <1>5, <1>6 DEF ServeQueue

LEMMA NextTurnKeeps ==
  ASSUME IInv, NEW c \in Connections, NextTurn(c)
  PROVE  IInv'
  <1>1. PICK s \in ConnectionRecord : s = conn[c] /\ RecordOK(s) /\ ToldOf(s, told)
    BY AtConnection
  <1>2. /\ s.phase = "after"
        /\ UNCHANGED <<queue, told, cancelled, rerunning, suspended, online, loop, events>>
    BY <1>1 DEF NextTurn, In
  <1>3. CASE Ends(c)
    BY <1>2, <1>3, EndsKeeps
  <1>4. CASE Goes(c, "wait") /\ UNCHANGED cache
    <2>1. PICK r \in ConnectionRecord :
            /\ Becomes(c, r)
            /\ r.phase = "wait" /\ r.url = s.url /\ r.retry = s.retry /\ r.busy = s.busy
            /\ r.die = s.die
      BY <1>1, <1>4, GoesRecord DEF Phases
    <2>2. events' \subseteq Behaviours
      BY <1>2 DEF IInv, Typed, Marks
    <2>3. QED
      BY <1>1, <1>2, <1>4, <2>1, <2>2, AdvanceKeeps
  <1>5. QED
    BY <1>3, <1>4 DEF NextTurn

LEMMA ReleaseForRetryKeeps ==
  ASSUME IInv, NEW c \in Connections, ReleaseForRetry(c)
  PROVE  IInv'
  <1>1. PICK s \in ConnectionRecord : s = conn[c] /\ RecordOK(s) /\ ToldOf(s, told) /\ s.url \in Urls \cup {NoUrl}
    BY AtConnection
  <1>2. /\ s.phase = "retry"
        /\ UNCHANGED <<queue, cache, told, cancelled, rerunning, suspended, online, loop, events>>
    BY <1>1 DEF ReleaseForRetry, In
  <1>3. PICK r : r = [s EXCEPT !.phase = "remove", !.retry = s.url, !.url = NoUrl, !.busy = FALSE] /\ Becomes(c, r)
    BY <1>1 DEF ReleaseForRetry
  <1>4. /\ r \in ConnectionRecord /\ r.phase = "remove" /\ r.url = NoUrl /\ r.retry = s.url
        /\ r.busy = FALSE /\ r.die = s.die
    BY <1>1, <1>3 DEF ConnectionRecord, Phases
  <1>5. s.url # NoUrl /\ told[s.url] \in Waiting /\ s.retry = NoUrl
    BY <1>1, <1>2 DEF RecordOK, ToldOf
  <1>6. RecordOK(r) /\ ToldOf(r, told) /\ \A u \in Urls : Holds(r, u) => Holds(s, u)
    BY <1>2, <1>4, <1>5, ImapAssumption DEF RecordOK, ToldOf, Holds
  <1>7. /\ r.url \in {conn[c].url, NoUrl} /\ r.retry \in {conn[c].url, conn[c].retry, NoUrl}
        /\ cache' = cache /\ (c \in Range(cache) => r.phase \notin {"none", "rerun"} /\ ~r.die)
        /\ events' \subseteq Behaviours
    BY <1>1, <1>2, <1>4 DEF IInv, CacheOK, Typed, Marks
  <1>8. \A u \in Urls : Holds(r, u) => On(c, u)
    BY <1>1, <1>6 DEF On
  <1>9. QED
    BY <1>2, <1>3, <1>4, <1>6, <1>7, <1>8, GoesOnKeeps

LEMMA RemoveConnectionKeeps ==
  ASSUME IInv, NEW c \in Connections, RemoveConnection(c)
  PROVE  IInv'
  <1>1. PICK s \in ConnectionRecord : s = conn[c] /\ RecordOK(s) /\ ToldOf(s, told)
    BY AtConnection
  <1>2. /\ s.phase = "remove" /\ cache' = Without(cache, {c})
        /\ UNCHANGED <<queue, told, cancelled, rerunning, suspended, online, loop, events>>
        /\ Goes(c, "rerun")
    BY <1>1 DEF RemoveConnection, In, Leaves
  <1>3. PICK r \in ConnectionRecord :
          /\ Becomes(c, r)
          /\ r.phase = "rerun" /\ r.url = s.url /\ r.retry = s.retry /\ r.busy = s.busy
          /\ r.die = s.die
    BY <1>1, <1>2, GoesRecord DEF Phases
  <1>4. events' \subseteq Behaviours
    BY <1>2 DEF IInv, Typed, Marks
  <1>5. QED
    BY <1>1, <1>2, <1>3, <1>4, AdvanceKeeps

LEMMA CancelKeeps ==
  ASSUME IInv, NEW u \in Urls, Cancel(u)
  PROVE  IInv'
  <1>1. PICK on \in SUBSET Connections :
          /\ on = {c \in Connections : u \in {conn[c].url, conn[c].retry} /\ conn[c].phase # "release"}
          /\ conn' = TellThreadToDie(conn, on) /\ cache' = Without(cache, on)
    BY DEF Cancel
  <1>2. /\ UNCHANGED <<queue, told, rerunning, suspended, online, loop>>
        /\ told[u] \in {"asked", "started"} /\ cancelled' = cancelled \cup {u}
        /\ events' \subseteq Behaviours
    BY Happened DEF Cancel
  <1>3. \A c \in on : conn[c].phase # "none"
    BY <1>1, RecordFacts, ImapAssumption DEF IInv, PhasesOK, RecordOK
  <1>4. Marks'
    BY <1>2 DEF IInv, Typed, Marks
  <1>5. \A v \in cancelled' : told[v] \notin {"new", "refused"}
    BY <1>2 DEF IInv, ToldOK
  <1>6. QED
    BY <1>1, <1>2, <1>3, <1>4, <1>5, DieStepKeeps

LEMMA CloseKeeps ==
  ASSUME IInv, NEW dying \in SUBSET Range(cache),
         conn' = TellThreadToDie(conn, dying), cache' = Without(cache, dying),
         UNCHANGED <<queue, told, cancelled, rerunning, suspended, loop>>,
         online' \in BOOLEAN, events' \subseteq Behaviours
  PROVE  IInv'
  <1>1. Range(cache) \subseteq Connections
    BY Elements DEF IInv, Typed
  <1>2. dying \in SUBSET Connections /\ \A c \in dying : conn[c].phase # "none"
    BY <1>1 DEF IInv, CacheOK
  <1>3. Marks' /\ \A v \in cancelled' : told[v] \notin {"new", "refused"}
    BY DEF IInv, Typed, Marks, ToldOK
  <1>4. QED
    BY <1>2, <1>3, DieStepKeeps

\* The first connection of the cache that is on a folder.
LEMMA FirstOnFolder ==
  ASSUME IInv, NEW f, {i \in DOMAIN cache : conn[cache[i]].sel = f} # {}
  PROVE  {cache[Min({i \in DOMAIN cache : conn[cache[i]].sel = f})]} \in SUBSET Range(cache)
  <1>1. PICK on : on = {i \in DOMAIN cache : conn[cache[i]].sel = f}
    OBVIOUS
  <1>2. DOMAIN cache = 1..Len(cache) /\ Len(cache) \in Nat
    BY DEF IInv, Typed
  <1>3. on \in SUBSET (1..Len(cache)) /\ on # {}
    BY <1>1, <1>2
  <1>4. IsFiniteSet(on)
    <2>1. IsFiniteSet(1..Len(cache))
      BY <1>2, FS_Interval
    <2>2. QED
      BY <1>3, <2>1, FS_Subset
  <1>5. on \subseteq Int
    BY <1>2, <1>3
  <1>6. Min(on) \in on
    BY <1>3, <1>4, <1>5, Extremes
  <1>7. cache[Min(on)] \in Range(cache)
    BY <1>1, <1>6, Elements DEF IInv, Typed
  <1>8. QED
    BY <1>1, <1>7

LEMMA CloseConnectionForFolderKeeps ==
  ASSUME IInv, NEW f \in Folders, CloseConnectionForFolder(f)
  PROVE  IInv'
  <1>1. PICK dying \in SUBSET Range(cache) :
          conn' = TellThreadToDie(conn, dying) /\ cache' = Without(cache, dying)
    BY FirstOnFolder DEF CloseConnectionForFolder
  <1>2. /\ UNCHANGED <<queue, told, cancelled, rerunning, suspended, online, loop>>
        /\ online' \in BOOLEAN
        /\ events' \subseteq Behaviours
    BY Happened DEF CloseConnectionForFolder, IInv, Typed, Marks
  <1>3. QED
    BY <1>1, <1>2, CloseKeeps

LEMMA WithoutAll ==
  ASSUME NEW S, NEW s \in Seq(S)
  PROVE  Without(s, Range(s)) = <<>>
  <1>1. PICK rest \in Seq(S) : rest = Without(s, Range(s)) /\ Range(rest) = {}
    <2>1. Without(s, Range(s)) \in Seq(S) /\ Range(Without(s, Range(s))) = Range(s) \ Range(s)
      BY WithoutProperties
    <2>2. QED
      BY <2>1
  <1>2. DOMAIN rest = 1..Len(rest) /\ Len(rest) \in Nat /\ \A i \in DOMAIN rest : rest[i] \in Range(rest)
    BY Elements
  <1>3. Len(rest) # 0 => 1 \in DOMAIN rest
    BY <1>2
  <1>4. Len(rest) = 0
    BY <1>1, <1>2, <1>3
  <1>5. QED
    BY <1>1, <1>4

LEMMA GoOfflineKeeps ==
  ASSUME IInv, GoOffline
  PROVE  IInv'
  <1>1. PICK dying \in SUBSET Range(cache) : dying = Range(cache)
    OBVIOUS
  <1>2. /\ conn' = TellThreadToDie(conn, dying) /\ cache' = Without(cache, dying)
        /\ UNCHANGED <<queue, told, cancelled, rerunning, suspended, loop>>
        /\ online' \in BOOLEAN /\ events' \subseteq Behaviours
    BY <1>1, Happened, WithoutAll DEF GoOffline, IInv, Typed
  <1>3. QED
    BY <1>2, CloseKeeps

LEMMA GoOnlineKeeps ==
  ASSUME IInv, GoOnline
  PROVE  IInv'
  <1>1. Marks' /\ UNCHANGED <<cache, conn, queue, told, rerunning, cancelled>>
    BY DEF GoOnline, IInv, Typed, Marks
  <1>2. /\ told' \in [Urls -> States] /\ queue' \in Seq(Urls)
        /\ \A i, j \in DOMAIN queue' : queue'[i] = queue'[j] => i = j
    BY <1>1 DEF IInv, Typed, PlacesOK
  <1>3. QED
    BY <1>1, <1>2, StillKeeps
------------------------------------------------------------------------------
LEMMA InitiallyIInv ==
  Init => IInv
  <1> SUFFICES ASSUME Init PROVE IInv
    OBVIOUS
  <1>1. /\ queue = <<>> /\ cache = <<>> /\ told = [u \in Urls |-> "new"]
        /\ conn = [c \in Connections |-> Absent]
        /\ cancelled = {} /\ rerunning = {} /\ suspended = {} /\ online = TRUE
        /\ loop = NoConnection /\ events = {}
    BY DEF Init
  <1>2. /\ \A c \in Connections : conn[c] = Absent
        /\ conn \in [Connections -> ConnectionRecord]
    BY <1>1, RecordFacts
  <1>3. Range(queue) = {} /\ Range(cache) = {} /\ DOMAIN queue = {} /\ DOMAIN cache = {}
    BY <1>1 DEF Range
  <1>4. Typed
    BY <1>1, <1>2 DEF Typed, Marks, States
  <1>5. PhasesOK
    BY <1>2, AbsentKeeps DEF PhasesOK
  <1>6. CacheOK
    BY <1>3 DEF CacheOK
  <1>7. PlacesOK
    <2>1. \A u \in Urls, c \in Connections : ~On(c, u) /\ conn[c].url # u /\ conn[c].retry # u
      BY <1>2, AbsentKeeps, RecordFacts, ImapAssumption DEF On
    <2>2. QED
      BY <1>3, <2>1 DEF PlacesOK
  <1>8. ToldOK
    BY <1>1, <1>2, <1>3, AbsentKeeps DEF ToldOK
  <1>9. QED
    BY <1>4, <1>5, <1>6, <1>7, <1>8 DEF IInv

LEMMA ThreadStepsKeep ==
  ASSUME IInv, NEW c \in Connections, ThreadStep(c)
  PROVE  IInv'
  <1>1. CASE ThreadDies(c)
    BY <1>1, ThreadDiesKeeps
  <1>2. CASE ProcessCurrentURL(c)
    BY <1>2, ProcessCurrentURLKeeps
  <1>3. CASE FoundDead(c)
    BY <1>3, FoundDeadKeeps
  <1>4. CASE SelectMailbox(c)
    BY <1>4, SelectMailboxKeeps
  <1>5. CASE ConnectionLost(c)
    BY <1>5, ConnectionLostKeeps
  <1>6. CASE BadEnd(c)
    BY <1>6, BadEndKeeps
  <1>7. CASE UrlStops(c)
    BY <1>7, UrlStopsKeeps
  <1>8. CASE SuspendUrl(c)
    BY <1>8, SuspendUrlKeeps
  <1>9. CASE ReleaseUrlState(c)
    BY <1>9, ReleaseUrlStateKeeps
  <1>10. CASE ServeQueue(c)
    BY <1>10, ServeQueueKeeps
  <1>11. CASE NextTurn(c)
    BY <1>11, NextTurnKeeps
  <1>12. CASE ReleaseForRetry(c)
    BY <1>12, ReleaseForRetryKeeps
  <1>13. CASE RemoveConnection(c)
    BY <1>13, RemoveConnectionKeeps
  <1>14. CASE RetryUrl(c)
    BY <1>14, RetryUrlKeeps
  <1>15. CASE ReturnsEarly(c)
    BY <1>15, ReturnsEarlyKeeps
  <1>16. QED
    BY <1>1, <1>2, <1>3, <1>4, <1>5, <1>6, <1>7, <1>8, <1>9, <1>10, <1>11, <1>12, <1>13, <1>14, <1>15
       DEF ThreadStep

LEMMA NextKeepsIInv ==
  IInv /\ [Next]_vars => IInv'
  <1> SUFFICES ASSUME IInv, [Next]_vars PROVE IInv'
    OBVIOUS
  <1>1. ASSUME NEW u \in Urls, GetImapConnectionAndLoadUrl(u) PROVE IInv'
    BY <1>1, GetImapConnectionAndLoadUrlKeeps
  <1>2. ASSUME NEW u \in Urls, Cancel(u) PROVE IInv'
    BY <1>2, CancelKeeps
  <1>3. CASE LoadNextQueuedUrl
    BY <1>3, LoadNextQueuedUrlKeeps
  <1>4. ASSUME NEW f \in Folders, CloseConnectionForFolder(f) PROVE IInv'
    BY <1>4, CloseConnectionForFolderKeeps
  <1>5. CASE GoOffline
    BY <1>5, GoOfflineKeeps
  <1>6. CASE GoOnline
    BY <1>6, GoOnlineKeeps
  <1>7. ASSUME NEW c \in Connections, ThreadStep(c) PROVE IInv'
    BY <1>7, ThreadStepsKeep
  <1>8. CASE UNCHANGED vars
    <2>1. UNCHANGED <<queue, cache, conn, told, cancelled, rerunning, suspended, online, loop, events>>
      BY <1>8 DEF vars
    <2>2. Marks' /\ told' \in [Urls -> States] /\ queue' \in Seq(Urls)
      BY <2>1 DEF IInv, Typed, Marks
    <2>3. \A i, j \in DOMAIN queue' : queue'[i] = queue'[j] => i = j
      BY <2>1 DEF IInv, PlacesOK
    <2>4. QED
      BY <2>1, <2>2, <2>3, StillKeeps
  <1>9. QED
    BY <1>1, <1>2, <1>3, <1>4, <1>5, <1>6, <1>7, <1>8 DEF Next

\* The connections and the queue stay consistent, whatever happens: the types
\* of the variables, what the phase of a connection says of its URL, a cache
\* that only has living connections, the place of each URL, and what the
\* listeners of the URLs that are queued or run have been told.
THEOREM Consistent == Spec => []IInv
  BY InitiallyIInv, NextKeepsIInv, PTL DEF Spec

\* A URL is at one place, in the queue or on a connection, whatever happens to
\* the connections: it is never run twice at the same time.
THEOREM UrlAtOnePlace == Spec => []OnePlace
  <1>1. IInv => OnePlace
    <2>1. SUFFICES ASSUME IInv, NEW u \in Urls
                   PROVE Cardinality(Holders(u)) + Cardinality({i \in DOMAIN queue : queue[i] = u}) <= 1
      BY DEF OnePlace
    <2>2. PICK H : H = Holders(u)
      OBVIOUS
    <2>3. PICK Q : Q = {i \in DOMAIN queue : queue[i] = u}
      OBVIOUS
    <2>4. \A c, d \in H : c = d
      BY <2>1, <2>2 DEF Holders, IInv, PlacesOK, On, Holds
    <2>5. \A i, j \in Q : i = j
      BY <2>1, <2>3 DEF IInv, PlacesOK
    <2>6. Q # {} => H = {}
      <3>1. SUFFICES ASSUME NEW i \in Q, NEW c \in H PROVE FALSE
        OBVIOUS
      <3>2. u \in Range(queue)
        BY <2>1, <2>3, Elements DEF IInv, Typed
      <3>3. c \in Connections /\ On(c, u)
        BY <2>2 DEF Holders, On, Holds
      <3>4. QED
        BY <2>1, <3>2, <3>3 DEF IInv, PlacesOK
    <2>7. ASSUME NEW S, \A x, y \in S : x = y
          PROVE  Cardinality(S) \in {0, 1} /\ (S = {} => Cardinality(S) = 0)
      <3>1. CASE S = {}
        BY <3>1, FS_EmptySet
      <3>2. CASE S # {}
        <4>1. PICK x \in S : TRUE
          BY <3>2
        <4>2. S = {x}
          BY <2>7, <4>1
        <4>3. Cardinality({x}) = 1
          BY FS_Singleton
        <4>4. QED
          BY <3>2, <4>2, <4>3
      <3>3. QED
        BY <3>1, <3>2
    <2>8. /\ Cardinality(H) \in {0, 1} /\ (H = {} => Cardinality(H) = 0)
          /\ Cardinality(Q) \in {0, 1} /\ (Q = {} => Cardinality(Q) = 0)
      BY <2>4, <2>5, <2>7
    <2>9. Cardinality(H) + Cardinality(Q) <= 1
      BY <2>6, <2>8
    <2>10. QED
      BY <2>2, <2>3, <2>9
  <1>2. QED
    BY <1>1, Consistent, PTL
------------------------------------------------------------------------------
(***************************************************************************)
(* What the listeners are told: every step is one of UrlLedger.            *)
(***************************************************************************)
LEMMA AnswersAreLocal ==
  ASSUME IInv, NEW u \in Urls, NEW cs \in [Connections -> ConnectionRecord], LoadImapUrl(u, "local", cs)
  PROVE  u \in Local
  <1>1. Typed /\ PhasesOK /\ CacheOK
    BY DEF IInv
  <1>2. PICK to, closed : Loaded(u, "local", cs, to, closed)
    BY <1>1, LoadImapUrlEffect
  <1>3. QED
    BY <1>2 DEF Loaded

\* A URL that waits or runs is answered from the offline store.
LEMMA AnswerOf ==
  ASSUME IInv, NEW u \in Urls, NEW cs \in [Connections -> ConnectionRecord], LoadImapUrl(u, "local", cs),
         told[u] \in {"new", "asked", "started"}, SetUrlState(u, "stopped"), UNCHANGED cancelled
  PROVE  Ledger!Answer(u)
  <1>1. u \in Local
    BY AnswersAreLocal
  <1>2. QED
    BY <1>1 DEF SetUrlState, Ledger!Answer, Ledger!Becomes

LEMMA ThreadStepsTell ==
  ASSUME IInv, NEW c \in Connections, ThreadStep(c)
  PROVE  Ledger!Next \/ UNCHANGED Ledger!vars
  <1>1. PICK s \in ConnectionRecord : s = conn[c] /\ RecordOK(s) /\ ToldOf(s, told) /\ s.url \in Urls \cup {NoUrl}
                                      /\ s.retry \in Urls \cup {NoUrl}
    BY AtConnection
  <1>2. told \in [Urls -> States] /\ conn \in [Connections -> ConnectionRecord]
    BY DEF IInv, Typed
  <1>3. CASE ProcessCurrentURL(c) \/ (ReturnsEarly(c) /\ Started(s.url))
    <2>1. /\ s.phase = "wait" /\ s.ready /\ ~s.die /\ s.url \in Urls
          /\ Started(s.url) /\ UNCHANGED cancelled
      BY <1>1, <1>3 DEF ProcessCurrentURL, ReturnsEarly, HasUrlToRun, In
    <2>2. told[s.url] \in Waiting
      BY <1>1, <2>1, ImapAssumption DEF ToldOf
    <2>3. s.url \in rerunning => told[s.url] = "started"
      BY <2>2 DEF IInv, ToldOK, Waiting
    <2>4. CASE told[s.url] = "started"
      BY <2>1, <2>4 DEF Started, Ledger!vars
    <2>5. CASE told[s.url] = "asked"
      <3>1. Ledger!Start(s.url)
        BY <2>1, <2>3, <2>5 DEF Started, SetUrlState, Ledger!Start, Ledger!Becomes
      <3>2. QED
        BY <2>1, <3>1 DEF Ledger!Next
    <2>6. QED
      BY <2>2, <2>4, <2>5 DEF Waiting
  <1>4. CASE UrlStops(c)
    <2>1. s.phase = "selected" /\ UNCHANGED cancelled
      BY <1>1, <1>4 DEF UrlStops, In
    <2>2. s.url \in Urls /\ told[s.url] = "started"
      BY <1>1, <2>1, AtConnection
    <2>3. CASE Stopped(s.url)
      <3>1. Ledger!Stop(s.url)
        BY <2>1, <2>2, <2>3 DEF Stopped, SetUrlState, Ledger!Stop, Ledger!Becomes
      <3>2. QED
        BY <2>2, <3>1 DEF Ledger!Next
    <2>4. CASE UNCHANGED told
      BY <2>1, <2>4 DEF Ledger!vars
    <2>5. QED
      BY <1>1, <1>4, <2>3, <2>4 DEF UrlStops
  <1>5. CASE ServeQueue(c)
    <2>1. UNCHANGED cancelled
      BY <1>5 DEF ServeQueue
    <2>2. CASE UNCHANGED told
      BY <2>1, <2>2 DEF Ledger!vars
    <2>3. CASE told' = [u \in Urls |-> IF u \in Range(queue) \cap cancelled THEN "stopped" ELSE told[u]]
      <3>1. \A u \in Range(queue) : told[u] \in {"asked", "started"}
        BY DEF IInv, ToldOK, Waiting
      <3>2. PICK U \in SUBSET cancelled : U = Range(queue) \cap cancelled
        OBVIOUS
      <3>3. /\ \A u \in U : told[u] \in {"asked", "started"}
            /\ told' = [u \in Urls |-> IF u \in U THEN "stopped" ELSE told[u]]
        BY <2>3, <3>1, <3>2
      <3>4. Ledger!Abort
        BY <2>1, <3>3 DEF Ledger!Abort
      <3>5. QED
        BY <3>4 DEF Ledger!Next
    <2>4. QED
      BY <1>5, <2>2, <2>3 DEF ServeQueue
  <1>6. CASE RetryUrl(c)
    <2>1. UNCHANGED cancelled /\ s.phase = "rerun"
      BY <1>1, <1>6 DEF RetryUrl, In
    <2>2. s.retry \in Urls /\ told[s.retry] \in {"asked", "started"}
      BY <1>1, <2>1 DEF RecordOK, ToldOf, Waiting
    <2>3. CASE UNCHANGED told
      BY <2>1, <2>3 DEF Ledger!vars
    <2>4. CASE LoadImapUrl(s.retry, "local", [conn EXCEPT ![c] = Absent]) /\ SetUrlState(s.retry, "stopped")
      <3>1. PICK cs \in [Connections -> ConnectionRecord] : cs = [conn EXCEPT ![c] = Absent]
        BY <1>2, RecordFacts
      <3>2. LoadImapUrl(s.retry, "local", cs)
        BY <2>4, <3>1
      <3>3. Ledger!Answer(s.retry)
        BY <2>1, <2>2, <2>4, <3>2, AnswerOf
      <3>4. QED
        BY <2>2, <3>3 DEF Ledger!Next
    <2>5. QED
      BY <1>1, <1>6, <2>3, <2>4 DEF RetryUrl
  <1>7. CASE \/ ThreadDies(c) \/ FoundDead(c) \/ SelectMailbox(c) \/ ConnectionLost(c) \/ BadEnd(c)
             \/ SuspendUrl(c) \/ ReleaseUrlState(c) \/ NextTurn(c) \/ ReleaseForRetry(c) \/ RemoveConnection(c)
             \/ (ReturnsEarly(c) /\ UNCHANGED told)
    <2>1. UNCHANGED <<told, cancelled>>
      BY <1>7 DEF ThreadDies, FoundDead, SelectMailbox, ConnectionLost, BadEnd, SuspendUrl, ReleaseUrlState,
                  NextTurn, ReleaseForRetry, RemoveConnection, ReturnsEarly
    <2>2. QED
      BY <2>1 DEF Ledger!vars
  <1>8. ReturnsEarly(c) => Started(s.url) \/ UNCHANGED told
    BY <1>1 DEF ReturnsEarly
  <1>9. QED
    BY <1>3, <1>4, <1>5, <1>6, <1>7, <1>8 DEF ThreadStep

LEMMA StepsTell ==
  IInv /\ [Next]_vars => [Ledger!Next]_(Ledger!vars)
  <1> SUFFICES ASSUME IInv, [Next]_vars PROVE Ledger!Next \/ UNCHANGED Ledger!vars
    OBVIOUS
  <1>1. /\ told \in [Urls -> States] /\ conn \in [Connections -> ConnectionRecord]
        /\ queue \in Seq(Urls)
    BY DEF IInv, Typed
  <1>2. PICK cs \in [Connections -> ConnectionRecord] : cs = conn
    BY <1>1
  <1>3. ASSUME NEW u \in Urls, GetImapConnectionAndLoadUrl(u) PROVE Ledger!Next
    <2>1. told[u] = "new" /\ UNCHANGED cancelled
      BY <1>3 DEF GetImapConnectionAndLoadUrl
    <2>2. CASE SetUrlState(u, "asked")
      BY <2>1, <2>2 DEF SetUrlState, Ledger!Next, Ledger!Ask, Ledger!Becomes
    <2>3. CASE SetUrlState(u, "refused")
      BY <2>1, <2>3 DEF SetUrlState, Ledger!Next, Ledger!Refuse, Ledger!Becomes
    <2>4. CASE LoadImapUrl(u, "local", conn) /\ SetUrlState(u, "stopped")
      <3>1. LoadImapUrl(u, "local", cs)
        BY <1>2, <2>4
      <3>2. Ledger!Answer(u)
        BY <2>1, <2>4, <3>1, AnswerOf
      <3>3. QED
        BY <3>2 DEF Ledger!Next
    <2>5. QED
      BY <1>3, <2>2, <2>3, <2>4 DEF GetImapConnectionAndLoadUrl
  <1>4. ASSUME NEW u \in Urls, Cancel(u) PROVE Ledger!Next
    <2>1. Ledger!Cancel(u)
      BY <1>4 DEF Cancel, Ledger!Cancel
    <2>2. QED
      BY <2>1 DEF Ledger!Next
  <1>5. CASE LoadNextQueuedUrl
    <2>1. UNCHANGED cancelled
      BY <1>5 DEF LoadNextQueuedUrl
    <2>2. CASE UNCHANGED told
      BY <2>1, <2>2 DEF Ledger!vars
    <2>3. PICK u : u = Head(queue)
      OBVIOUS
    <2>4. queue # <<>> => u \in Urls /\ told[u] \in {"asked", "started"}
      <3>1. SUFFICES ASSUME queue # <<>> PROVE u \in Urls /\ told[u] \in {"asked", "started"}
        OBVIOUS
      <3>2. Head(queue) \in Range(queue)
        BY <1>1, <3>1, TailOfDistinct DEF IInv, PlacesOK
      <3>3. QED
        BY <1>1, <2>3, <3>2, Elements DEF IInv, ToldOK, Waiting
    <2>5. CASE queue # <<>> /\ u \in cancelled /\ SetUrlState(u, "stopped")
      <3>1. PICK U \in SUBSET cancelled : U = {u}
        BY <2>5
      <3>2. /\ \A v \in U : told[v] \in {"asked", "started"}
            /\ told' = [v \in Urls |-> IF v \in U THEN "stopped" ELSE told[v]]
        BY <1>1, <2>4, <2>5, <3>1 DEF SetUrlState
      <3>3. Ledger!Abort
        BY <2>1, <3>2 DEF Ledger!Abort
      <3>4. QED
        BY <3>3 DEF Ledger!Next
    <2>6. CASE queue # <<>> /\ LoadImapUrl(u, "local", conn) /\ SetUrlState(u, "stopped")
      <3>1. LoadImapUrl(u, "local", cs)
        BY <1>2, <2>6
      <3>2. Ledger!Answer(u)
        BY <2>1, <2>4, <2>6, <3>1, AnswerOf
      <3>3. QED
        BY <2>4, <2>6, <3>2 DEF Ledger!Next
    <2>7. QED
      BY <1>5, <2>2, <2>3, <2>5, <2>6 DEF LoadNextQueuedUrl
  <1>6. ASSUME NEW f \in Folders, CloseConnectionForFolder(f) PROVE UNCHANGED Ledger!vars
    BY <1>6 DEF CloseConnectionForFolder, Ledger!vars
  <1>7. CASE GoOffline \/ GoOnline
    BY <1>7 DEF GoOffline, GoOnline, Ledger!vars
  <1>8. ASSUME NEW c \in Connections, ThreadStep(c) PROVE Ledger!Next \/ UNCHANGED Ledger!vars
    BY <1>8, ThreadStepsTell
  <1>9. CASE UNCHANGED vars
    BY <1>9 DEF vars, Ledger!vars
  <1>10. QED
    BY <1>3, <1>4, <1>5, <1>6, <1>7, <1>8, <1>9 DEF Next

\* The listener of a URL is told once that it starts and then once that it
\* ends, whatever connections the URL is tried on and however often it waits:
\* the connections implement UrlLedger.
THEOREM ListenersAreTold == Spec => LedgerSpec
  <1>1. Init => Ledger!Init
    BY DEF Init, Ledger!Init
  <1>2. QED
    BY <1>1, Consistent, StepsTell, PTL DEF Spec, LedgerSpec, Ledger!Spec
------------------------------------------------------------------------------
(***************************************************************************)
(* A folder is selected on one connection.                                 *)
(***************************************************************************)
LEMMA ClaimsAre ==
  ASSUME NEW r \in ConnectionRecord, NEW s, Same(r, s)
  PROVE  \A f : ClaimOn(s, f) <=> ClaimOn(r, f)
  BY SameFacts DEF ClaimOn

\* A step that changes one connection, which claims no other folder than before.
LEMMA FoldersBecome ==
  ASSUME IInv, FInv, NEW c \in Connections, NEW r \in ConnectionRecord, Becomes(c, r),
         events \subseteq events', cancelled' = cancelled, suspended \subseteq suspended',
         Range(cache') \subseteq Range(cache),
         c \in Range(cache') => \A f \in Folders : ClaimOn(r, f) => ClaimOn(conn[c], f),
         r.url \in {conn[c].url, NoUrl}, \A u \in Urls : Holds(r, u) => On(c, u),
         r.phase \in {"retry", "remove", "rerun"} =>
           conn[c].phase \in {"retry", "remove", "rerun"} \/ "loses" \in events',
         r.phase = "suspend" => Kind[r.url] = "select",
         r.phase = "release" => r.url \in Urls,
         r.phase = "release" /\ told'[r.url] \in Waiting =>
           /\ Kind[r.url] = "select" /\ r.url \in suspended'
           /\ \A d \in Connections : On(d, r.url) => d = c
           /\ ~Holds(r, r.url),
         \A u \in Urls : told'[u] \in Waiting => told[u] \in Waiting
  PROVE  FInv'
  <1>1. /\ conn' \in [Connections -> ConnectionRecord] /\ conn'[c] = r
        /\ \A d \in Connections : d # c => conn'[d] = conn[d]
    BY BecomesRecord DEF IInv
  <1>2. Range(cache) \subseteq Connections /\ cancelled \subseteq Urls
    BY Elements DEF IInv, Typed, Marks
  <1>3. EventsOK'
    <2>1. cancelled' # {} => "cancels" \in events'
      BY DEF FInv, EventsOK
    <2>2. ASSUME NEW d \in Connections
          PROVE  /\ conn'[d].phase \in {"retry", "remove", "rerun"} => "loses" \in events'
                 /\ conn'[d].phase = "suspend" => Kind[conn'[d].url] = "select"
      <3>1. CASE d = c
        BY <1>1, <3>1 DEF FInv, EventsOK
      <3>2. CASE d # c
        BY <1>1, <3>2 DEF FInv, EventsOK
      <3>3. QED
        BY <3>1, <3>2
    <2>3. QED
      BY <2>1, <2>2 DEF EventsOK
  <1>4. ASSUME ~({"cancels", "loses"} \subseteq events')
        PROVE  /\ Exclusive
               /\ \A d \in Range(cache) : conn[d].url \notin cancelled
               /\ Resting
    BY <1>4 DEF FInv, FoldersOK
  <1>5. ASSUME ~({"cancels", "loses"} \subseteq events')
        PROVE  Exclusive'
    <2>1. ASSUME NEW d \in Range(cache'), NEW f \in Folders, ClaimOn(conn'[d], f)
          PROVE  d \in Range(cache) /\ ClaimOn(conn[d], f)
      <3>1. d \in Range(cache) /\ d \in Connections
        BY <1>2
      <3>2. QED
        BY <1>1, <2>1, <3>1
    <2>2. QED
      BY <1>4, <1>5, <2>1 DEF Exclusive
  <1>6. ASSUME ~({"cancels", "loses"} \subseteq events'), NEW d \in Range(cache')
        PROVE  conn'[d].url \notin cancelled'
    <2>1. d \in Range(cache) /\ d \in Connections /\ conn[d].url \notin cancelled
      BY <1>2, <1>4, <1>6
    <2>2. conn'[d].url \in {conn[d].url, NoUrl}
      BY <1>1, <2>1
    <2>3. NoUrl \notin cancelled
      BY <1>2, ImapAssumption
    <2>4. QED
      BY <2>1, <2>2, <2>3
  <1>7. ASSUME ~({"cancels", "loses"} \subseteq events')
        PROVE  Resting'
    <2>1. ASSUME NEW d \in Range(cache'), conn'[d].phase = "release", told'[conn'[d].url] \in Waiting
          PROVE  /\ Kind[conn'[d].url] = "select" /\ conn'[d].url \in suspended'
                 /\ \A e \in Connections : ~Holds(conn'[e], conn'[d].url)
      <3>1. d \in Range(cache) /\ d \in Connections
        BY <1>2
      <3>2. CASE d = c
        <4>1. r.phase = "release" /\ r.url \in Urls /\ told'[r.url] \in Waiting
          BY <1>1, <2>1, <3>2
        <4>2. \A e \in Connections : ~Holds(conn'[e], r.url)
          BY <1>1, <4>1 DEF On
        <4>3. QED
          BY <1>1, <3>2, <4>1, <4>2
      <3>3. CASE d # c
        <4>1. PICK u : u = conn[d].url
          OBVIOUS
        <4>2. conn'[d] = conn[d] /\ conn[d].phase = "release" /\ u \in Urls /\ told'[u] \in Waiting
          BY <1>1, <2>1, <3>1, <3>3, <4>1, AtConnection
        <4>3. Kind[u] = "select" /\ u \in suspended /\ \A e \in Connections : ~On(e, u)
          BY <1>4, <1>7, <3>1, <4>1, <4>2 DEF Resting
        <4>4. \A e \in Connections : ~Holds(conn'[e], u)
          BY <1>1, <4>2, <4>3 DEF On
        <4>5. QED
          BY <4>1, <4>2, <4>3, <4>4
      <3>4. QED
        BY <3>2, <3>3
    <2>2. QED
      BY <2>1 DEF Resting, On
  <1>8. FoldersOK'
    BY <1>5, <1>6, <1>7 DEF FoldersOK
  <1>9. QED
    BY <1>3, <1>8 DEF FInv

\* A step that at most tells connections to die.
LEMMA FoldersStay ==
  ASSUME IInv, FInv, conn' \in [Connections -> ConnectionRecord],
         \A c \in Connections : Same(conn[c], conn'[c]),
         Range(cache') \subseteq Range(cache), events \subseteq events', suspended' = suspended,
         cancelled' # {} => "cancels" \in events',
         ~({"cancels", "loses"} \subseteq events') => \A c \in Range(cache') : conn[c].url \notin cancelled',
         \A u \in Urls : told'[u] \in Waiting => told[u] \in Waiting
  PROVE  FInv'
  <1>1. ASSUME NEW c \in Connections
        PROVE  /\ conn'[c].phase = conn[c].phase /\ conn'[c].url = conn[c].url
               /\ \A u : Holds(conn'[c], u) <=> Holds(conn[c], u)
               /\ \A f : ClaimOn(conn'[c], f) <=> ClaimOn(conn[c], f)
               /\ conn[c].url \in Urls \cup {NoUrl}
               /\ conn[c].phase = "release" => conn[c].url \in Urls
    <2>1. conn[c] \in ConnectionRecord /\ Same(conn[c], conn'[c])
      BY AtConnection
    <2>2. QED
      BY <2>1, AtConnection, SameFacts, ClaimsAre
  <1>2. Range(cache) \subseteq Connections
    BY Elements DEF IInv, Typed
  <1>3. EventsOK'
    <2>1. ASSUME NEW c \in Connections
          PROVE  /\ conn'[c].phase \in {"retry", "remove", "rerun"} => "loses" \in events'
                 /\ conn'[c].phase = "suspend" => Kind[conn'[c].url] = "select"
      BY <1>1 DEF FInv, EventsOK
    <2>2. QED
      BY <2>1 DEF EventsOK
  <1>4. ASSUME ~({"cancels", "loses"} \subseteq events')
        PROVE  Exclusive /\ Resting
    BY <1>4 DEF FInv, FoldersOK
  <1>5. ASSUME ~({"cancels", "loses"} \subseteq events')
        PROVE  Exclusive' /\ Resting'
    <2>1. ASSUME NEW c \in Range(cache'), NEW d \in Range(cache'), NEW f \in Folders,
                 ClaimOn(conn'[c], f), ClaimOn(conn'[d], f)
          PROVE  c = d
      BY <1>1, <1>2, <1>4, <1>5, <2>1 DEF Exclusive
    <2>2. ASSUME NEW c \in Range(cache'), conn'[c].phase = "release", told'[conn'[c].url] \in Waiting
          PROVE  /\ Kind[conn'[c].url] = "select" /\ conn'[c].url \in suspended'
                 /\ \A d \in Connections : ~Holds(conn'[d], conn'[c].url)
      <3>1. c \in Range(cache) /\ c \in Connections
        BY <1>2
      <3>2. PICK u : u = conn[c].url
        OBVIOUS
      <3>3. conn'[c].url = u /\ conn[c].phase = "release" /\ u \in Urls /\ told'[u] \in Waiting
        BY <1>1, <2>2, <3>1, <3>2
      <3>4. Kind[u] = "select" /\ u \in suspended /\ \A d \in Connections : ~On(d, u)
        BY <1>4, <1>5, <3>1, <3>2, <3>3 DEF Resting
      <3>5. QED
        BY <1>1, <3>3, <3>4 DEF On
    <2>3. QED
      BY <2>1, <2>2 DEF Exclusive, Resting, On
  <1>6. ASSUME ~({"cancels", "loses"} \subseteq events')
        PROVE  \A c \in Range(cache') : conn'[c].url \notin cancelled'
    BY <1>1, <1>2, <1>6
  <1>7. QED
    BY <1>3, <1>5, <1>6 DEF FInv, FoldersOK

\* A step that loads a URL.
LEMMA FoldersLoad ==
  ASSUME IInv, IInv', FInv, NEW u \in Urls, NEW o \in {"none", "runs", "local", "fails"},
         NEW cs \in [Connections -> ConnectionRecord], LoadImapUrl(u, o, cs), Left(cs),
         cancelled' = cancelled, suspended' = suspended,
         u \in cancelled => {"cancels", "loses"} \subseteq events,
         \A v \in Urls : v # u /\ told'[v] \in Waiting => told[v] \in Waiting,
         \A c \in Connections : On(c, u) => conn[c].phase = "rerun",
         \A c \in Connections : conn[c].url = u => told[u] \in Waiting,
         o = "local" => told'[u] \notin Waiting
  PROVE  FInv'
  <1>1. Typed /\ PhasesOK /\ CacheOK
    BY DEF IInv
  <1>2. PICK to, closed : Loaded(u, o, cs, to, closed)
    BY <1>1, LoadImapUrlEffect
  <1>3. events \subseteq events' /\ conn' \in [Connections -> ConnectionRecord]
    BY <1>2 DEF Loaded
  <1>4. Range(cache') = (Range(cache) \ closed) \cup (IF o = "none" THEN {} ELSE {to})
    BY <1>2, LoadedCache
  <1>5. Range(cache) \subseteq Connections /\ cancelled \subseteq Urls
    BY <1>1, Elements DEF Typed, Marks
  <1>6. o # "none" =>
         /\ to \in Connections /\ conn'[to] \in ConnectionRecord
         /\ conn'[to].phase = IF conn[to].phase = "none" THEN "wait" ELSE conn[to].phase
         /\ conn'[to].phase \notin {"none", "rerun", "run", "selected", "suspend", "release", "retry"}
         /\ conn'[to].url \in {u, NoUrl} /\ conn'[to].retry = conn[to].retry
         /\ o = "local" => conn'[to].url = NoUrl
    BY <1>2, LoadedTo
  <1>7. o = "none" => to \notin Connections
    BY <1>2, ImapAssumption DEF Loaded
  <1>8. ASSUME NEW c \in Connections, c # to \/ o = "none"
        PROVE  /\ cs[c] # conn[c] => conn[c].phase = "rerun" /\ conn'[c] = Absent
               /\ cs[c] = conn[c] => Same(conn[c], conn'[c])
               /\ cs[c] = conn[c] /\ c \notin closed => conn'[c] = conn[c]
    BY <1>2, <1>7, <1>8, LoadedOthers
  <1>9. ASSUME NEW c \in Range(cache'), c # to \/ o = "none"
        PROVE  c \in Connections /\ c \in Range(cache) /\ c \notin closed /\ conn'[c] = conn[c]
    <2>1. c \in Range(cache) /\ c \notin closed /\ c \in Connections
      BY <1>4, <1>5, <1>9
    <2>2. conn[c].phase # "rerun"
      BY <1>1, <2>1 DEF CacheOK
    <2>3. QED
      BY <1>8, <1>9, <2>1, <2>2
  <1>10. EventsOK'
    <2>1. ASSUME NEW c \in Connections
          PROVE  /\ conn'[c].phase \in {"retry", "remove", "rerun"} => "loses" \in events'
                 /\ conn'[c].phase = "suspend" => Kind[conn'[c].url] = "select"
      <3>1. CASE c = to /\ o # "none"
        BY <1>3, <1>6, <3>1 DEF FInv, EventsOK
      <3>2. CASE (c # to \/ o = "none") /\ cs[c] # conn[c]
        BY <1>8, <3>2, RecordFacts
      <3>3. CASE (c # to \/ o = "none") /\ cs[c] = conn[c]
        <4>1. conn[c] \in ConnectionRecord /\ Same(conn[c], conn'[c])
          BY <1>8, <3>3, AtConnection
        <4>2. conn'[c].phase = conn[c].phase /\ conn'[c].url = conn[c].url
          BY <4>1, SameFacts
        <4>3. QED
          BY <1>3, <4>2 DEF FInv, EventsOK
      <3>4. QED
        BY <3>1, <3>2, <3>3
    <2>2. cancelled' # {} => "cancels" \in events'
      BY <1>3 DEF FInv, EventsOK
    <2>3. QED
      BY <2>1, <2>2 DEF EventsOK
  <1>11. ASSUME ~({"cancels", "loses"} \subseteq events')
         PROVE  Exclusive /\ Resting /\ \A c \in Range(cache) : conn[c].url \notin cancelled
    BY <1>3, <1>11 DEF FInv, FoldersOK
  \* The connection that is given the URL claims no other folder than that of the URL.
  <1>12. ASSUME o # "none", NEW f \in Folders, ClaimOn(conn'[to], f)
         PROVE  \/ to \in Range(cache) /\ ClaimOn(conn[to], f)
                \/ Kind[u] = "select" /\ f = FolderOf[u]
    <2>1. ~conn[to].busy /\ (conn[to].phase = "none" \/ to \in Range(cache))
      BY <1>2, <1>12 DEF Loaded
    <2>2. PICK base \in ConnectionRecord : base = IF conn[to].phase = "none" THEN Fresh ELSE conn[to]
      BY <1>6, <1>12, AtConnection, RecordFacts
    <2>3. /\ conn'[to].sel = base.sel
          /\ conn'[to].url = u \/ (~conn'[to].busy)
      <3>1. \/ o = "runs" /\ conn'[to] = [base EXCEPT !.url = u, !.busy = TRUE, !.ready = TRUE,
                                         !.transport = IF @ = "none" THEN "new" ELSE @]
            \/ o = "local" /\ conn'[to] = base
            \/ o = "fails" /\ conn'[to] = [base EXCEPT !.url = u, !.busy = TRUE]
        BY <1>2, <1>12, <2>2 DEF Loaded
      <3>2. CASE o = "runs"
        <4>1. PICK t : t = IF base.transport = "none" THEN "new" ELSE base.transport
          OBVIOUS
        <4>2. conn'[to] = [base EXCEPT !.url = u, !.busy = TRUE, !.ready = TRUE, !.transport = t]
          BY <3>1, <3>2, <4>1
        <4>3. QED
          BY <2>2, <4>2 DEF ConnectionRecord
      <3>3. CASE o = "local"
        BY <2>1, <2>2, <3>1, <3>3, RecordFacts
      <3>4. CASE o = "fails"
        BY <2>2, <3>1, <3>4 DEF ConnectionRecord
      <3>5. QED
        BY <1>12, <3>2, <3>3, <3>4
    <2>4. CASE conn'[to].sel = f
      <3>1. base.sel = f /\ f # NoFolder
        BY <2>3, <2>4, ImapAssumption
      <3>2. conn[to].phase # "none"
        BY <2>2, <3>1, RecordFacts
      <3>3. QED
        BY <2>1, <2>2, <3>1, <3>2 DEF ClaimOn
    <2>5. CASE conn'[to].busy /\ Kind[conn'[to].url] = "select" /\ FolderOf[conn'[to].url] = f
      BY <2>3, <2>5
    <2>6. QED
      BY <1>12, <2>4, <2>5 DEF ClaimOn
  \* Another connection on that folder would have taken the URL or made it wait.
  <1>13. ASSUME ~({"cancels", "loses"} \subseteq events'), o # "none", Kind[u] = "select",
                NEW c \in Range(cache'), c # to, ClaimOn(conn[c], FolderOf[u])
         PROVE  FALSE
    <2>1. c \in Connections /\ c \in Range(cache) /\ c \notin closed
      BY <1>9, <1>13
    <2>2. FolderOf[u] \in Folders /\ FolderOf[u] # NoFolder
      BY ImapAssumption
    <2>3. ~Dying(c)
      BY <1>1, <1>11, <1>13, <2>1 DEF CacheOK, Dying
    <2>4. OnFolderOf(c, u)
      BY <1>13 DEF OnFolderOf, PendingFolder, ClaimOn
    <2>5. CanRun(to, u)
      BY <1>2, <1>13, <2>1, <2>3, <2>4 DEF Loaded
    <2>6. ~conn[to].busy /\ FolderOf[u] \in {conn[to].sel, PendingFolder(to)}
      BY <1>13, <2>5 DEF CanRun, OnFolderOf
    <2>7. conn[to].sel = FolderOf[u]
      BY <2>2, <2>6 DEF PendingFolder
    <2>8. to \in Range(cache)
      <3>1. conn[to].phase # "none"
        BY <1>1, <1>6, <1>13, <2>2, <2>7, RecordFacts DEF PhasesOK, RecordOK
      <3>2. QED
        BY <1>2, <1>13, <3>1 DEF Loaded
    <2>9. c = to
      BY <1>11, <1>13, <2>1, <2>2, <2>7, <2>8 DEF Exclusive, ClaimOn
    <2>10. QED
      BY <1>13, <2>9
  <1>14. ASSUME ~({"cancels", "loses"} \subseteq events')
         PROVE  Exclusive'
    <2>1. ASSUME NEW c \in Range(cache'), c # to \/ o = "none", NEW d \in Range(cache'), NEW f \in Folders,
                 ClaimOn(conn'[c], f), ClaimOn(conn'[d], f)
          PROVE  c = d
      <3>1. c \in Range(cache) /\ ClaimOn(conn[c], f)
        BY <1>9, <2>1
      <3>2. CASE d # to \/ o = "none"
        <4>1. d \in Range(cache) /\ ClaimOn(conn[d], f)
          BY <1>9, <2>1, <3>2
        <4>2. QED
          BY <1>11, <1>14, <3>1, <4>1 DEF Exclusive
      <3>3. CASE d = to /\ o # "none"
        <4>1. CASE to \in Range(cache) /\ ClaimOn(conn[to], f)
          BY <1>11, <1>14, <3>1, <3>3, <4>1 DEF Exclusive
        <4>2. CASE Kind[u] = "select" /\ f = FolderOf[u]
          BY <1>13, <1>14, <2>1, <3>1, <3>3, <4>2
        <4>3. QED
          BY <1>12, <2>1, <3>3, <4>1, <4>2
      <3>4. QED
        BY <3>2, <3>3
    <2>2. ASSUME NEW c \in Range(cache'), NEW d \in Range(cache'), NEW f \in Folders,
                 ClaimOn(conn'[c], f), ClaimOn(conn'[d], f)
          PROVE  c = d
      <3>1. CASE c # to \/ o = "none"
        BY <2>1, <2>2, <3>1
      <3>2. CASE d # to \/ o = "none"
        BY <2>1, <2>2, <3>2
      <3>3. QED
        BY <3>1, <3>2
    <2>3. QED
      BY <2>2 DEF Exclusive
  <1>15. ASSUME ~({"cancels", "loses"} \subseteq events'), NEW c \in Range(cache')
         PROVE  conn'[c].url \notin cancelled'
    <2>1. NoUrl \notin cancelled
      BY <1>5, ImapAssumption
    <2>2. CASE c # to \/ o = "none"
      BY <1>9, <1>11, <1>15, <2>2
    <2>3. CASE c = to /\ o # "none"
      <3>1. u \notin cancelled
        BY <1>3, <1>15
      <3>2. QED
        BY <1>6, <2>1, <2>3, <3>1
    <2>4. QED
      BY <2>2, <2>3
  <1>16. ASSUME ~({"cancels", "loses"} \subseteq events')
         PROVE  Resting'
    <2>1. ASSUME NEW c \in Range(cache'), conn'[c].phase = "release", told'[conn'[c].url] \in Waiting
          PROVE  /\ Kind[conn'[c].url] = "select" /\ conn'[c].url \in suspended'
                 /\ \A d \in Connections : ~Holds(conn'[d], conn'[c].url)
      <3>1. ~(c = to /\ o # "none")
        BY <1>6, <2>1
      <3>2. c \in Connections /\ c \in Range(cache) /\ c \notin closed /\ conn'[c] = conn[c]
        BY <1>9, <3>1
      <3>3. PICK v : v = conn[c].url
        OBVIOUS
      <3>4. conn[c].phase = "release" /\ v \in Urls /\ told'[v] \in Waiting /\ told[v] \in Waiting
        <4>1. conn[c].phase = "release" /\ v \in Urls /\ told'[v] \in Waiting
          BY <2>1, <3>2, <3>3, AtConnection
        <4>2. CASE v = u
          BY <3>2, <3>3, <4>1, <4>2
        <4>3. CASE v # u
          BY <4>1, <4>3
        <4>4. QED
          BY <4>1, <4>2, <4>3
      <3>5. Kind[v] = "select" /\ v \in suspended /\ \A d \in Connections : ~On(d, v)
        BY <1>11, <1>16, <3>2, <3>3, <3>4 DEF Resting
      <3>6. v = u => o = "none"
        <4>1. SUFFICES ASSUME v = u, o # "none" PROVE FALSE
          OBVIOUS
        <4>2. ClaimOn(conn[c], FolderOf[u])
          <5>1. conn[c].busy
            BY <3>2, <3>4, AtConnection DEF RecordOK
          <5>2. u # NoUrl
            BY ImapAssumption
          <5>3. QED
            BY <3>3, <3>5, <4>1, <5>1, <5>2 DEF ClaimOn
        <4>3. c # to
          BY <3>1, <4>1
        <4>4. QED
          BY <1>13, <1>16, <3>5, <4>1, <4>2, <4>3
      <3>7. ASSUME NEW d \in Connections, Holds(conn'[d], v) PROVE FALSE
        <4>1. CASE d = to /\ o # "none"
          <5>1. v # u /\ v # NoUrl
            BY <3>4, <3>6, <4>1, ImapAssumption
          <5>2. conn'[d].url # v /\ conn'[d].retry = conn[d].retry
            BY <1>6, <4>1, <5>1
          <5>3. QED
            BY <3>5, <3>7, <5>2 DEF Holds, On
        <4>2. CASE (d # to \/ o = "none") /\ cs[d] # conn[d]
          BY <1>8, <3>4, <3>7, <4>2, AbsentKeeps
        <4>3. CASE (d # to \/ o = "none") /\ cs[d] = conn[d]
          <5>1. conn[d] \in ConnectionRecord /\ Same(conn[d], conn'[d])
            BY <1>8, <4>3, AtConnection
          <5>2. Holds(conn[d], v)
            BY <3>7, <5>1, SameFacts
          <5>3. QED
            BY <3>5, <5>2 DEF On
        <4>4. QED
          BY <4>1, <4>2, <4>3
      <3>8. QED
        BY <3>2, <3>3, <3>5, <3>7
    <2>2. QED
      BY <2>1 DEF Resting, On
  <1>17. QED
    BY <1>10, <1>14, <1>15, <1>16 DEF FInv, FoldersOK

\* The cache without some connections.
LEMMA LeavesCache ==
  ASSUME IInv, NEW X, cache' = Without(cache, X)
  PROVE  Range(cache') = Range(cache) \ X
  <1>1. cache \in Seq(Connections)
    BY DEF IInv, Typed
  <1>2. Range(Without(cache, X)) = Range(cache) \ X
    BY <1>1, WithoutProperties
  <1>3. QED
    BY <1>2

\* A connection that goes on with the URLs it has.
LEMMA FoldersAdvance ==
  ASSUME IInv, FInv, NEW c \in Connections, NEW r \in ConnectionRecord, Becomes(c, r),
         events \subseteq events', cancelled' = cancelled, suspended' = suspended,
         cache' \in {cache, Without(cache, {c})},
         c \in Range(cache') => \A f \in Folders : ClaimOn(r, f) => ClaimOn(conn[c], f),
         r.url = conn[c].url, r.retry = conn[c].retry, conn[c].phase # "release", r.phase # "release",
         r.phase \in {"retry", "remove", "rerun"} =>
           conn[c].phase \in {"retry", "remove", "rerun"} \/ "loses" \in events',
         r.phase = "suspend" => Kind[r.url] = "select",
         \A u \in Urls : told'[u] \in Waiting => told[u] \in Waiting
  PROVE  FInv'
  <1>1. Range(cache') \subseteq Range(cache)
    <2>1. CASE cache' = Without(cache, {c})
      BY <2>1, LeavesCache
    <2>2. QED
      BY <2>1
  <1>2. \A u \in Urls : Holds(r, u) => On(c, u)
    BY DEF On, Holds
  <1>3. r.url \in {conn[c].url, NoUrl} /\ suspended \subseteq suspended'
    OBVIOUS
  <1>4. QED
    BY <1>1, <1>2, <1>3, FoldersBecome

LEMMA SameClaims ==
  ASSUME NEW s \in ConnectionRecord, NEW r \in ConnectionRecord,
         r.url = s.url, r.busy = s.busy, r.sel = s.sel
  PROVE  \A f : ClaimOn(r, f) => ClaimOn(s, f)
  BY DEF ClaimOn

LEMMA EventsStay ==
  ASSUME NEW b, Happens(b)
  PROVE  events \subseteq events' /\ b \in events'
  BY DEF Happens

LEMMA EndsFolders ==
  ASSUME IInv, FInv, NEW c \in Connections, Ends(c),
         UNCHANGED <<told, cancelled, suspended, events>>
  PROVE  FInv'
  <1>1. Becomes(c, Absent) /\ Range(cache') = Range(cache) \ {c}
    BY LeavesCache DEF Ends, Leaves
  <1>2. /\ Absent \in ConnectionRecord /\ Absent.url = NoUrl /\ Absent.phase = "none"
        /\ \A u \in Urls : ~Holds(Absent, u)
    BY RecordFacts, AbsentKeeps
  <1>3. QED
    BY <1>1, <1>2, FoldersBecome

LEMMA BeginsFolders ==
  ASSUME IInv, FInv, NEW c \in Connections, HasUrlToRun(c), NEW r \in ConnectionRecord, Becomes(c, r),
         r.url = conn[c].url, r.retry = conn[c].retry, r.busy = conn[c].busy, r.sel = conn[c].sel,
         r.phase \in {"selected", "run", "wait"},
         Started(conn[c].url) \/ UNCHANGED told,
         UNCHANGED <<cache, cancelled, suspended>>, events \subseteq events'
  PROVE  FInv'
  <1>1. PICK s \in ConnectionRecord : s = conn[c] /\ RecordOK(s) /\ ToldOf(s, told) /\ s.url \in Urls \cup {NoUrl}
    BY AtConnection
  <1>2. /\ s.phase = "wait" /\ s.ready /\ ~s.die /\ s.url \in Urls
        /\ Started(s.url) \/ UNCHANGED told
        /\ r.url = s.url /\ r.retry = s.retry /\ r.busy = s.busy /\ r.sel = s.sel
    BY <1>1 DEF HasUrlToRun, In
  <1>6. told[s.url] \in Waiting
    BY <1>1, <1>2, ImapAssumption DEF ToldOf
  <1>7. \A u \in Urls : told'[u] \in Waiting => told[u] \in Waiting
    <2>1. told \in [Urls -> States]
      BY DEF IInv, Typed
    <2>2. QED
      BY <1>2, <1>6, <2>1 DEF Started, SetUrlState
  <1>8. \A f : ClaimOn(r, f) => ClaimOn(s, f)
    BY <1>2, SameClaims
  <1>9. /\ cache' \in {cache, Without(cache, {c})}
        /\ c \in Range(cache') => \A f \in Folders : ClaimOn(r, f) => ClaimOn(conn[c], f)
    BY <1>1, <1>8
  <1>10. QED
    BY <1>1, <1>2, <1>7, <1>9, FoldersAdvance

LEMMA ProcessCurrentURLFolders ==
  ASSUME IInv, FInv, NEW c \in Connections, ProcessCurrentURL(c)
  PROVE  FInv'
  <1>1. /\ HasUrlToRun(c) /\ Started(conn[c].url)
        /\ UNCHANGED <<cache, cancelled, suspended>> /\ events \subseteq events'
    BY DEF ProcessCurrentURL
  <1>2. QED
    BY <1>1, ProcessCurrentURLRecord, BeginsFolders

LEMMA ReturnsEarlyFolders ==
  ASSUME IInv, FInv, NEW c \in Connections, ReturnsEarly(c)
  PROVE  FInv'
  <1>1. /\ HasUrlToRun(c) /\ (Started(conn[c].url) \/ UNCHANGED told)
        /\ UNCHANGED <<cache, cancelled, suspended>> /\ events \subseteq events'
    BY EventsStay DEF ReturnsEarly
  <1>2. QED
    BY <1>1, ReturnsEarlyRecord, BeginsFolders

LEMMA FoundDeadFolders ==
  ASSUME IInv, FInv, NEW c \in Connections, FoundDead(c)
  PROVE  FInv'
  <1>1. PICK s \in ConnectionRecord : s = conn[c]
    BY AtConnection
  <1>2. /\ s.phase = "wait"
        /\ UNCHANGED <<cache, told, cancelled, suspended>>
        /\ Happens("loses")
    BY <1>1 DEF FoundDead, HasUrlToRun, In
  <1>3. PICK r : r = [s EXCEPT !.phase = "retry", !.ready = FALSE] /\ Becomes(c, r)
    BY <1>1 DEF FoundDead
  <1>4. /\ r \in ConnectionRecord /\ r.phase = "retry" /\ r.url = s.url /\ r.retry = s.retry
        /\ r.busy = s.busy /\ r.sel = s.sel
    BY <1>3 DEF ConnectionRecord, Phases
  <1>5. events \subseteq events' /\ "loses" \in events'
    BY <1>2, EventsStay
  <1>6. \A f : ClaimOn(r, f) => ClaimOn(s, f)
    BY <1>4, SameClaims
  <1>7. /\ cache' \in {cache, Without(cache, {c})}
        /\ c \in Range(cache') => \A f \in Folders : ClaimOn(r, f) => ClaimOn(conn[c], f)
    BY <1>1, <1>2, <1>6
  <1>8. QED
    BY <1>1, <1>2, <1>3, <1>4, <1>5, <1>7, FoldersAdvance

\* The URL selects its own folder, which the connection had claimed, or none.
LEMMA SelectMailboxFolders ==
  ASSUME "searches" \notin Behaviours, IInv, FInv, NEW c \in Connections, SelectMailbox(c)
  PROVE  FInv'
  <1>1. PICK s \in ConnectionRecord : s = conn[c] /\ RecordOK(s)
    BY AtConnection
  <1>2. /\ s.phase = "run"
        /\ UNCHANGED <<queue, cache, told, cancelled, suspended, online, loop, events>>
    BY <1>1 DEF SelectMailbox, In
  <1>3. s.url \in Urls /\ s.url # NoUrl /\ s.busy
    BY <1>1, <1>2, AtConnection, ImapAssumption DEF RecordOK
  <1>4. PICK f, m : /\ f \in {s.sel, NoFolder} \/ (Kind[s.url] = "select" /\ f = FolderOf[s.url])
                    /\ m \in BOOLEAN
                    /\ Becomes(c, [s EXCEPT !.phase = "selected", !.sel = f, !.more = m])
    <2> \A g : MoreHeaders(c, g) \subseteq BOOLEAN
      BY DEF MoreHeaders
    <2>1. CASE Kind[s.url] = "select"
      BY <1>1, <2>1 DEF SelectMailbox
    <2>2. CASE Kind[s.url] = "prefer"
      BY <1>1, <2>2 DEF SelectMailbox
    <2>3. CASE Kind[s.url] \notin {"select", "prefer"}
      BY <1>1, <2>3 DEF SelectMailbox
    <2>4. QED
      BY <2>1, <2>2, <2>3
  <1>5. PICK r : r = [s EXCEPT !.phase = "selected", !.sel = f, !.more = m]
    OBVIOUS
  <1>6. f \in Folders \cup {NoFolder}
    BY <1>3, <1>4, ImapAssumption DEF ConnectionRecord
  <1>7. /\ r \in ConnectionRecord /\ r.phase = "selected" /\ r.url = s.url /\ r.retry = s.retry
        /\ r.busy = s.busy /\ r.sel = f
    BY <1>4, <1>5, <1>6 DEF ConnectionRecord, Phases
  <1>8. \A g \in Folders : ClaimOn(r, g) => ClaimOn(s, g)
    BY <1>3, <1>4, <1>7, ImapAssumption DEF ClaimOn
  <1>9. /\ events \subseteq events' /\ cache' \in {cache, Without(cache, {c})}
        /\ c \in Range(cache') => \A g \in Folders : ClaimOn(r, g) => ClaimOn(conn[c], g)
        /\ Becomes(c, r)
    BY <1>1, <1>2, <1>4, <1>5, <1>8
  <1>10. QED
    BY <1>1, <1>2, <1>7, <1>9, FoldersAdvance

LEMMA ConnectionLostFolders ==
  ASSUME IInv, FInv, NEW c \in Connections, ConnectionLost(c)
  PROVE  FInv'
  <1>1. PICK s \in ConnectionRecord : s = conn[c]
    BY AtConnection
  <1>2. /\ s.phase \in {"run", "selected"}
        /\ UNCHANGED <<queue, told, cancelled, suspended, online, loop>>
        /\ cache' = Without(cache, {c})
        /\ Happens("loses")
    BY <1>1 DEF ConnectionLost, Leaves
  <1>3. PICK next \in {"selected", "retry"} :
          Becomes(c, [s EXCEPT !.phase = next, !.transport = "none", !.die = TRUE, !.status = "failed"])
    BY <1>1 DEF ConnectionLost
  <1>4. PICK r : r = [s EXCEPT !.phase = next, !.transport = "none", !.die = TRUE, !.status = "failed"]
    OBVIOUS
  <1>5. /\ r \in ConnectionRecord /\ r.phase \in {"selected", "retry"} /\ r.url = s.url /\ r.retry = s.retry
    BY <1>4 DEF ConnectionRecord, Phases
  <1>6. events \subseteq events' /\ "loses" \in events' /\ Becomes(c, r)
    BY <1>2, <1>3, <1>4, EventsStay
  <1>7. Range(cache') = Range(cache) \ {c} /\ cache' \in {cache, Without(cache, {c})}
    BY <1>2, LeavesCache
  <1>8. QED
    BY <1>1, <1>2, <1>5, <1>6, <1>7, FoldersAdvance

LEMMA BadEndFolders ==
  ASSUME IInv, FInv, NEW c \in Connections, BadEnd(c)
  PROVE  FInv'
  <1>1. PICK s \in ConnectionRecord : s = conn[c]
    BY AtConnection
  <1>2. /\ s.phase = "run"
        /\ UNCHANGED <<queue, cache, told, cancelled, rerunning, suspended, online, loop>>
        /\ Happens("badEnd")
    BY <1>1 DEF BadEnd, In
  <1>3. PICK f \in {"failed", "syntax"} : Becomes(c, [s EXCEPT !.phase = "selected", !.status = f])
    BY <1>1 DEF BadEnd
  <1>4. PICK r : r = [s EXCEPT !.phase = "selected", !.status = f]
    OBVIOUS
  <1>5. /\ r \in ConnectionRecord /\ r.phase = "selected" /\ r.url = s.url /\ r.retry = s.retry
        /\ r.busy = s.busy /\ r.sel = s.sel
    BY <1>4 DEF ConnectionRecord, Phases
  <1>6. \A g : ClaimOn(r, g) => ClaimOn(s, g)
    BY <1>5, SameClaims
  <1>7. /\ events \subseteq events' /\ cache' \in {cache, Without(cache, {c})}
        /\ c \in Range(cache') => \A g \in Folders : ClaimOn(r, g) => ClaimOn(conn[c], g)
        /\ Becomes(c, r)
    BY <1>1, <1>2, <1>3, <1>4, <1>6, EventsStay
  <1>8. QED
    BY <1>1, <1>2, <1>5, <1>7, FoldersAdvance

\* A connection that goes to another phase and stays in the cache, or leaves it.
LEMMA GoesFolders ==
  ASSUME IInv, FInv, NEW c \in Connections, NEW p \in Phases, Goes(c, p),
         events' = events, cancelled' = cancelled, suspended' = suspended,
         cache' \in {cache, Without(cache, {c})},
         conn[c].phase # "release", p # "release",
         p \in {"retry", "remove", "rerun"} => conn[c].phase \in {"retry", "remove", "rerun"},
         p = "suspend" => Kind[conn[c].url] = "select",
         \A u \in Urls : told'[u] \in Waiting => told[u] \in Waiting
  PROVE  FInv'
  <1>1. PICK s \in ConnectionRecord : s = conn[c]
    BY AtConnection
  <1>2. PICK r \in ConnectionRecord :
          /\ Becomes(c, r)
          /\ r.phase = p /\ r.url = s.url /\ r.retry = s.retry /\ r.busy = s.busy /\ r.sel = s.sel
    BY <1>1, GoesRecord
  <1>3. \A f : ClaimOn(r, f) => ClaimOn(s, f)
    BY <1>2, SameClaims
  <1>4. /\ events \subseteq events'
        /\ c \in Range(cache') => \A f \in Folders : ClaimOn(r, f) => ClaimOn(conn[c], f)
    BY <1>1, <1>3
  <1>5. QED
    BY <1>1, <1>2, <1>4, FoldersAdvance

LEMMA UrlStopsFolders ==
  ASSUME IInv, FInv, NEW c \in Connections, UrlStops(c)
  PROVE  FInv'
  <1>1. PICK s \in ConnectionRecord : s = conn[c] /\ RecordOK(s)
    BY AtConnection
  <1>2. /\ s.phase = "selected"
        /\ UNCHANGED <<queue, cache, cancelled, rerunning, suspended, online, loop, events>>
    BY <1>1 DEF UrlStops, In
  <1>3. /\ s.url \in Urls /\ told[s.url] = "started" /\ s.url # NoUrl /\ s.retry = NoUrl
        /\ On(c, s.url)
    BY <1>1, <1>2, AtConnection, ImapAssumption DEF RecordOK, On, Holds
  <1>4. CASE Stopped(s.url) /\ Goes(c, "release")
    <2>1. PICK r \in ConnectionRecord :
            /\ Becomes(c, r)
            /\ r.phase = "release" /\ r.url = s.url /\ r.retry = s.retry /\ r.busy = s.busy /\ r.sel = s.sel
      BY <1>1, <1>4, GoesRecord DEF Phases
    <2>2. told' \in [Urls -> States] /\ told'[s.url] = "stopped" /\ \A u \in Urls : u # s.url => told'[u] = told[u]
      BY <1>3, <1>4 DEF Stopped, SetUrlState, States, IInv, Typed
    <2>3. \A f : ClaimOn(r, f) => ClaimOn(s, f)
      BY <2>1, SameClaims
    <2>4. \A u \in Urls : ~Holds(r, u)
      BY <1>3, <2>1, ImapAssumption DEF Holds
    <2>5. r.phase = "release" => r.url \in Urls /\ told'[r.url] \notin Waiting
      BY <1>3, <2>1, <2>2 DEF Waiting
    <2>6. \A u \in Urls : told'[u] \in Waiting => told[u] \in Waiting
      BY <1>3, <2>2 DEF Waiting
    <2>7. /\ events \subseteq events' /\ Range(cache') \subseteq Range(cache) /\ suspended \subseteq suspended'
          /\ c \in Range(cache') => \A f \in Folders : ClaimOn(r, f) => ClaimOn(conn[c], f)
          /\ r.url \in {conn[c].url, NoUrl} /\ cancelled' = cancelled
      BY <1>1, <1>2, <2>1, <2>3
    <2>8. QED
      BY <2>1, <2>4, <2>5, <2>6, <2>7, FoldersBecome
  <1>5. CASE Goes(c, "suspend") /\ UNCHANGED told /\ Suspends(c)
    <2>1. "suspend" \in Phases /\ Kind[s.url] = "select"
      BY <1>1, <1>5 DEF Phases, Suspends
    <2>2. QED
      BY <1>1, <1>2, <1>5, <2>1, GoesFolders
  <1>6. QED
    BY <1>1, <1>4, <1>5 DEF UrlStops

LEMMA SuspendUrlFolders ==
  ASSUME IInv, FInv, NEW c \in Connections, SuspendUrl(c)
  PROVE  FInv'
  <1>1. PICK s \in ConnectionRecord : s = conn[c] /\ RecordOK(s)
    BY AtConnection
  <1>2. /\ s.phase = "suspend"
        /\ suspended' = suspended \cup {s.url}
        /\ UNCHANGED <<cache, told, cancelled, rerunning, online, loop, events>>
        /\ Goes(c, "release")
    BY <1>1 DEF SuspendUrl, In
  <1>3. /\ s.url \in Urls /\ s.url # NoUrl /\ s.retry = NoUrl
        /\ On(c, s.url) /\ Kind[s.url] = "select"
    BY <1>1, <1>2, AtConnection, ImapAssumption DEF RecordOK, On, Holds, FInv, EventsOK
  <1>4. PICK r \in ConnectionRecord :
          /\ Becomes(c, r)
          /\ r.phase = "release" /\ r.url = s.url /\ r.retry = s.retry /\ r.busy = s.busy /\ r.sel = s.sel
    BY <1>1, <1>2, GoesRecord DEF Phases
  <1>5. \A f : ClaimOn(r, f) => ClaimOn(s, f)
    BY <1>4, SameClaims
  <1>6. \A u \in Urls : ~Holds(r, u)
    BY <1>3, <1>4, ImapAssumption DEF Holds
  <1>7. /\ r.url \in Urls /\ Kind[r.url] = "select" /\ r.url \in suspended'
        /\ \A d \in Connections : On(d, r.url) => d = c
        /\ ~Holds(r, r.url)
    BY <1>2, <1>3, <1>4, <1>6 DEF IInv, PlacesOK
  <1>8. /\ events \subseteq events' /\ Range(cache') \subseteq Range(cache) /\ suspended \subseteq suspended'
        /\ c \in Range(cache') => \A f \in Folders : ClaimOn(r, f) => ClaimOn(conn[c], f)
        /\ r.url \in {conn[c].url, NoUrl} /\ cancelled' = cancelled
        /\ \A u \in Urls : told'[u] \in Waiting => told[u] \in Waiting
    BY <1>1, <1>2, <1>4, <1>5
  <1>9. QED
    BY <1>4, <1>6, <1>7, <1>8, FoldersBecome

LEMMA ReleaseUrlStateFolders ==
  ASSUME IInv, FInv, NEW c \in Connections, ReleaseUrlState(c)
  PROVE  FInv'
  <1>1. PICK s \in ConnectionRecord : s = conn[c] /\ RecordOK(s)
    BY AtConnection
  <1>2. /\ s.phase = "release"
        /\ UNCHANGED <<queue, cache, told, cancelled, rerunning, suspended, online, loop, events>>
    BY <1>1 DEF ReleaseUrlState, In
  <1>3. PICK r : r = [s EXCEPT !.phase = "next", !.url = NoUrl, !.busy = FALSE, !.more = FALSE] /\ Becomes(c, r)
    BY <1>1 DEF ReleaseUrlState
  <1>4. /\ r \in ConnectionRecord /\ r.phase = "next" /\ r.url = NoUrl /\ r.retry = s.retry
        /\ r.busy = FALSE /\ r.sel = s.sel
    BY <1>3 DEF ConnectionRecord, Phases
  <1>5. \A u \in Urls : ~Holds(r, u)
    BY <1>1, <1>2, <1>4, ImapAssumption DEF RecordOK, Holds
  <1>6. /\ events \subseteq events' /\ Range(cache') \subseteq Range(cache) /\ suspended \subseteq suspended'
        /\ \A f \in Folders : ClaimOn(r, f) => ClaimOn(conn[c], f)
        /\ \A u \in Urls : told'[u] \in Waiting => told[u] \in Waiting
    BY <1>1, <1>2, <1>4 DEF ClaimOn
  <1>7. QED
    BY <1>2, <1>3, <1>4, <1>5, <1>6, FoldersBecome

LEMMA ServeQueueFolders ==
  ASSUME IInv, FInv, NEW c \in Connections, ServeQueue(c)
  PROVE  FInv'
  <1>1. /\ conn[c].phase = "next" /\ Goes(c, "after") /\ "after" \in Phases
        /\ UNCHANGED <<cache, cancelled, suspended, events>>
    BY DEF ServeQueue, In, Phases
  <1>2. \A u \in Urls : told'[u] \in Waiting => told[u] \in Waiting
    <2>1. CASE UNCHANGED told
      BY <2>1
    <2>2. CASE told' = [u \in Urls |-> IF u \in Range(queue) \cap cancelled THEN "stopped" ELSE told[u]]
      BY <2>2 DEF Waiting
    <2>3. QED
      BY <2>1, <2>2 DEF ServeQueue
  <1>3. QED
    BY <1>1, <1>2, GoesFolders

LEMMA NextTurnFolders ==
  ASSUME IInv, FInv, NEW c \in Connections, NextTurn(c)
  PROVE  FInv'
  <1>1. /\ conn[c].phase = "after" /\ "wait" \in Phases
        /\ UNCHANGED <<told, cancelled, suspended, events>>
    BY DEF NextTurn, In, Phases
  <1>2. CASE Ends(c)
    BY <1>1, <1>2, EndsFolders
  <1>3. CASE Goes(c, "wait") /\ UNCHANGED cache
    BY <1>1, <1>3, GoesFolders
  <1>4. QED
    BY <1>2, <1>3 DEF NextTurn

LEMMA ReleaseForRetryFolders ==
  ASSUME IInv, FInv, NEW c \in Connections, ReleaseForRetry(c)
  PROVE  FInv'
  <1>1. PICK s \in ConnectionRecord : s = conn[c] /\ s.url \in Urls \cup {NoUrl}
    BY AtConnection
  <1>2. /\ s.phase = "retry"
        /\ UNCHANGED <<queue, cache, told, cancelled, rerunning, suspended, online, loop, events>>
    BY <1>1 DEF ReleaseForRetry, In
  <1>3. PICK r : r = [s EXCEPT !.phase = "remove", !.retry = s.url, !.url = NoUrl, !.busy = FALSE] /\ Becomes(c, r)
    BY <1>1 DEF ReleaseForRetry
  <1>4. /\ r \in ConnectionRecord /\ r.phase = "remove" /\ r.url = NoUrl /\ r.retry = s.url
        /\ r.busy = FALSE /\ r.sel = s.sel
    BY <1>1, <1>3 DEF ConnectionRecord, Phases
  <1>5. \A u \in Urls : Holds(r, u) => On(c, u)
    BY <1>1, <1>2, <1>4, ImapAssumption DEF Holds, On
  <1>6. /\ events \subseteq events' /\ Range(cache') \subseteq Range(cache) /\ suspended \subseteq suspended'
        /\ \A f \in Folders : ClaimOn(r, f) => ClaimOn(conn[c], f)
        /\ \A u \in Urls : told'[u] \in Waiting => told[u] \in Waiting
    BY <1>1, <1>2, <1>4 DEF ClaimOn
  <1>7. QED
    BY <1>1, <1>2, <1>3, <1>4, <1>5, <1>6, FoldersBecome

LEMMA RemoveConnectionFolders ==
  ASSUME IInv, FInv, NEW c \in Connections, RemoveConnection(c)
  PROVE  FInv'
  <1>1. /\ conn[c].phase = "remove" /\ Goes(c, "rerun") /\ "rerun" \in Phases
        /\ cache' = Without(cache, {c})
        /\ UNCHANGED <<told, cancelled, suspended, events>>
    BY DEF RemoveConnection, In, Phases, Leaves
  <1>2. QED
    BY <1>1, GoesFolders

LEMMA RetryUrlFolders ==
  ASSUME IInv, IInv', FInv, NEW c \in Connections, RetryUrl(c)
  PROVE  FInv'
  <1>1. PICK s \in ConnectionRecord : s = conn[c] /\ RecordOK(s) /\ ToldOf(s, told) /\ s.retry \in Urls \cup {NoUrl}
    BY AtConnection
  <1>2. PICK cs : cs = [conn EXCEPT ![c] = Absent]
    OBVIOUS
  <1>3. s.phase = "rerun" /\ cancelled' = cancelled /\ suspended' = suspended
    BY <1>1 DEF RetryUrl, In
  <1>4. told \in [Urls -> States] /\ conn \in [Connections -> ConnectionRecord]
    BY DEF IInv, Typed
  <1>5. cs \in [Connections -> ConnectionRecord] /\ Left(cs)
    BY <1>1, <1>2, <1>3, <1>4, RecordFacts DEF Left
  <1>6. PICK u : u = s.retry
    OBVIOUS
  <1>7. u \in Urls /\ told[u] \in Waiting
    BY <1>1, <1>3, <1>6 DEF RecordOK, ToldOf
  <1>8. \A d \in Connections : On(d, u) => conn[d].phase = "rerun"
    <2>1. On(c, u)
      BY <1>1, <1>6 DEF On, Holds
    <2>2. QED
      BY <1>1, <1>3, <1>7, <2>1 DEF IInv, PlacesOK
  <1>9. u \in cancelled => {"cancels", "loses"} \subseteq events
    BY <1>1, <1>3 DEF FInv, EventsOK
  <1>10. \A d \in Connections : conn[d].url = u => told[u] \in Waiting
    BY <1>7
  <1>11. ASSUME NEW o \in {"none", "runs", "local", "fails"},
                LoadImapUrl(conn[c].retry, o, [conn EXCEPT ![c] = Absent]),
                IF o = "local" THEN SetUrlState(conn[c].retry, "stopped") ELSE UNCHANGED told
         PROVE  FInv'
    <2>1. LoadImapUrl(u, o, cs)
      BY <1>1, <1>2, <1>6, <1>11
    <2>2. \A v \in Urls : v # u /\ told'[v] \in Waiting => told[v] \in Waiting
      BY <1>1, <1>4, <1>6, <1>11 DEF SetUrlState
    <2>3. o = "local" => told'[u] \notin Waiting
      BY <1>1, <1>4, <1>6, <1>7, <1>11 DEF SetUrlState, Waiting
    <2>4. QED
      BY <1>3, <1>5, <1>7, <1>8, <1>9, <1>10, <2>1, <2>2, <2>3, FoldersLoad
  <1>12. QED
    BY <1>11 DEF RetryUrl

LEMMA GetImapConnectionAndLoadUrlFolders ==
  ASSUME IInv, IInv', FInv, NEW u \in Urls, GetImapConnectionAndLoadUrl(u)
  PROVE  FInv'
  <1>1. PICK cs \in [Connections -> ConnectionRecord] : cs = conn
    BY DEF IInv, Typed
  <1>2. Left(cs) /\ told \in [Urls -> States]
    BY <1>1 DEF Left, IInv, Typed
  <1>3. told[u] = "new" /\ cancelled' = cancelled /\ suspended' = suspended
    BY DEF GetImapConnectionAndLoadUrl
  <1>4. /\ u \notin cancelled
        /\ \A c \in Connections : ~On(c, u) /\ conn[c].url # u
    BY <1>3 DEF IInv, PlacesOK, ToldOK, On, Holds
  <1>5. ASSUME NEW o \in {"none", "runs", "local", "fails"}, NEW s \in States, o = "local" => s = "stopped",
               LoadImapUrl(u, o, conn), SetUrlState(u, s)
        PROVE  FInv'
    <2>1. LoadImapUrl(u, o, cs)
      BY <1>1, <1>5
    <2>2. /\ \A v \in Urls : v # u /\ told'[v] \in Waiting => told[v] \in Waiting
          /\ o = "local" => told'[u] \notin Waiting
      BY <1>2, <1>5 DEF SetUrlState, Waiting
    <2>3. QED
      BY <1>2, <1>3, <1>4, <2>1, <2>2, FoldersLoad
  <1>6. CASE LoadImapUrl(u, "none", conn) /\ SetUrlState(u, "asked")
    BY <1>5, <1>6 DEF States
  <1>7. CASE LoadImapUrl(u, "runs", conn) /\ SetUrlState(u, "asked")
    BY <1>5, <1>7 DEF States
  <1>8. CASE LoadImapUrl(u, "local", conn) /\ SetUrlState(u, "stopped")
    BY <1>5, <1>8 DEF States
  <1>9. CASE LoadImapUrl(u, "fails", conn) /\ SetUrlState(u, "refused")
    BY <1>5, <1>9 DEF States
  <1>10. QED
    BY <1>6, <1>7, <1>8, <1>9 DEF GetImapConnectionAndLoadUrl

\* A step that neither changes a connection nor happens to the server.
LEMMA FoldersStill ==
  ASSUME IInv, FInv, UNCHANGED <<conn, cache, events, cancelled, suspended>>,
         \A u \in Urls : told'[u] \in Waiting => told[u] \in Waiting
  PROVE  FInv'
  <1>1. conn' \in [Connections -> ConnectionRecord] /\ \A c \in Connections : Same(conn[c], conn'[c])
    BY SameItself DEF IInv, Typed
  <1>2. /\ Range(cache') \subseteq Range(cache) /\ events \subseteq events'
        /\ cancelled' # {} => "cancels" \in events'
        /\ ~({"cancels", "loses"} \subseteq events') => \A c \in Range(cache') : conn[c].url \notin cancelled'
    BY DEF FInv, EventsOK, FoldersOK
  <1>3. QED
    BY <1>1, <1>2, FoldersStay

LEMMA LoadNextQueuedUrlFolders ==
  ASSUME IInv, IInv', FInv, LoadNextQueuedUrl
  PROVE  FInv'
  <1>1. /\ cancelled' = cancelled /\ suspended' = suspended
        /\ told \in [Urls -> States] /\ queue \in Seq(Urls)
    BY DEF LoadNextQueuedUrl, IInv, Typed
  <1>2. CASE UNCHANGED <<cache, conn, told, events>>
    BY <1>1, <1>2, FoldersStill
  <1>3. PICK u : u = Head(queue)
    OBVIOUS
  <1>4. queue # <<>> => u \in Urls /\ told[u] \in Waiting /\ \A c \in Connections : ~On(c, u)
    <2>1. SUFFICES ASSUME queue # <<>>
                   PROVE  u \in Urls /\ told[u] \in Waiting /\ \A c \in Connections : ~On(c, u)
      OBVIOUS
    <2>2. u \in Range(queue)
      BY <1>1, <1>3, <2>1, TailOfDistinct DEF IInv, PlacesOK
    <2>3. QED
      BY <1>1, <2>2, Elements DEF IInv, PlacesOK, ToldOK
  <1>5. CASE SetUrlState(u, "stopped") /\ UNCHANGED <<cache, conn, events>>
    <2>1. \A v \in Urls : told'[v] \in Waiting => told[v] \in Waiting
      BY <1>1, <1>5 DEF SetUrlState, Waiting
    <2>2. QED
      BY <1>1, <1>5, <2>1, FoldersStill
  <1>6. ASSUME queue # <<>>, u \notin cancelled, NEW o \in {"none", "runs", "local", "fails"},
               LoadImapUrl(u, o, conn),
               IF o = "local" THEN SetUrlState(u, "stopped") ELSE UNCHANGED told
        PROVE  FInv'
    <2>1. PICK cs \in [Connections -> ConnectionRecord] : cs = conn
      BY DEF IInv, Typed
    <2>2. Left(cs) /\ LoadImapUrl(u, o, cs)
      BY <1>6, <2>1 DEF Left
    <2>3. /\ \A v \in Urls : v # u /\ told'[v] \in Waiting => told[v] \in Waiting
          /\ o = "local" => told'[u] \notin Waiting
      BY <1>1, <1>4, <1>6 DEF SetUrlState, Waiting
    <2>4. u \in Urls /\ told[u] \in Waiting /\ \A c \in Connections : ~On(c, u)
      BY <1>4, <1>6
    <2>5. QED
      BY <1>1, <1>6, <2>2, <2>3, <2>4, FoldersLoad
  <1>7. QED
    BY <1>2, <1>3, <1>5, <1>6 DEF LoadNextQueuedUrl

\* Connections are closed; no URL of those that stay in the cache is cancelled.
LEMMA FoldersDie ==
  ASSUME IInv, IInv', FInv, NEW dying \in SUBSET Connections, \A c \in dying : conn[c].phase # "none",
         conn' = TellThreadToDie(conn, dying), cache' = Without(cache, dying),
         told' = told, suspended' = suspended, events \subseteq events',
         cancelled' # {} => "cancels" \in events',
         ~({"cancels", "loses"} \subseteq events) => \A c \in Range(cache) \ dying : conn[c].url \notin cancelled'
  PROVE  FInv'
  <1>1. Range(cache') = Range(cache) \ dying
    BY LeavesCache
  <1>2. conn \in [Connections -> ConnectionRecord]
    BY DEF IInv, Typed
  <1>3. /\ conn' \in [Connections -> ConnectionRecord]
        /\ \A c \in Connections :
             /\ c \notin dying => conn'[c] = conn[c]
             /\ c \in dying => conn'[c] = [conn[c] EXCEPT !.die = TRUE, !.ready = TRUE]
    BY <1>2, AreToldToDie
  <1>4. ASSUME NEW c \in Connections PROVE Same(conn[c], conn'[c])
    <2>1. CASE c \in dying
      BY <1>3, <2>1 DEF Same
    <2>2. CASE c \notin dying
      BY <1>3, <2>2, SameItself
    <2>3. QED
      BY <2>1, <2>2
  <1>5. /\ Range(cache') \subseteq Range(cache)
        /\ ~({"cancels", "loses"} \subseteq events') => \A c \in Range(cache') : conn[c].url \notin cancelled'
    BY <1>1
  <1>6. QED
    BY <1>3, <1>4, <1>5, FoldersStay

LEMMA CancelFolders ==
  ASSUME IInv, IInv', FInv, NEW u \in Urls, Cancel(u)
  PROVE  FInv'
  <1>1. PICK on \in SUBSET Connections :
          /\ on = {c \in Connections : u \in {conn[c].url, conn[c].retry} /\ conn[c].phase # "release"}
          /\ on # {} \/ u \in Range(queue) \ suspended
          /\ conn' = TellThreadToDie(conn, on) /\ cache' = Without(cache, on)
    BY DEF Cancel
  <1>2. /\ told' = told /\ suspended' = suspended
        /\ told[u] \in Waiting /\ cancelled' = cancelled \cup {u}
        /\ Happens("cancels")
    BY DEF Cancel, Waiting
  <1>3. events \subseteq events' /\ "cancels" \in events'
    BY <1>2, EventsStay
  <1>4. \A c \in on : conn[c].phase # "none"
    BY <1>1, RecordFacts, ImapAssumption DEF IInv, PhasesOK, RecordOK
  <1>5. ASSUME ~({"cancels", "loses"} \subseteq events), NEW c \in Range(cache) \ on
        PROVE  conn[c].url \notin cancelled'
    <2>1. conn[c].url \notin cancelled /\ Resting
      BY <1>5 DEF FInv, FoldersOK
    <2>2. c \in Connections
      BY Elements DEF IInv, Typed
    <2>3. ASSUME conn[c].url = u PROVE FALSE
      <3>1. conn[c].phase = "release"
        BY <1>1, <1>5, <2>2, <2>3
      <3>2. u \in suspended /\ \A d \in Connections : ~On(d, u)
        BY <1>2, <2>1, <2>3, <3>1 DEF Resting
      <3>3. on = {}
        BY <1>1, <3>2 DEF On, Holds
      <3>4. QED
        BY <1>1, <3>2, <3>3
    <2>4. QED
      BY <1>2, <2>1, <2>3
  <1>6. QED
    BY <1>1, <1>2, <1>3, <1>4, <1>5, FoldersDie

LEMMA CloseFolders ==
  ASSUME IInv, IInv', FInv, NEW dying \in SUBSET Range(cache),
         conn' = TellThreadToDie(conn, dying), cache' = Without(cache, dying),
         UNCHANGED <<told, cancelled, suspended>>, NEW b, Happens(b)
  PROVE  FInv'
  <1>1. Range(cache) \subseteq Connections
    BY Elements DEF IInv, Typed
  <1>2. dying \in SUBSET Connections /\ \A c \in dying : conn[c].phase # "none"
    BY <1>1 DEF IInv, CacheOK
  <1>3. events \subseteq events'
    BY EventsStay
  <1>4. /\ cancelled' # {} => "cancels" \in events'
        /\ ~({"cancels", "loses"} \subseteq events) => \A c \in Range(cache) \ dying : conn[c].url \notin cancelled'
    BY <1>3 DEF FInv, EventsOK, FoldersOK
  <1>5. QED
    BY <1>2, <1>3, <1>4, FoldersDie

LEMMA CloseConnectionForFolderFolders ==
  ASSUME IInv, IInv', FInv, NEW f \in Folders, CloseConnectionForFolder(f)
  PROVE  FInv'
  <1>1. PICK dying \in SUBSET Range(cache) :
          conn' = TellThreadToDie(conn, dying) /\ cache' = Without(cache, dying)
    BY FirstOnFolder DEF CloseConnectionForFolder
  <1>2. Happens("closes") /\ UNCHANGED <<told, cancelled, suspended>>
    BY DEF CloseConnectionForFolder
  <1>3. QED
    BY <1>1, <1>2, CloseFolders

LEMMA GoOfflineFolders ==
  ASSUME IInv, IInv', FInv, GoOffline
  PROVE  FInv'
  <1>1. PICK dying \in SUBSET Range(cache) : dying = Range(cache)
    OBVIOUS
  <1>2. /\ conn' = TellThreadToDie(conn, dying) /\ cache' = Without(cache, dying)
        /\ Happens("offline") /\ UNCHANGED <<told, cancelled, suspended>>
    BY <1>1, WithoutAll DEF GoOffline, IInv, Typed
  <1>3. QED
    BY <1>2, CloseFolders

LEMMA ThreadStepsFolders ==
  ASSUME "searches" \notin Behaviours, IInv, IInv', FInv, NEW c \in Connections, ThreadStep(c)
  PROVE  FInv'
  <1>1. CASE ThreadDies(c)
    <2>1. Ends(c) /\ UNCHANGED <<told, cancelled, suspended, events>>
      BY <1>1 DEF ThreadDies
    <2>2. QED
      BY <2>1, EndsFolders
  <1>2. CASE ProcessCurrentURL(c)
    BY <1>2, ProcessCurrentURLFolders
  <1>3. CASE FoundDead(c)
    BY <1>3, FoundDeadFolders
  <1>4. CASE SelectMailbox(c)
    BY <1>4, SelectMailboxFolders
  <1>5. CASE ConnectionLost(c)
    BY <1>5, ConnectionLostFolders
  <1>6. CASE BadEnd(c)
    BY <1>6, BadEndFolders
  <1>7. CASE UrlStops(c)
    BY <1>7, UrlStopsFolders
  <1>8. CASE SuspendUrl(c)
    BY <1>8, SuspendUrlFolders
  <1>9. CASE ReleaseUrlState(c)
    BY <1>9, ReleaseUrlStateFolders
  <1>10. CASE ServeQueue(c)
    BY <1>10, ServeQueueFolders
  <1>11. CASE NextTurn(c)
    BY <1>11, NextTurnFolders
  <1>12. CASE ReleaseForRetry(c)
    BY <1>12, ReleaseForRetryFolders
  <1>13. CASE RemoveConnection(c)
    BY <1>13, RemoveConnectionFolders
  <1>14. CASE RetryUrl(c)
    BY <1>14, RetryUrlFolders
  <1>15. CASE ReturnsEarly(c)
    BY <1>15, ReturnsEarlyFolders
  <1>16. QED
    BY <1>1, <1>2, <1>3, <1>4, <1>5, <1>6, <1>7, <1>8, <1>9, <1>10, <1>11, <1>12, <1>13, <1>14, <1>15
       DEF ThreadStep

LEMMA InitiallyFInv ==
  Init => FInv
  <1> SUFFICES ASSUME Init PROVE FInv
    OBVIOUS
  <1>1. cancelled = {} /\ cache = <<>> /\ conn = [c \in Connections |-> Absent]
    BY DEF Init
  <1>2. \A c \in Connections : conn[c].phase = "none"
    BY <1>1, RecordFacts
  <1>3. Range(cache) = {}
    BY <1>1 DEF Range
  <1>4. EventsOK
    BY <1>1, <1>2 DEF EventsOK
  <1>5. FoldersOK
    BY <1>3 DEF FoldersOK, Exclusive, Resting
  <1>6. QED
    BY <1>4, <1>5 DEF FInv

LEMMA NextKeepsFInv ==
  ASSUME "searches" \notin Behaviours, IInv, IInv', FInv, [Next]_vars
  PROVE  FInv'
  <1>1. ASSUME NEW u \in Urls, GetImapConnectionAndLoadUrl(u) PROVE FInv'
    BY <1>1, GetImapConnectionAndLoadUrlFolders
  <1>2. ASSUME NEW u \in Urls, Cancel(u) PROVE FInv'
    BY <1>2, CancelFolders
  <1>3. CASE LoadNextQueuedUrl
    BY <1>3, LoadNextQueuedUrlFolders
  <1>4. ASSUME NEW f \in Folders, CloseConnectionForFolder(f) PROVE FInv'
    BY <1>4, CloseConnectionForFolderFolders
  <1>5. CASE GoOffline
    BY <1>5, GoOfflineFolders
  <1>6. CASE GoOnline
    <2>1. UNCHANGED <<conn, cache, events, cancelled, suspended>> /\ UNCHANGED told
      BY <1>6 DEF GoOnline
    <2>2. QED
      BY <2>1, FoldersStill
  <1>7. ASSUME NEW c \in Connections, ThreadStep(c) PROVE FInv'
    BY <1>7, ThreadStepsFolders
  <1>8. CASE UNCHANGED vars
    <2>1. UNCHANGED <<conn, cache, events, cancelled, suspended>> /\ UNCHANGED told
      BY <1>8 DEF vars
    <2>2. QED
      BY <2>1, FoldersStill
  <1>9. QED
    BY <1>1, <1>2, <1>3, <1>4, <1>5, <1>6, <1>7, <1>8 DEF Next

LEMMA FoldersAreApart ==
  IInv /\ FInv => FolderOnOneConnection
  <1> SUFFICES ASSUME IInv, FInv, ~({"cancels", "loses"} \subseteq events),
                      NEW i \in DOMAIN cache, NEW j \in DOMAIN cache, i # j,
                      conn[cache[i]].sel # NoFolder, conn[cache[i]].sel = conn[cache[j]].sel
               PROVE  FALSE
    BY DEF FolderOnOneConnection
  <1>1. PICK c, d \in Range(cache) : c = cache[i] /\ d = cache[j]
    BY Elements DEF IInv, Typed
  <1>2. c # d
    BY <1>1 DEF IInv, CacheOK
  <1>3. c \in Connections /\ d \in Connections
    BY Elements DEF IInv, Typed
  <1>4. conn[c] \in ConnectionRecord
    BY <1>3 DEF IInv, Typed
  <1>5. PICK f \in Folders : f = conn[c].sel
    BY <1>1, <1>4 DEF ConnectionRecord
  <1>6. ClaimOn(conn[c], f) /\ ClaimOn(conn[d], f)
    BY <1>1, <1>5 DEF ClaimOn
  <1>7. QED
    BY <1>2, <1>6 DEF FInv, FoldersOK, Exclusive

\* A folder is selected on one connection, on which it changes, as long as no
\* URL is cancelled after a connection has failed: GetImapConnection finds the
\* connection that has, or is given, the folder of a URL that selects it.  The
\* URLs that only prefer a folder must not select another one on the way.
THEOREM FoldersOnOneConnection ==
  ASSUME "searches" \notin Behaviours
  PROVE  Spec => []FolderOnOneConnection
  <1>1. Init => IInv /\ FInv
    BY InitiallyIInv, InitiallyFInv
  <1>2. (IInv /\ FInv) /\ [Next]_vars => (IInv /\ FInv)'
    BY NextKeepsIInv, NextKeepsFInv
  <1>3. IInv /\ FInv => FolderOnOneConnection
    BY FoldersAreApart
  <1>4. QED
    BY <1>1, <1>2, <1>3, PTL DEF Spec

\* Under the same assumption: no connection takes a URL that was suspended from
\* the queue before the connection that ran it has let go of it.
THEOREM SuspendedUrlsRest ==
  ASSUME "searches" \notin Behaviours
  PROVE  Spec => []SuspendedUrlRests
  <1>1. Init => IInv /\ FInv
    BY InitiallyIInv, InitiallyFInv
  <1>2. (IInv /\ FInv) /\ [Next]_vars => (IInv /\ FInv)'
    BY NextKeepsIInv, NextKeepsFInv
  <1>3. IInv /\ FInv => SuspendedUrlRests
    <2>1. SUFFICES ASSUME IInv, FInv, ~({"cancels", "loses"} \subseteq events), NEW c \in Range(cache),
                          conn[c].phase = "release", told[conn[c].url] \in Waiting
                   PROVE  Holders(conn[c].url) = {}
      BY DEF SuspendedUrlRests, In, Waiting
    <2>2. \A d \in Connections : ~On(d, conn[c].url)
      BY <2>1 DEF FInv, FoldersOK, Resting
    <2>3. QED
      BY <2>2 DEF Holders, On, Holds
  <1>4. QED
    BY <1>1, <1>2, <1>3, PTL DEF Spec
==============================================================================
