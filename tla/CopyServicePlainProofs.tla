------------------------ MODULE CopyServicePlainProofs ------------------------
(***************************************************************************)
(* Proofs of what the copy service promises when folders and listeners     *)
(* behave plainly: for all folders, files and submissions that meet        *)
(* PlainCase.  CopyPlain checks the same properties on a small instance;   *)
(* what holds without these premises is in CopyServiceProofs.              *)
(***************************************************************************)
EXTENDS CopyServiceProofs, SequenceFilterProofs

Begun(i) == queue[i].id \in begun

\* The request or an older one for its destination has been started.
Served(i) == \E k \in 1..i : queue[k].dst = queue[i].dst /\ Begun(k)

\* A queued request was submitted; its flags are set when it is started.
PlainRequest(r) ==
  /\ \E t \in Submissions : /\ r.type = t.type /\ r.src = t.src
                            /\ r.dst = t.dst /\ r.sources = t.sources
  /\ r.type = "messages" => r.src # r.dst
  /\ ~r.copier
  /\ IF r.id \in begun THEN IsProcessed(r) ELSE r.marked = {} /\ ~r.processed

QueuePlain ==
  /\ \A i \in DOMAIN queue : PlainRequest(queue[i])
  /\ \A i, j \in DOMAIN queue :
       queue[i].src \in Files /\ queue[i].src = queue[j].src => i = j

NoTransferOf(id) == \A x \in transfers : x.id # id
NoEndOf(id) == \A e \in ended : e.id # id

\* A folder's copy state stands for the one transfer into it, and a transfer
\* for a queued request that was started and has not ended.
TransferPlain(x) ==
  /\ x.kind = "stream"
  /\ x.id \in begun
  /\ copyState[x.dst] = Copy(x.id, x.src)
  /\ NoEndOf(x.id)
  /\ \E i \in DOMAIN queue :
       queue[i].id = x.id /\ Matches(queue[i], x.src, x.dst)

TransfersPlain ==
  /\ \A x \in transfers : TransferPlain(x)
  /\ \A x, y \in transfers : x.id = y.id => x = y
  /\ \A f \in Folders : copyState[f] # NoCopy => \E x \in transfers : x.dst = f

EndsPlain == copiers = {} /\ \A e \in ended : e.id \in begun

\* A completion concerns a submission; a started request it matches has no
\* transfer left and has ended.
HasEnded(i) ==
  /\ NoTransferOf(queue[i].id)
  /\ \E e \in ended : e.id = queue[i].id /\ e.src = queue[i].src

Concluded(f) ==
  \A i \in DOMAIN queue :
    Matches(queue[i], f.src, f.dst) =>
      IF Begun(i) THEN HasEnded(i) ELSE f.src \notin Files

\* Only the destination of the completed request may wait to be served.
OnlyWaits(f) ==
  \E t \in Submissions :
    /\ Matches(t, f.src, f.dst)
    /\ \A i \in DOMAIN queue : Served(i) \/ queue[i].dst = t.dst

AtRest == stack = <<>> /\ \A i \in DOMAIN queue : Served(i)

AtNext ==
  /\ stack = <<NextFrame>>
  /\ \A i, j \in DOMAIN queue :
       Served(i) \/ Served(j) \/ queue[i].dst = queue[j].dst

AtAccept ==
  /\ \E i \in DOMAIN queue :
       /\ stack = <<AcceptFrame(queue[i], queue[i].src)>>
       /\ Begun(i) /\ NoTransferOf(queue[i].id) /\ NoEndOf(queue[i].id)
  /\ \A i \in DOMAIN queue : Served(i)

AtNotify ==
  \E f \in {stack[k] : k \in DOMAIN stack} :
    /\ f.pc = "notify"
    /\ stack = <<f>> \/ stack = <<ListenerFrame, f>>
    /\ Concluded(f)
    /\ OnlyWaits(f)

\* What the calls in progress mean in the plain case.
CallsPlain == AtRest \/ AtNext \/ AtAccept \/ AtNotify

PlainIInv == QueuePlain /\ TransfersPlain /\ EndsPlain /\ CallsPlain
-------------------------------------------------------------------------------
(***************************************************************************)
(* Requests, positions and what being served means.                        *)
(***************************************************************************)
LEMMA QueuePositions ==
  ASSUME TypeOK
  PROVE  /\ Len(queue) \in Nat
         /\ DOMAIN queue = 1..Len(queue)
         /\ \A i \in DOMAIN queue : i \in Nat /\ queue[i].dst \in Folders
  <1>1. Len(queue) \in Nat /\ DOMAIN queue = 1..Len(queue)
    BY DEF TypeOK
  <1>2. \A i \in DOMAIN queue : queue[i] \in Request
    BY QueuedRequest
  <1>3. QED
    BY <1>1, <1>2 DEF Request

LEMMA IdsTellApart ==
  ASSUME IInv, NEW i \in DOMAIN queue, NEW j \in DOMAIN queue,
         queue[i].id = queue[j].id
  PROVE  i = j
  <1>1. i \in Nat /\ j \in Nat /\ queue[i].id \in Nat /\ queue[j].id \in Nat
    BY QueuePositions, QueuedRequest DEF IInv
  <1>2. ~(i < j) /\ ~(j < i)
    BY <1>1 DEF IInv, IdsOrdered
  <1>3. QED BY <1>1, <1>2

\* A destination works on one request at a time.
LEMMA OneBegun ==
  ASSUME IInv, NEW i \in DOMAIN queue, NEW j \in DOMAIN queue,
         Begun(i), Begun(j), queue[i].dst = queue[j].dst
  PROVE  i = j
  <1>1. i \in Nat /\ j \in Nat
    BY QueuePositions DEF IInv
  <1>2. ~(i < j) /\ ~(j < i)
    BY DEF IInv, BegunIsOldest, Begun
  <1>3. QED BY <1>1, <1>2

\* The flags of a queued request say whether it was started.
LEMMA ProcessedIsBegun ==
  ASSUME PlainCase, NEW r, PlainRequest(r)
  PROVE  IsProcessed(r) <=> r.id \in begun
  <1>1. CASE r.id \in begun
    BY <1>1 DEF PlainRequest
  <1>2. CASE r.id \notin begun
    <2>1. r.marked = {} /\ ~r.processed
      BY <1>2 DEF PlainRequest
    <2>2. PICK t \in Submissions : r.sources = t.sources
      BY DEF PlainRequest
    <2>3. r.sources = <<>> \/ r.sources = <<t.src>>
      BY <2>2 DEF PlainCase
    <2>4. r.sources # <<>> => DOMAIN r.sources = {1}
      BY <2>3
    <2>5. QED
      BY <1>2, <2>1, <2>4 DEF IsProcessed, AllSourcesProcessed
  <1>3. QED BY <1>1, <1>2

\* DoNextCopy can start exactly the requests that are not served.
LEMMA StartableIsUnserved ==
  ASSUME PlainCase, TypeOK, QueuePlain, NEW i \in DOMAIN queue
  PROVE  Startable(i) <=> ~Served(i)
  <1>1. DOMAIN queue = 1..Len(queue) /\ Len(queue) \in Nat
    BY QueuePositions
  <1>2. \A k \in 1..i : k \in DOMAIN queue
    BY <1>1
  <1>3. \A k \in 1..i : IsProcessed(queue[k]) <=> Begun(k)
    BY <1>2, ProcessedIsBegun DEF QueuePlain, Begun
  <1>4. 1..i = (1..(i - 1)) \cup {i} /\ i \notin 1..(i - 1)
    BY <1>1
  <1>5. Served(i) <=> \/ Begun(i)
                      \/ \E k \in 1..(i - 1) :
                           queue[k].dst = queue[i].dst /\ Begun(k)
    BY <1>4 DEF Served
  <1>6. QED
    BY <1>3, <1>4, <1>5 DEF Startable

\* A completion or a transfer that concerns a submission concerns queued
\* requests for the same destination only, and FindRequest never returns the
\* last one by mistake.
LEMMA MatchFacts ==
  ASSUME PlainCase, NEW t \in Submissions, NEW r, PlainRequest(r),
         NEW src, NEW dst, Matches(t, src, dst),
         Matches(r, src, dst) \/ (r.type = "folders" /\ SameParent(r, src, dst))
  PROVE  Matches(r, src, dst) /\ r.dst = t.dst
  <1>1. PICK u \in Submissions : r.type = u.type /\ r.src = u.src /\ r.dst = u.dst
    BY DEF PlainRequest
  <1>2. /\ t.type = "folders" => ParentOf[u.dst] # t.dst
        /\ u.type = "folders" => ParentOf[t.dst] # u.dst
    BY DEF PlainCase
  <1>3. CASE t.type = "folders" /\ u.type = "folders"
    BY <1>1, <1>3 DEF Matches, SameParent
  <1>4. CASE t.type = "folders" /\ u.type # "folders"
    BY <1>1, <1>2, <1>4 DEF Matches, SameParent
  <1>5. CASE t.type # "folders" /\ u.type = "folders"
    BY <1>1, <1>2, <1>5 DEF Matches, SameParent
  <1>6. CASE t.type # "folders" /\ u.type # "folders"
    BY <1>1, <1>6 DEF Matches
  <1>7. QED BY <1>3, <1>4, <1>5, <1>6

LEMMA RequestSubmission ==
  ASSUME NEW r, PlainRequest(r)
  PROVE  \E t \in Submissions :
           /\ r.type = t.type /\ r.src = t.src /\ r.dst = t.dst
           /\ r.sources = t.sources
           /\ \A src, dst : Matches(r, src, dst) <=> Matches(t, src, dst)
  BY DEF PlainRequest, Matches, SameParent

\* Which kind of call runs decides what is known of the calls in progress.
LEMMA CallIsPlain ==
  ASSUME CallsPlain
  PROVE  /\ Running("next") => AtNext
         /\ Running("accept") => AtAccept
         /\ Running("notify") =>
              \E f : stack = <<f>> /\ f.pc = "notify" /\ Concluded(f) /\ OnlyWaits(f)
         /\ Running("listener") =>
              \E f : /\ stack = <<ListenerFrame, f>> /\ f.pc = "notify"
                     /\ Concluded(f) /\ OnlyWaits(f)
         /\ ~Running("copier") /\ ~Running("release")
         /\ Idle => AtRest
  <1>1. CASE AtRest
    BY <1>1 DEF AtRest, Running, Idle
  <1>2. CASE AtNext
    BY <1>2 DEF AtNext, Running, Idle, Call, NextFrame
  <1>3. CASE AtAccept
    BY <1>3 DEF AtAccept, Running, Idle, Call, AcceptFrame
  <1>4. CASE AtNotify
    <2>1. PICK f : /\ f.pc = "notify" /\ Concluded(f) /\ OnlyWaits(f)
                   /\ stack = <<f>> \/ stack = <<ListenerFrame, f>>
      BY <1>4 DEF AtNotify
    <2>2. CASE stack = <<f>>
      <3>1. Call = f /\ stack # <<>>
        BY <2>2 DEF Call
      <3>2. QED BY <2>1, <2>2, <3>1 DEF Running, Idle
    <2>3. CASE stack = <<ListenerFrame, f>>
      <3>1. Call = ListenerFrame /\ stack # <<>>
        BY <2>3 DEF Call
      <3>2. Call.pc = "listener"
        BY <3>1 DEF ListenerFrame
      <3>3. QED BY <2>1, <2>3, <3>1, <3>2 DEF Running, Idle
    <2>4. QED BY <2>1, <2>2, <2>3
  <1>5. QED BY <1>1, <1>2, <1>3, <1>4 DEF CallsPlain
-------------------------------------------------------------------------------
(***************************************************************************)
(* What the plain case leaves of the next-state relation.                  *)
(***************************************************************************)
Submits(t) == CopyMessages(t) \/ CopyFolders(t) \/ CopyFileMessage(t)

PlainStep ==
  \/ \E t \in Submissions : Submits(t)
  \/ NothingToCopy \/ StartSource \/ StartFile
  \/ NotifyCompletion \/ NotifyDone \/ ListenerReturns
  \/ AcceptAsync \/ AcceptSync
  \/ \E new \in Folders :
       MoveFolderLocal(new) \/ CopyFolderAcrossServer(new) \/ CopyFolderSync(new)
  \/ \E x \in transfers, ok \in BOOLEAN : TransferEnds(x, ok)
  \/ UNCHANGED vars

\* The folder that holds the copy the service asks for.
CopiedInto(f) ==
  IF Call.type = "folders" THEN ParentOf[f] = Call.dst ELSE f = Call.dst

\* The folder a copy goes to is idle when the service asks for the copy.
LEMMA AcceptedFolderIsIdle ==
  ASSUME PlainCase, IInv, PlainIInv, Running("accept"),
         NEW f \in Folders, CopiedInto(f)
  PROVE  copyState[f] = NoCopy
  <1>1. PICK i \in DOMAIN queue :
          /\ stack = <<AcceptFrame(queue[i], queue[i].src)>>
          /\ Begun(i) /\ NoTransferOf(queue[i].id)
    BY CallIsPlain DEF PlainIInv, AtAccept
  <1>2. Call.type = queue[i].type /\ Call.dst = queue[i].dst
    BY <1>1 DEF Call, AcceptFrame
  <1>3. SUFFICES ASSUME copyState[f] # NoCopy PROVE FALSE
    OBVIOUS
  <1>4. PICK x \in transfers : x.dst = f
    BY <1>3 DEF PlainIInv, TransfersPlain
  <1>5. x.id \in begun
    BY <1>4 DEF PlainIInv, TransfersPlain, TransferPlain
  <1>6. PICK j \in DOMAIN queue : queue[j].id = x.id /\ Matches(queue[j], x.src, x.dst)
    BY <1>4 DEF PlainIInv, TransfersPlain, TransferPlain
  <1>7. PICK t \in Submissions : queue[i].type = t.type /\ queue[i].dst = t.dst
    BY DEF PlainIInv, QueuePlain, PlainRequest
  <1>8. PICK u \in Submissions : queue[j].type = u.type /\ queue[j].dst = u.dst
    BY DEF PlainIInv, QueuePlain, PlainRequest
  <1>9. /\ t.type = "folders" => ParentOf[u.dst] # t.dst
        /\ u.type = "folders" => ParentOf[t.dst] # u.dst
    BY DEF PlainCase
  <1>10. queue[j].dst = queue[i].dst
    <2>1. CASE queue[j].type = "folders"
      <3>1. queue[j].dst = ParentOf[f]
        BY <2>1, <1>4, <1>6 DEF Matches, SameParent
      <3>2. QED BY <2>1, <3>1, <1>2, <1>7, <1>8, <1>9 DEF CopiedInto
    <2>2. CASE queue[j].type # "folders"
      <3>1. queue[j].dst = f
        BY <2>2, <1>4, <1>6 DEF Matches
      <3>2. QED BY <2>2, <3>1, <1>2, <1>7, <1>8, <1>9 DEF CopiedInto
    <2>3. QED BY <2>1, <2>2
  <1>11. Begun(j)
    BY <1>5, <1>6 DEF Begun
  <1>12. i = j
    BY <1>1, <1>10, <1>11, OneBegun
  <1>13. QED
    BY <1>1, <1>4, <1>6, <1>12 DEF NoTransferOf

LEMMA NextIsPlain ==
  ASSUME PlainCase, IInv, PlainIInv, [Next]_vars
  PROVE  PlainStep
  <1>0. /\ \A b \in AllBehaviours : b \notin Behaviours
        /\ copiers = {} /\ \A x \in transfers : x.kind = "stream"
    BY DEF PlainCase, PlainIInv, EndsPlain, TransfersPlain, TransferPlain
  <1>1. CASE Caller
    BY <1>1 DEF Caller, PlainStep, Submits
  <1>2. CASE Service
    <2>1. ASSUME StartNothing PROVE FALSE
      <3>1. PICK i \in DOMAIN queue :
              queue[i].type = "messages" /\ queue[i].sources = <<>>
        BY <2>1 DEF StartNothing
      <3>2. PICK t \in Submissions :
              queue[i].type = t.type /\ queue[i].sources = t.sources
        BY DEF PlainIInv, QueuePlain, PlainRequest
      <3>3. t.sources = <<t.src>>
        BY <3>1, <3>2 DEF PlainCase
      <3>4. QED BY <3>1, <3>2, <3>3
    <2>2. QED BY <1>2, <2>1 DEF Service, PlainStep
  <1>3. CASE Destination
    <2>1. ASSUME AcceptBusy PROVE FALSE
      <3>1. /\ Running("accept") /\ Call.type # "folders"
            /\ copyState[Call.dst] # NoCopy /\ Call.dst \in Folders
        BY <2>1, CallTypes DEF AcceptBusy, Accepting, Running, IInv
      <3>2. PICK f \in Folders : f = Call.dst
        BY <3>1
      <3>3. CopiedInto(f)
        BY <3>1, <3>2 DEF CopiedInto
      <3>4. copyState[f] = NoCopy
        BY <3>1, <3>3, AcceptedFolderIsIdle
      <3>5. QED BY <3>1, <3>2, <3>4
    <2>2. ASSUME NEW new \in Folders, RefuseFolder(new) PROVE FALSE
      <3>1. /\ Running("accept") /\ Call.type = "folders"
            /\ ParentOf[new] = Call.dst
            /\ "refuse" \in Behaviours \/ copyState[new] # NoCopy
        BY <2>2 DEF RefuseFolder, AcceptingFolder, IsChild
      <3>2. copyState[new] # NoCopy
        BY <3>1, <1>0 DEF AllBehaviours
      <3>3. CopiedInto(new)
        BY <3>1 DEF CopiedInto
      <3>4. QED BY <3>1, <3>2, <3>3, AcceptedFolderIsIdle
    <2>3. ASSUME NEW new \in Folders,
                 \/ CopyEmptyFolder(new) \/ IgnoreFolder(new)
                 \/ MoveFolderImap(new) \/ StartCopier(new)
          PROVE  FALSE
      BY <2>3, <1>0 DEF AllBehaviours, CopyEmptyFolder, IgnoreFolder,
                        MoveFolderImap, StartCopier
    <2>g. ~GiveUpCopy
      BY <1>0 DEF AllBehaviours, GiveUpCopy
    <2>4. ASSUME ReleaseCopyState \/ CopierStops PROVE FALSE
      BY <2>4, CallIsPlain DEF ReleaseCopyState, CopierStops, PlainIInv
    <2>5. QED
      BY <1>3, <2>1, <2>2, <2>3, <2>4, <2>g DEF Destination, PlainStep
  <1>4. CASE Completion
    <2>1. ASSUME NEW x \in transfers, NEW ok \in BOOLEAN, MoveEnds(x, ok)
          PROVE  FALSE
      BY <2>1, <1>0 DEF MoveEnds
    <2>2. QED BY <1>0, <1>4, <2>1 DEF Completion, PlainStep
  <1>5. CASE Abort
    BY <1>0, <1>5 DEF Abort, AbortFileCopy, AllBehaviours
  <1>6. CASE UNCHANGED vars
    BY <1>6 DEF PlainStep
  <1>7. QED
    BY <1>1, <1>2, <1>3, <1>4, <1>5, <1>6 DEF Next
-------------------------------------------------------------------------------
(***************************************************************************)
(* A submission: the queue grows at its end.                               *)
(***************************************************************************)
LEMMA NewRequestIsPlain ==
  ASSUME PlainCase, IInv, NEW t \in Submissions, Submits(t)
  PROVE  /\ PlainRequest(NewRequest(t, FALSE))
         /\ NewRequest(t, FALSE).id \notin begun
  <1>1. t \in Submission /\ Folders \cap Files = {}
    BY SubmissionsType, ConstantsAssumption DEF ConstantsAssumption
  <1>2. t.src # t.dst
    BY <1>1 DEF PlainCase, Submits, CopyMessages, CopyFolders, CopyFileMessage,
                Submission
  <1>3. \A j \in DOMAIN t.sources : t.sources[j] = t.src
    <2>1. t.type # "file" => t.sources = <<t.src>>
      BY DEF PlainCase
    <2>2. t.type = "file" => t.sources = <<>> \/ t.sources = <<t.src>>
      BY DEF PlainCase
    <2>3. QED BY <2>1, <2>2
  <1>4. {j \in DOMAIN t.sources : t.sources[j] = t.dst} = {}
    BY <1>2, <1>3
  <1>5. NewRequest(t, FALSE).id \notin begun
    BY DEF NewRequest, IInv, TypeOK, IdsIssued
  <1>6. QED
    BY <1>2, <1>4, <1>5 DEF NewRequest, PlainRequest

\* The new request and the old ones.
EnqueuedAs(r) ==
  /\ Len(queue) \in Nat
  /\ DOMAIN queue = 1..Len(queue)
  /\ DOMAIN queue' = 1..(Len(queue) + 1)
  /\ \A i \in DOMAIN queue : i \in DOMAIN queue' /\ queue'[i] = queue[i]
  /\ queue'[Len(queue) + 1] = r

LEMMA SubmitEffect ==
  ASSUME IInv, NEW t \in Submissions, Submits(t)
  PROVE  /\ EnqueuedAs(NewRequest(t, FALSE))
         /\ UNCHANGED <<begun, reports, copyState, transfers, copiers, ended>>
         /\ IF CopyImmediately(NewRequest(t, FALSE))
            THEN Push(<<NextFrame>>) ELSE UNCHANGED stack
  <1>1. DoCopy(NewRequest(t, FALSE)) /\ UNCHANGED folderVars
    BY DEF Submits, CopyMessages, CopyFolders, CopyFileMessage
  <1>2. queue \in Seq(Request) /\ NewRequest(t, FALSE) \in Request
    BY NewRequestType, SubmissionsType DEF IInv, TypeOK
  <1>3. queue' = Append(queue, NewRequest(t, FALSE))
    BY <1>1 DEF DoCopy
  <1>4. EnqueuedAs(NewRequest(t, FALSE))
    <2>1. PICK r \in Request : r = NewRequest(t, FALSE)
      BY <1>2
    <2>2. queue' = Append(queue, r)
      BY <1>3, <2>1
    <2>3. EnqueuedAs(r)
      BY <1>2, <2>2 DEF EnqueuedAs
    <2>4. QED BY <2>1, <2>3
  <1>5. QED
    BY <1>1, <1>4 DEF DoCopy, folderVars

LEMMA SubmitKeepsQueue ==
  ASSUME PlainCase, IInv, PlainIInv, NEW t \in Submissions, Submits(t)
  PROVE  QueuePlain'
  <1>1. PICK r : r = NewRequest(t, FALSE)
    OBVIOUS
  <1>2. /\ EnqueuedAs(r) /\ begun' = begun
        /\ PlainRequest(r)
    BY <1>1, SubmitEffect, NewRequestIsPlain
  <1>3. \A i \in DOMAIN queue' : PlainRequest(queue'[i])
    BY <1>2 DEF EnqueuedAs, PlainIInv, QueuePlain
  <1>4. \A i \in DOMAIN queue' : PlainRequest(queue[i])'
    BY <1>2, <1>3 DEF PlainRequest, IsProcessed, AllSourcesProcessed
  <1>5. \A i \in DOMAIN queue : r.src \in Files => queue[i].src # r.src
    <2>1. CASE t.type = "file"
      BY <2>1, <1>1 DEF Submits, CopyMessages, CopyFolders, CopyFileMessage,
                        NewRequest
    <2>2. CASE t.type # "file"
      BY <2>2, <1>1, ConstantsAssumption DEF ConstantsAssumption, NewRequest
    <2>3. QED BY <2>1, <2>2
  <1>6. \A i, j \in DOMAIN queue' :
          queue'[i].src \in Files /\ queue'[i].src = queue'[j].src => i = j
    <2>1. \A i, j \in DOMAIN queue :
            queue[i].src \in Files /\ queue[i].src = queue[j].src => i = j
      BY DEF PlainIInv, QueuePlain
    <2>2. \A i \in DOMAIN queue' :
            (i \in DOMAIN queue /\ queue'[i] = queue[i])
              \/ (i = Len(queue) + 1 /\ queue'[i] = r)
      BY <1>2 DEF EnqueuedAs
    <2>3. QED BY <1>5, <2>1, <2>2
  <1>7. QED
    BY <1>4, <1>6 DEF QueuePlain

\* Old requests keep their place, so what serves them still does.
LEMMA SubmitKeepsServed ==
  ASSUME IInv, NEW r, EnqueuedAs(r), begun' = begun,
         NEW n, n = Len(queue) + 1
  PROVE  /\ \A i \in DOMAIN queue : Served(i) => Served(i)'
         /\ \A i \in DOMAIN queue :
              Served(i) /\ queue[i].dst = r.dst => Served(n)'
  <1>1. \A i \in DOMAIN queue : \A k \in 1..i :
          /\ k \in DOMAIN queue /\ queue'[k] = queue[k]
          /\ k \in 1..(Len(queue) + 1)
    BY DEF EnqueuedAs
  <1>2. ASSUME NEW i \in DOMAIN queue, Served(i)
        PROVE  /\ Served(i)'
               /\ queue[i].dst = r.dst => Served(n)'
    <2>1. PICK k \in 1..i : queue[k].dst = queue[i].dst /\ Begun(k)
      BY <1>2 DEF Served
    <2>2. i \in 1..i /\ queue'[i] = queue[i]
      BY DEF EnqueuedAs
    <2>3. /\ k \in 1..(Len(queue) + 1)
          /\ queue'[k].dst = queue[i].dst /\ queue'[k].id \in begun'
      BY <1>1, <2>1 DEF Begun
    <2>4. Served(i)'
      BY <2>1, <2>2, <2>3 DEF Served, Begun
    <2>5. queue[i].dst = r.dst => Served(n)'
      BY <2>3 DEF Served, Begun, EnqueuedAs
    <2>6. QED BY <2>4, <2>5
  <1>3. QED BY <1>2

LEMMA SubmitKeepsCalls ==
  ASSUME PlainCase, IInv, PlainIInv, NEW t \in Submissions, Submits(t)
  PROVE  CallsPlain'
  <1>1. PICK r : r = NewRequest(t, FALSE)
    OBVIOUS
  <1>2. PICK n : n = Len(queue) + 1
    OBVIOUS
  <1>3. /\ EnqueuedAs(r) /\ begun' = begun
        /\ IF CopyImmediately(r) THEN Push(<<NextFrame>>) ELSE UNCHANGED stack
    BY <1>1, SubmitEffect
  <1>4. AtRest
    <2>1. Idle
      BY DEF Submits, CopyMessages, CopyFolders, CopyFileMessage, MayCall,
             PlainCase
    <2>2. QED BY <2>1, CallIsPlain DEF PlainIInv
  <1>5. /\ \A i \in DOMAIN queue : Served(i)'
        /\ \A i \in DOMAIN queue :
             queue[i].dst = r.dst => Served(n)'
    BY <1>2, <1>3, <1>4, SubmitKeepsServed DEF AtRest
  <1>6. \A i \in DOMAIN queue' : i \in DOMAIN queue \/ i = n
    BY <1>2, <1>3 DEF EnqueuedAs
  <1>7. CASE CopyImmediately(r)
    <2>1. stack' = <<NextFrame>>
      BY <1>3, <1>4, <1>7 DEF Push, AtRest
    <2>2. \A i, j \in DOMAIN queue' :
            Served(i)' \/ Served(j)' \/ queue'[i].dst = queue'[j].dst
      BY <1>5, <1>6
    <2>3. AtNext'
      BY <2>1, <2>2 DEF AtNext
    <2>4. QED BY <2>3 DEF CallsPlain
  <1>8. CASE ~CopyImmediately(r)
    <2>1. \E i \in DOMAIN queue : queue[i].dst = r.dst
      BY <1>8 DEF CopyImmediately
    <2>2. \A i \in DOMAIN queue' : Served(i)'
      BY <1>5, <1>6, <2>1
    <2>3. AtRest'
      BY <1>3, <1>4, <1>8, <2>2 DEF AtRest
    <2>4. QED BY <2>3 DEF CallsPlain
  <1>9. QED BY <1>7, <1>8

LEMMA SubmitKeepsPlain ==
  ASSUME PlainCase, IInv, PlainIInv, NEW t \in Submissions, Submits(t)
  PROVE  PlainIInv'
  <1>1. PICK r : r = NewRequest(t, FALSE)
    OBVIOUS
  <1>2. /\ EnqueuedAs(r)
        /\ UNCHANGED <<begun, copyState, transfers, copiers, ended>>
    BY <1>1, SubmitEffect
  <1>3. EndsPlain'
    BY <1>2 DEF PlainIInv, EndsPlain
  <1>4. ASSUME NEW x \in transfers
        PROVE  TransferPlain(x)'
    <2>1. TransferPlain(x)
      BY DEF PlainIInv, TransfersPlain
    <2>2. PICK i \in DOMAIN queue :
            queue[i].id = x.id /\ Matches(queue[i], x.src, x.dst)
      BY <2>1 DEF TransferPlain
    <2>3. i \in DOMAIN queue' /\ queue'[i] = queue[i]
      BY <1>2 DEF EnqueuedAs
    <2>4. QED
      BY <1>2, <2>1, <2>2, <2>3
      DEF TransferPlain, NoEndOf, Matches, SameParent
  <1>5. TransfersPlain'
    BY <1>2, <1>4 DEF PlainIInv, TransfersPlain
  <1>6. QED
    BY <1>3, <1>5, SubmitKeepsQueue, SubmitKeepsCalls DEF PlainIInv
-------------------------------------------------------------------------------
(***************************************************************************)
(* A request is started: DoNextCopy takes the oldest one that waits.       *)
(***************************************************************************)
SameCopy(r, s) ==
  /\ r.id = s.id /\ r.type = s.type /\ r.src = s.src /\ r.dst = s.dst
  /\ r.sources = s.sources /\ r.copier = s.copier

StartedAs(i) ==
  /\ Running("next")
  /\ NextToCopy(i)
  /\ DOMAIN queue' = DOMAIN queue
  /\ \A k \in DOMAIN queue : SameCopy(queue'[k], queue[k])
  /\ \A k \in DOMAIN queue : k # i => queue'[k] = queue[k]
  /\ IsProcessed(queue'[i])
  /\ begun' = begun \cup {queue[i].id}
  /\ stack' = <<AcceptFrame(queue[i], queue[i].src)>>
  /\ UNCHANGED <<copyState, transfers, copiers, ended, issued, reports>>

LEMMA NextToCopyIsWaiting ==
  ASSUME PlainCase, IInv, PlainIInv, NEW i \in DOMAIN queue, NextToCopy(i)
  PROVE  /\ ~Begun(i) /\ queue[i].marked = {} /\ ~queue[i].processed
         /\ ~Served(i) /\ \A k \in 1..(i - 1) : Served(k)
  <1>1. \A k \in 1..(i - 1) : k \in DOMAIN queue
    BY QueuePositions DEF IInv
  <1>2. ~Served(i) /\ \A k \in 1..(i - 1) : Served(k)
    BY <1>1, StartableIsUnserved DEF NextToCopy, PlainIInv, IInv
  <1>3. i \in 1..i
    BY QueuePositions DEF IInv
  <1>4. ~Begun(i)
    BY <1>2, <1>3 DEF Served
  <1>5. QED
    BY <1>2, <1>4 DEF PlainIInv, QueuePlain, PlainRequest, Begun

LEMMA StartEffect ==
  ASSUME PlainCase, IInv, PlainIInv, StartSource \/ StartFile
  PROVE  \E i \in DOMAIN queue : StartedAs(i)
  <1>1. stack = <<NextFrame>>
    BY CallIsPlain DEF PlainIInv, StartSource, StartFile, AtNext
  <1>2. \A i \in DOMAIN queue : queue[i] \in Request
    BY QueuedRequest DEF IInv
  <1>3. CASE StartSource
    <2>1. PICK i \in DOMAIN queue : \E j \in DOMAIN queue[i].sources :
            /\ NextToCopy(i)
            /\ queue[i].type # "file"
            /\ queue' = [queue EXCEPT ![i].marked = @ \cup {j}]
            /\ begun' = begun \cup {queue[i].id}
            /\ Return(<<AcceptFrame(queue[i], queue[i].sources[j])>>)
      BY <1>3 DEF StartSource
    <2>2. queue[i].sources = <<queue[i].src>>
      <3>1. PICK t \in Submissions :
              /\ queue[i].type = t.type /\ queue[i].src = t.src
              /\ queue[i].sources = t.sources
        BY DEF PlainIInv, QueuePlain, PlainRequest
      <3>2. QED BY <2>1, <3>1 DEF PlainCase
    <2>3. DOMAIN queue[i].sources = {1} /\ queue[i].sources[1] = queue[i].src
      BY <2>2
    <2>4. /\ NextToCopy(i)
          /\ queue' = [queue EXCEPT ![i].marked = @ \cup {1}]
          /\ begun' = begun \cup {queue[i].id}
          /\ Return(<<AcceptFrame(queue[i], queue[i].src)>>)
      BY <2>1, <2>3
    <2>5. stack' = <<AcceptFrame(queue[i], queue[i].src)>>
      BY <1>1, <2>4 DEF Return
    <2>6. queue[i].marked = {}
      BY <2>4, NextToCopyIsWaiting
    <2>7. queue' = [queue EXCEPT ![i] = [queue[i] EXCEPT !.marked = {1}]]
      BY <2>4, <2>6
    <2>8. /\ DOMAIN queue' = DOMAIN queue
          /\ queue'[i] = [queue[i] EXCEPT !.marked = {1}]
          /\ \A k \in DOMAIN queue : k # i => queue'[k] = queue[k]
      BY <2>7
    <2>9. SameCopy(queue'[i], queue[i]) /\ queue'[i].marked = {1}
      BY <1>2, <2>8 DEF SameCopy, Request
    <2>10. IsProcessed(queue'[i])
      BY <2>2, <2>3, <2>9 DEF SameCopy, IsProcessed, AllSourcesProcessed
    <2>11. \A k \in DOMAIN queue : SameCopy(queue'[k], queue[k])
      BY <2>8, <2>9 DEF SameCopy
    <2>12. StartedAs(i)
      BY <1>3, <2>4, <2>5, <2>8, <2>10, <2>11
      DEF StartedAs, StartSource, folderVars
    <2>13. QED BY <2>12
  <1>4. CASE StartFile
    <2>1. PICK i \in DOMAIN queue :
            /\ NextToCopy(i)
            /\ queue' = [queue EXCEPT ![i].marked = DOMAIN queue[i].sources,
                                      ![i].processed = TRUE]
            /\ begun' = begun \cup {queue[i].id}
            /\ Return(<<AcceptFrame(queue[i], queue[i].src)>>)
      BY <1>4 DEF StartFile
    <2>2. stack' = <<AcceptFrame(queue[i], queue[i].src)>>
      BY <1>1, <2>1 DEF Return
    <2>3. queue' = [queue EXCEPT ![i] =
                      [queue[i] EXCEPT !.marked = DOMAIN queue[i].sources,
                                       !.processed = TRUE]]
      BY <2>1
    <2>4. /\ DOMAIN queue' = DOMAIN queue
          /\ queue'[i] = [queue[i] EXCEPT !.marked = DOMAIN queue[i].sources,
                                          !.processed = TRUE]
          /\ \A k \in DOMAIN queue : k # i => queue'[k] = queue[k]
      BY <2>3
    <2>5. SameCopy(queue'[i], queue[i]) /\ queue'[i].processed
      BY <1>2, <2>4 DEF SameCopy, Request
    <2>6. \A k \in DOMAIN queue : SameCopy(queue'[k], queue[k])
      BY <2>4, <2>5 DEF SameCopy
    <2>7. StartedAs(i)
      BY <1>4, <2>1, <2>2, <2>4, <2>5, <2>6
      DEF StartedAs, StartFile, folderVars, IsProcessed
    <2>8. QED BY <2>7
  <1>5. QED BY <1>3, <1>4

LEMMA StartKeepsQueue ==
  ASSUME PlainCase, IInv, PlainIInv, NEW i \in DOMAIN queue, StartedAs(i)
  PROVE  QueuePlain'
  <1>1. ASSUME NEW k \in DOMAIN queue
        PROVE  PlainRequest(queue[k])'
    <2>1. /\ SameCopy(queue'[k], queue[k])
          /\ PlainRequest(queue[k])
      BY DEF StartedAs, PlainIInv, QueuePlain
    <2>2. queue'[k].id \in begun' => IsProcessed(queue'[k])
      <3>1. CASE k = i
        BY <3>1 DEF StartedAs
      <3>2. CASE k # i
        <4>1. queue'[k] = queue[k] /\ queue[k].id # queue[i].id
          BY <3>2, IdsTellApart DEF StartedAs
        <4>2. queue'[k].id \in begun' => queue[k].id \in begun
          BY <4>1 DEF StartedAs
        <4>3. QED BY <4>1, <4>2, <2>1 DEF PlainRequest
      <3>3. QED BY <3>1, <3>2
    <2>3. queue'[k].id \notin begun' => queue'[k].marked = {} /\ ~queue'[k].processed
      <3>1. SUFFICES ASSUME queue'[k].id \notin begun'
                     PROVE  queue'[k].marked = {} /\ ~queue'[k].processed
        OBVIOUS
      <3>2. k # i /\ queue[k].id \notin begun
        BY <3>1, <2>1 DEF StartedAs, SameCopy
      <3>3. queue'[k] = queue[k]
        BY <3>2 DEF StartedAs
      <3>4. QED BY <2>1, <3>2, <3>3 DEF PlainRequest
    <2>4. /\ \E t \in Submissions :
               /\ queue'[k].type = t.type /\ queue'[k].src = t.src
               /\ queue'[k].dst = t.dst /\ queue'[k].sources = t.sources
          /\ queue'[k].type = "messages" => queue'[k].src # queue'[k].dst
          /\ ~queue'[k].copier
      BY <2>1 DEF SameCopy, PlainRequest
    <2>5. QED
      BY <2>2, <2>3, <2>4 DEF PlainRequest, IsProcessed, AllSourcesProcessed
  <1>2. QED
    BY <1>1 DEF StartedAs, SameCopy, PlainIInv, QueuePlain

LEMMA StartKeepsPlain ==
  ASSUME PlainCase, IInv, PlainIInv, NEW i \in DOMAIN queue, StartedAs(i)
  PROVE  PlainIInv'
  <1>0. /\ DOMAIN queue = 1..Len(queue) /\ Len(queue) \in Nat
        /\ \A k \in DOMAIN queue : k \in Nat
    BY QueuePositions DEF IInv
  <1>1. /\ ~Begun(i) /\ ~Served(i)
        /\ \A k \in 1..(i - 1) : Served(k)
    BY NextToCopyIsWaiting DEF StartedAs
  <1>2. EndsPlain'
    BY DEF PlainIInv, EndsPlain, StartedAs
  <1>3. ASSUME NEW x \in transfers
        PROVE  TransferPlain(x)'
    <2>1. TransferPlain(x)
      BY DEF PlainIInv, TransfersPlain
    <2>2. PICK k \in DOMAIN queue :
            queue[k].id = x.id /\ Matches(queue[k], x.src, x.dst)
      BY <2>1 DEF TransferPlain
    <2>3. SameCopy(queue'[k], queue[k])
      BY DEF StartedAs
    <2>4. queue'[k].id = x.id /\ Matches(queue'[k], x.src, x.dst)
      BY <2>2, <2>3 DEF SameCopy, Matches, SameParent
    <2>5. QED
      BY <2>1, <2>4
      DEF TransferPlain, NoEndOf, Matches, SameParent, StartedAs
  <1>4. TransfersPlain'
    BY <1>3 DEF PlainIInv, TransfersPlain, StartedAs
  <1>5. NoTransferOf(queue[i].id) /\ NoEndOf(queue[i].id)
    BY <1>1 DEF PlainIInv, TransfersPlain, TransferPlain, EndsPlain, Begun,
                NoTransferOf, NoEndOf
  <1>6. \A k \in DOMAIN queue : Served(k) => Served(k)'
    <2>1. \A k \in DOMAIN queue : \A m \in 1..k : m \in DOMAIN queue
      BY <1>0
    <2>2. QED
      BY <2>1 DEF Served, Begun, StartedAs, SameCopy
  <1>7. ASSUME NEW k \in DOMAIN queue, ~Served(k)
        PROVE  Served(k)'
    <2>1. AtNext
      <3>1. Running("next")
        BY DEF StartedAs
      <3>2. QED BY <3>1, CallIsPlain DEF PlainIInv
    <2>2. queue[k].dst = queue[i].dst
      BY <1>1, <1>7, <2>1 DEF AtNext
    <2>3. i \in 1..k
      BY <1>0, <1>1, <1>7
    <2>4. queue'[i].dst = queue'[k].dst /\ queue'[i].id \in begun'
      BY <2>2 DEF StartedAs, SameCopy
    <2>5. QED BY <2>3, <2>4 DEF Served, Begun
  <1>8. \A k \in DOMAIN queue' : Served(k)'
    BY <1>6, <1>7 DEF StartedAs
  <1>9. /\ stack' = <<AcceptFrame(queue'[i], queue'[i].src)>>
        /\ queue'[i].id \in begun' /\ queue'[i].id = queue[i].id
    BY DEF StartedAs, SameCopy, AcceptFrame
  <1>10. AtAccept'
    BY <1>5, <1>8, <1>9
    DEF AtAccept, Begun, NoTransferOf, NoEndOf, StartedAs
  <1>11. QED
    BY <1>2, <1>4, <1>10, StartKeepsQueue DEF PlainIInv, CallsPlain
-------------------------------------------------------------------------------
(***************************************************************************)
(* The destination folder takes the copy on, or is already done with it.   *)
(***************************************************************************)
CopyGoesOn(i, f) ==
  /\ copyState[f] = NoCopy
  /\ copyState' = [copyState EXCEPT ![f] = Copy(queue[i].id, queue[i].src)]
  /\ transfers' = transfers \cup {[id |-> queue[i].id, src |-> queue[i].src,
                                   dst |-> f, kind |-> "stream"]}
  /\ stack' = <<>>
  /\ UNCHANGED <<queue, begun, copiers, ended>>

CopyIsOver(i, f, told) ==
  /\ \E ok \in BOOLEAN :
       ended' = ended \cup {End(queue[i].id, queue[i].src, ok)}
  /\ stack' = <<NotifyFrame(queue[i].src, f, told)>>
  /\ UNCHANGED <<queue, begun, copiers>>

AsksFor(i) ==
  /\ Begun(i) /\ NoTransferOf(queue[i].id) /\ NoEndOf(queue[i].id)
  /\ \A k \in DOMAIN queue : Served(k)

FolderSteps ==
  \/ AcceptAsync \/ AcceptSync
  \/ \E new \in Folders :
       MoveFolderLocal(new) \/ CopyFolderAcrossServer(new) \/ CopyFolderSync(new)

LEMMA OneFrame == \A g \in Frame : <<g>> \o <<>> = <<g>>
  OBVIOUS

LEMMA AcceptEffect ==
  ASSUME PlainCase, IInv, PlainIInv, FolderSteps
  PROVE  \E i \in DOMAIN queue, f \in Folders :
           /\ AsksFor(i)
           /\ Matches(queue[i], queue[i].src, f)
           /\ \/ CopyGoesOn(i, f)
              \/ \E ok \in BOOLEAN : /\ CopyIsOver(i, f, ok)
                                     /\ UNCHANGED <<copyState, transfers>>
  <1>1. Running("accept")
    BY DEF FolderSteps, AcceptAsync, AcceptSync, Accepting, MoveFolderLocal,
           CopyFolderAcrossServer, CopyFolderSync, AcceptingFolder
  <1>2. AtAccept
    BY <1>1, CallIsPlain DEF PlainIInv
  <1>3. PICK i \in DOMAIN queue :
          stack = <<AcceptFrame(queue[i], queue[i].src)>> /\ AsksFor(i)
    BY <1>2 DEF AtAccept, AsksFor
  <1>4. /\ Call.id = queue[i].id /\ Call.type = queue[i].type
        /\ Call.src = queue[i].src /\ Call.dst = queue[i].dst
        /\ Tail(stack) = <<>>
    BY <1>3 DEF Call, AcceptFrame
  <1>5. queue[i].dst \in Folders
    BY QueuePositions DEF IInv
  <1>6. \A f \in Folders, ok \in BOOLEAN :
          Return(<<NotifyFrame(queue[i].src, f, ok)>>) =>
            stack' = <<NotifyFrame(queue[i].src, f, ok)>>
    <2>1. \A f \in Folders, ok \in BOOLEAN :
            NotifyFrame(queue[i].src, f, ok) \in Frame
      BY FrameTypes, QueuedRequest DEF IInv
    <2>2. QED BY <2>1, <1>4, OneFrame DEF Return
  <1>7. ASSUME Return(<<>>) PROVE stack' = <<>>
    BY <1>4, <1>7 DEF Return
  <1>8. CASE AcceptAsync
    <2>1. Matches(queue[i], queue[i].src, queue[i].dst)
      BY <1>4, <1>8 DEF AcceptAsync, Accepting, Matches
    <2>2. CopyGoesOn(i, queue[i].dst)
      BY <1>4, <1>7, <1>8 DEF AcceptAsync, CopyGoesOn, Transfer
    <2>3. QED BY <1>3, <1>5, <2>1, <2>2
  <1>9. CASE AcceptSync
    <2>1. Matches(queue[i], queue[i].src, queue[i].dst)
      BY <1>4, <1>9 DEF AcceptSync, Accepting, Matches
    <2>2. \A ok \in BOOLEAN : Told(ok) \subseteq BOOLEAN
      BY DEF Told
    <2>3. PICK ok \in BOOLEAN, told \in BOOLEAN :
            /\ ended' = ended \cup {End(Call.id, Call.src, ok)}
            /\ Return(<<NotifyFrame(Call.src, Call.dst, told)>>)
      BY <1>9, <2>2 DEF AcceptSync
    <2>4. stack' = <<NotifyFrame(queue[i].src, queue[i].dst, told)>>
      BY <1>4, <1>5, <1>6, <2>3
    <2>5. CopyIsOver(i, queue[i].dst, told) /\ UNCHANGED <<copyState, transfers>>
      BY <1>4, <1>9, <2>3, <2>4 DEF AcceptSync, CopyIsOver
    <2>6. QED BY <1>3, <1>5, <2>1, <2>5
  <1>10. ASSUME NEW new \in Folders, CopyFolderAcrossServer(new)
         PROVE  Matches(queue[i], queue[i].src, new) /\ CopyGoesOn(i, new)
    <2>1. Matches(queue[i], queue[i].src, new)
      BY <1>4, <1>10 DEF CopyFolderAcrossServer, AcceptingFolder, IsChild,
                         Matches, SameParent
    <2>2. CopyGoesOn(i, new)
      BY <1>4, <1>7, <1>10 DEF CopyFolderAcrossServer, CopyGoesOn, Transfer
    <2>3. QED BY <2>1, <2>2
  <1>11. ASSUME NEW new \in Folders, MoveFolderLocal(new)
         PROVE  /\ Matches(queue[i], queue[i].src, new)
                /\ CopyIsOver(i, new, TRUE)
                /\ UNCHANGED <<copyState, transfers>>
    <2>1. Matches(queue[i], queue[i].src, new)
      BY <1>4, <1>11 DEF MoveFolderLocal, AcceptingFolder, IsChild,
                         Matches, SameParent
    <2>2. stack' = <<NotifyFrame(queue[i].src, new, TRUE)>>
      BY <1>4, <1>6, <1>11 DEF MoveFolderLocal
    <2>3. CopyIsOver(i, new, TRUE) /\ UNCHANGED <<copyState, transfers>>
      BY <1>4, <1>11, <2>2 DEF MoveFolderLocal, CopyIsOver
    <2>4. QED BY <2>1, <2>3
  <1>12. ASSUME NEW new \in Folders, CopyFolderSync(new)
         PROVE  /\ Matches(queue[i], queue[i].src, new)
                /\ \E told \in BOOLEAN : CopyIsOver(i, new, told)
                /\ UNCHANGED <<copyState, transfers>>
    <2>1. Matches(queue[i], queue[i].src, new)
      BY <1>4, <1>12 DEF CopyFolderSync, AcceptingFolder, IsChild, Matches,
                         SameParent
    <2>2. \A ok \in BOOLEAN : Told(ok) \subseteq BOOLEAN
      BY DEF Told
    <2>3. PICK ok \in BOOLEAN, told \in BOOLEAN :
            /\ ended' = ended \cup {End(Call.id, Call.src, ok)}
            /\ Return(<<NotifyFrame(Call.src, new, told)>>)
      BY <1>12, <2>2 DEF CopyFolderSync
    <2>4. stack' = <<NotifyFrame(queue[i].src, new, told)>>
      BY <1>4, <1>6, <2>3
    <2>5. CopyIsOver(i, new, told) /\ UNCHANGED <<copyState, transfers>>
      BY <1>4, <1>12, <2>3, <2>4 DEF CopyFolderSync, CopyIsOver
    <2>6. QED BY <2>1, <2>5
  <1>13. QED
    BY <1>3, <1>8, <1>9, <1>10, <1>11, <1>12 DEF FolderSteps

LEMMA QueueUnchanged ==
  ASSUME UNCHANGED <<queue, begun>>
  PROVE  /\ QueuePlain => QueuePlain'
         /\ \A k : Served(k) => Served(k)'
         /\ \A k : Begun(k) <=> Begun(k)'
  BY DEF QueuePlain, PlainRequest, IsProcessed, AllSourcesProcessed, Served, Begun

LEMMA CopyGoesOnKeepsPlain ==
  ASSUME PlainCase, IInv, PlainIInv, NEW i \in DOMAIN queue, NEW f \in Folders,
         AsksFor(i), Matches(queue[i], queue[i].src, f), CopyGoesOn(i, f)
  PROVE  PlainIInv'
  <1>0. PICK new : new = [id |-> queue[i].id, src |-> queue[i].src,
                          dst |-> f, kind |-> "stream"]
    OBVIOUS
  <1>1. QueuePlain'
    BY QueueUnchanged DEF PlainIInv, CopyGoesOn
  <1>2. EndsPlain'
    BY DEF PlainIInv, EndsPlain, CopyGoesOn
  <1>3. copyState'[f] = Copy(queue[i].id, queue[i].src)
        /\ \A g \in Folders : g # f => copyState'[g] = copyState[g]
    BY DEF CopyGoesOn, IInv, TypeOK
  <1>4. ASSUME NEW x \in transfers
        PROVE  TransferPlain(x)' /\ x.id # queue[i].id
    <2>1. TransferPlain(x) /\ x.dst \in Folders /\ x.src \in Sources /\ x.id \in Nat
      BY DEF PlainIInv, TransfersPlain, IInv, TypeOK
    <2>2. copyState[x.dst] = Copy(x.id, x.src)
      BY <2>1 DEF TransferPlain
    <2>3. x.dst # f
      BY <2>1, <2>2, ConstantsAssumption
      DEF ConstantsAssumption, Copy, CopyGoesOn
    <2>4. copyState'[x.dst] = Copy(x.id, x.src)
      BY <1>3, <2>1, <2>2, <2>3
    <2>5. TransferPlain(x)'
      BY <2>1, <2>4
      DEF TransferPlain, NoEndOf, CopyGoesOn, Matches, SameParent
    <2>6. QED BY <2>5 DEF AsksFor, NoTransferOf
  <1>5. TransferPlain(new)'
    <2>1. /\ queue' = queue /\ begun' = begun /\ ended' = ended
          /\ queue[i].id \in begun /\ NoEndOf(queue[i].id)
      BY DEF CopyGoesOn, AsksFor, Begun
    <2>2. Matches(queue[i], queue[i].src, f)'
      BY <2>1 DEF Matches, SameParent
    <2>3. NoEndOf(queue[i].id)'
      BY <2>1 DEF NoEndOf
    <2>4. /\ new.id = queue'[i].id /\ new.src = queue'[i].src
          /\ new.dst = f /\ new.kind = "stream"
          /\ new.id = queue[i].id
      BY <1>0, <2>1
    <2>5. new.id \in begun' /\ copyState'[new.dst] = Copy(new.id, new.src)
      BY <1>0, <1>3, <2>1
    <2>6. \A e \in ended' : e.id # new.id
      BY <2>1, <2>4 DEF NoEndOf
    <2>7. Matches(queue[i], new.src, new.dst)'
      BY <2>1, <2>2, <2>4 DEF Matches, SameParent
    <2>8. QED
      BY <2>1, <2>4, <2>5, <2>6, <2>7 DEF TransferPlain, NoEndOf
  <1>6. transfers' = transfers \cup {new}
    BY <1>0 DEF CopyGoesOn
  <1>7. new.id = queue[i].id /\ new.dst = f
    BY <1>0
  <1>8. \A x \in transfers' : TransferPlain(x)'
    BY <1>4, <1>5, <1>6
  <1>10. \A x, y \in transfers' : x.id = y.id => x = y
    <2>1. \A x, y \in transfers : x.id = y.id => x = y
      BY DEF PlainIInv, TransfersPlain
    <2>2. QED BY <1>4, <1>6, <1>7, <2>1
  <1>11. \A g \in Folders : copyState'[g] # NoCopy =>
                             \E x \in transfers' : x.dst = g
    <2>1. \A g \in Folders : copyState[g] # NoCopy =>
                               \E x \in transfers : x.dst = g
      BY DEF PlainIInv, TransfersPlain
    <2>2. QED BY <1>3, <1>6, <1>7, <2>1
  <1>12. TransfersPlain'
    BY <1>8, <1>10, <1>11 DEF TransfersPlain
  <1>13. AtRest'
    BY QueueUnchanged DEF AtRest, AsksFor, CopyGoesOn
  <1>14. QED
    BY <1>1, <1>2, <1>12, <1>13 DEF PlainIInv, CallsPlain

LEMMA CopyIsOverConcludes ==
  ASSUME PlainCase, IInv, PlainIInv, NEW i \in DOMAIN queue, NEW f \in Folders,
         NEW told \in BOOLEAN, Begun(i), NoEndOf(queue[i].id),
         \A k \in DOMAIN queue : Served(k),
         Matches(queue[i], queue[i].src, f), CopyIsOver(i, f, told),
         \A x \in transfers' : x.id # queue[i].id
  PROVE  AtNotify'
  <1>0. PICK ok \in BOOLEAN :
          ended' = ended \cup {End(queue[i].id, queue[i].src, ok)}
    BY DEF CopyIsOver
  <1>1. PICK g : g = NotifyFrame(queue[i].src, f, told)
    OBVIOUS
  <1>2. /\ g.pc = "notify" /\ g.src = queue[i].src /\ g.dst = f
        /\ stack' = <<g>>
        /\ queue' = queue /\ begun' = begun
        /\ ended' = ended \cup {End(queue[i].id, queue[i].src, ok)}
    BY <1>0, <1>1 DEF NotifyFrame, CopyIsOver
  <1>3. PICK t \in Submissions :
          queue[i].dst = t.dst /\ Matches(t, queue[i].src, f)
    BY RequestSubmission DEF PlainIInv, QueuePlain
  <1>4. \A k \in DOMAIN queue :
          Matches(queue[k], g.src, g.dst) => queue[k].dst = t.dst
    BY <1>2, <1>3, MatchFacts DEF PlainIInv, QueuePlain
  <1>5. ASSUME NEW k \in DOMAIN queue, Matches(queue[k], g.src, g.dst)
        PROVE  IF Begun(k) THEN HasEnded(k)' ELSE g.src \notin Files
    <2>1. CASE Begun(k)
      <3>1. k = i
        BY <1>3, <1>4, <1>5, <2>1, OneBegun
      <3>3. \E e \in ended' : e.id = queue[i].id /\ e.src = queue[i].src
        <4>1. PICK e : e = End(queue[i].id, queue[i].src, ok)
          OBVIOUS
        <4>2. e \in ended' /\ e.id = queue[i].id /\ e.src = queue[i].src
          BY <1>2, <4>1 DEF End
        <4>3. QED BY <4>2
      <3>4. HasEnded(i)'
        BY <1>2, <3>3 DEF HasEnded, NoTransferOf
      <3>5. QED BY <2>1, <3>1, <3>4
    <2>2. CASE ~Begun(k)
      <3>1. queue[k].src = queue[i].src
        BY <1>2, <1>5 DEF Matches, SameParent
      <3>2. k # i
        BY <2>2
      <3>3. queue[i].src \notin Files
        BY <3>1, <3>2 DEF PlainIInv, QueuePlain
      <3>4. QED BY <1>2, <2>2, <3>3
    <2>3. QED BY <2>1, <2>2
  <1>6. Concluded(g)'
    BY <1>2, <1>5 DEF Concluded, Begun, Matches, SameParent
  <1>7. OnlyWaits(g)'
    <2>1. \A k \in DOMAIN queue' : Served(k)'
      BY <1>2, QueueUnchanged
    <2>2. Matches(t, g.src, g.dst)'
      BY <1>2, <1>3 DEF Matches, SameParent
    <2>3. QED BY <2>1, <2>2 DEF OnlyWaits
  <1>8. g \in {stack'[k] : k \in DOMAIN stack'}
    BY <1>2
  <1>9. QED
    BY <1>2, <1>6, <1>7, <1>8 DEF AtNotify

LEMMA FolderStepKeepsPlain ==
  ASSUME PlainCase, IInv, PlainIInv, FolderSteps
  PROVE  PlainIInv'
  <1>1. PICK i \in DOMAIN queue, f \in Folders :
           /\ AsksFor(i)
           /\ Matches(queue[i], queue[i].src, f)
           /\ \/ CopyGoesOn(i, f)
              \/ \E ok \in BOOLEAN : /\ CopyIsOver(i, f, ok)
                                     /\ UNCHANGED <<copyState, transfers>>
    BY AcceptEffect
  <1>2. CASE CopyGoesOn(i, f)
    BY <1>1, <1>2, CopyGoesOnKeepsPlain
  <1>3. ASSUME NEW ok \in BOOLEAN, CopyIsOver(i, f, ok),
               UNCHANGED <<copyState, transfers>>
        PROVE  PlainIInv'
    <2>1. QueuePlain'
      BY <1>3, QueueUnchanged DEF PlainIInv, CopyIsOver
    <2>2. EndsPlain'
      BY <1>1, <1>3 DEF PlainIInv, EndsPlain, CopyIsOver, End, AsksFor, Begun
    <2>3. ASSUME NEW x \in transfers
          PROVE  TransferPlain(x)'
      <3>1. TransferPlain(x) /\ x.id # queue[i].id
        BY <1>1 DEF PlainIInv, TransfersPlain, AsksFor, NoTransferOf
      <3>2. NoEndOf(x.id)'
        BY <1>3, <3>1 DEF TransferPlain, NoEndOf, CopyIsOver, End
      <3>3. QED
        BY <1>3, <3>1, <3>2 DEF TransferPlain, CopyIsOver, Matches, SameParent
    <2>4. TransfersPlain'
      BY <1>3, <2>3 DEF PlainIInv, TransfersPlain
    <2>5. AtNotify'
      BY <1>1, <1>3, CopyIsOverConcludes DEF AsksFor, NoTransferOf
    <2>6. QED
      BY <2>1, <2>2, <2>4, <2>5 DEF PlainIInv, CallsPlain
  <1>4. QED BY <1>1, <1>2, <1>3
-------------------------------------------------------------------------------
(***************************************************************************)
(* A transfer ends while the service is at rest.                           *)
(***************************************************************************)
LEMMA TransferEndsKeepsPlain ==
  ASSUME PlainCase, IInv, PlainIInv, NEW x \in transfers, NEW ok \in BOOLEAN,
         TransferEnds(x, ok)
  PROVE  PlainIInv'
  <1>1. TransferPlain(x) /\ x.dst \in Folders /\ x.src \in Sources /\ x.id \in Nat
    BY DEF PlainIInv, TransfersPlain, IInv, TypeOK
  <1>2. copyState[x.dst] # NoCopy /\ copyState[x.dst].src = x.src
    BY <1>1, ConstantsAssumption DEF ConstantsAssumption, TransferPlain, Copy
  <1>3. PICK i \in DOMAIN queue :
          queue[i].id = x.id /\ Matches(queue[i], x.src, x.dst)
    BY <1>1 DEF TransferPlain
  <1>4. queue[i].src = x.src /\ Begun(i) /\ NoEndOf(queue[i].id)
    BY <1>1, <1>3 DEF Matches, SameParent, TransferPlain, Begun
  <1>5. stack = <<>> /\ \A k \in DOMAIN queue : Served(k)
    BY CallIsPlain DEF TransferEnds, PlainIInv, AtRest
  <1>6. PICK told \in BOOLEAN : CopyIsOver(i, x.dst, told)
    <2>1. PICK told \in BOOLEAN : Push(<<NotifyFrame(queue[i].src, x.dst, told)>>)
      BY <1>2, <1>4 DEF TransferEnds, Told
    <2>3. NotifyFrame(queue[i].src, x.dst, told) \in Frame
      BY <1>1, FrameTypes, QueuedRequest DEF IInv
    <2>4. stack' = <<NotifyFrame(queue[i].src, x.dst, told)>>
      BY <1>5, <2>1, <2>3, OneFrame DEF Push
    <2>5. QED
      BY <1>3, <1>4, <2>4 DEF CopyIsOver, TransferEnds
  <1>7. /\ transfers' = transfers \ {x}
        /\ copyState' = [copyState EXCEPT ![x.dst] = NoCopy]
    BY DEF TransferEnds
  <1>8. \A y \in transfers' : y \in transfers /\ y.id # x.id
    BY <1>7 DEF PlainIInv, TransfersPlain
  <1>9. ASSUME NEW y \in transfers'
        PROVE  TransferPlain(y)'
    <2>1. TransferPlain(y) /\ y.dst \in Folders /\ y.id # x.id
          /\ y.id \in Nat /\ y.src \in Sources
      BY <1>8 DEF PlainIInv, TransfersPlain, IInv, TypeOK
    <2>2. y.dst # x.dst
      BY <1>1, <2>1 DEF TransferPlain, Copy
    <2>3. copyState'[y.dst] = copyState[y.dst]
      BY <1>7, <2>1, <2>2 DEF IInv, TypeOK
    <2>4. NoEndOf(y.id)'
      BY <1>3, <1>6, <2>1 DEF TransferPlain, NoEndOf, CopyIsOver, End
    <2>5. QED
      BY <1>6, <2>1, <2>3, <2>4 DEF TransferPlain, CopyIsOver, Matches, SameParent
  <1>10. TransfersPlain'
    <2>1. \A y, z \in transfers' : y.id = z.id => y = z
      BY <1>8 DEF PlainIInv, TransfersPlain
    <2>2. ASSUME NEW g \in Folders, copyState'[g] # NoCopy
          PROVE  \E y \in transfers' : y.dst = g
      <3>1. g # x.dst /\ copyState[g] # NoCopy
        BY <1>1, <1>7, <2>2 DEF IInv, TypeOK
      <3>2. PICK y \in transfers : y.dst = g
        BY <3>1 DEF PlainIInv, TransfersPlain
      <3>3. y \in transfers'
        BY <1>7, <3>1, <3>2
      <3>4. QED BY <3>2, <3>3
    <2>3. QED BY <1>9, <2>1, <2>2 DEF TransfersPlain
  <1>11. QueuePlain'
    BY <1>6, QueueUnchanged DEF PlainIInv, CopyIsOver
  <1>12. EndsPlain'
    BY <1>4, <1>6 DEF PlainIInv, EndsPlain, CopyIsOver, End, Begun
  <1>13. AtNotify'
    <2>1. Matches(queue[i], queue[i].src, x.dst)
          /\ \A y \in transfers' : y.id # queue[i].id
      BY <1>3, <1>4, <1>8
    <2>2. PICK f \in Folders : f = x.dst
      BY <1>1
    <2>3. QED
      BY <1>4, <1>5, <1>6, <2>1, <2>2, CopyIsOverConcludes
  <1>14. QED
    BY <1>10, <1>11, <1>12, <1>13 DEF PlainIInv, CallsPlain
-------------------------------------------------------------------------------
(***************************************************************************)
(* NotifyCompletion clears a request and tells its listener.               *)
(***************************************************************************)
\* Where a request that stays in the queue was before.
Before(i, k) == IF k < i THEN k ELSE k + 1

ClearedAs(i, f, g) ==
  /\ FindRequest(i, f.src, f.dst)
  /\ queue[i].processed \/ AllSourcesProcessed(queue[i]) \/ ~f.ok
  /\ queue' = RemoveAt(queue, i)
  /\ stack' = <<ListenerFrame, g>>
  /\ g.pc = "notify" /\ g.src = f.src /\ g.dst = f.dst /\ g.ok = f.ok
  /\ UNCHANGED <<begun, copyState, transfers, copiers, ended>>

LEMMA PairOf ==
  ASSUME NEW S, NEW a \in S, NEW b \in S
  PROVE  <<a>> \o <<b>> = <<a, b>>
  <1>1. <<a>> \in Seq(S) /\ <<b>> \in Seq(S) /\ <<a, b>> \in Seq(S)
    OBVIOUS
  <1>2. /\ Len(<<a>>) = 1 /\ Len(<<b>>) = 1 /\ Len(<<a, b>>) = 2
        /\ <<a>>[1] = a /\ <<b>>[1] = b
        /\ <<a, b>>[1] = a /\ <<a, b>>[2] = b
    OBVIOUS
  <1>3. PICK s : s = <<a>> \o <<b>>
    OBVIOUS
  <1>4. PICK t : t = <<a, b>>
    OBVIOUS
  <1>5. s \in Seq(S) /\ Len(s) = 2 /\ s[1] = a /\ s[2] = b
    BY <1>1, <1>2, <1>3, ConcatProperties
  <1>6. \A k \in 1..Len(t) : s[k] = t[k]
    BY <1>2, <1>4, <1>5
  <1>7. s = t
    BY <1>1, <1>2, <1>4, <1>5, <1>6, SeqEqual
  <1>8. QED BY <1>3, <1>4, <1>7

LEMMA ClearEffect ==
  ASSUME PlainCase, IInv, PlainIInv, NotifyCompletion
  PROVE  \E f : \E i \in DOMAIN queue : \E g :
           /\ stack = <<f>> /\ Concluded(f) /\ OnlyWaits(f)
           /\ ClearedAs(i, f, g)
           /\ reports' = reports \cup {[id |-> queue[i].id, ok |-> f.ok]}
           /\ f.ok \in BOOLEAN
  <1>1. PICK f : stack = <<f>> /\ f.pc = "notify" /\ Concluded(f) /\ OnlyWaits(f)
    BY CallIsPlain DEF PlainIInv, NotifyCompletion
  <1>2. Call = f /\ Tail(stack) = <<>>
    BY <1>1 DEF Call
  <1>3. f \in [pc: {"notify"}, src: Sources, dst: Folders, ok: BOOLEAN, left: Nat]
    BY <1>1, <1>2, CallTypes DEF IInv
  <1>4. PICK i \in DOMAIN queue :
          /\ ClearsMatch(i, f)
          /\ ClearRequest(i, f.ok, <<[f EXCEPT !.left = @ - 1]>> \o <<>>)
    BY <1>2 DEF NotifyCompletion
  <1>5. PICK g : g = [f EXCEPT !.left = @ - 1]
    OBVIOUS
  <1>6. /\ g.pc = "notify" /\ g.src = f.src /\ g.dst = f.dst /\ g.ok = f.ok
        /\ g \in Frame
    <2>1. i <= f.left /\ i \in Nat /\ i >= 1
      BY <1>4, QueuePositions DEF ClearsMatch, IInv
    <2>2. f.left - 1 \in Nat
      BY <1>3, <2>1
    <2>3. g \in [pc: {"notify"}, src: Sources, dst: Folders, ok: BOOLEAN, left: Nat]
      BY <1>3, <1>5, <2>2
    <2>4. QED BY <1>3, <1>5, <2>3 DEF Frame
  <1>7. <<g>> \o <<>> = <<g>>
    BY <1>6, OneFrame
  <1>8. ~queue[i].copier
    BY DEF PlainIInv, QueuePlain, PlainRequest
  <1>9. stack' = <<ListenerFrame>> \o <<g>>
    BY <1>4, <1>5, <1>7, <1>8 DEF ClearRequest
  <1>10. stack' = <<ListenerFrame, g>>
    <2>1. ListenerFrame \in Frame
      BY FrameTypes
    <2>2. QED BY <1>6, <1>9, <2>1, PairOf
  <1>11. ClearedAs(i, f, g)
    BY <1>4, <1>6, <1>10
    DEF ClearedAs, ClearsMatch, ClearRequest, NotifyCompletion, folderVars
  <1>12. reports' = reports \cup {[id |-> queue[i].id, ok |-> f.ok]}
    BY <1>4 DEF ClearRequest
  <1>13. QED
    BY <1>1, <1>3, <1>11, <1>12

LEMMA ClearedPositions ==
  ASSUME IInv, NEW i \in DOMAIN queue, queue' = RemoveAt(queue, i)
  PROVE  /\ \A k \in DOMAIN queue' :
              /\ Before(i, k) \in DOMAIN queue
              /\ Before(i, k) # i
              /\ queue'[k] = queue[Before(i, k)]
         /\ \A k, m \in DOMAIN queue' : Before(i, k) = Before(i, m) => k = m
         /\ \A k \in DOMAIN queue' : \A n \in 1..Before(i, k) :
              n # i => \E m \in 1..k : m \in DOMAIN queue' /\ Before(i, m) = n
         /\ \A n \in DOMAIN queue :
              n # i => \E m \in DOMAIN queue' : Before(i, m) = n
  <1>1. queue \in Seq(Request) /\ DOMAIN queue = 1..Len(queue) /\ Len(queue) \in Nat
    BY QueuePositions DEF IInv, TypeOK
  <1>2. /\ Len(queue') = Len(queue) - 1
        /\ queue' \in Seq(Request)
        /\ \A k \in 1..(Len(queue) - 1) :
             queue'[k] = IF k < i THEN queue[k] ELSE queue[k + 1]
    BY <1>1, RemoveAtFacts
  <1>3. DOMAIN queue' = 1..(Len(queue) - 1)
    BY <1>2
  <1>4. \A k \in DOMAIN queue' :
          /\ Before(i, k) \in DOMAIN queue
          /\ Before(i, k) # i
          /\ queue'[k] = queue[Before(i, k)]
    BY <1>1, <1>2, <1>3 DEF Before
  <1>5. \A k, m \in DOMAIN queue' : Before(i, k) = Before(i, m) => k = m
    BY <1>1, <1>3 DEF Before
  <1>6. ASSUME NEW n \in DOMAIN queue, n # i
        PROVE  \E m \in DOMAIN queue' :
                 /\ Before(i, m) = n
                 /\ \A k \in DOMAIN queue' : n <= Before(i, k) => m <= k
    <2>1. CASE n < i
      <3>1. n \in DOMAIN queue' /\ Before(i, n) = n
        BY <2>1, <1>1, <1>3 DEF Before
      <3>2. \A k \in DOMAIN queue' : n <= Before(i, k) => n <= k
        BY <2>1, <1>1, <1>3 DEF Before
      <3>3. QED BY <3>1, <3>2
    <2>2. CASE n > i
      <3>1. n - 1 \in DOMAIN queue' /\ Before(i, n - 1) = n
        BY <2>2, <1>1, <1>3 DEF Before
      <3>2. \A k \in DOMAIN queue' : n <= Before(i, k) => n - 1 <= k
        BY <2>2, <1>1, <1>3 DEF Before
      <3>3. QED BY <3>1, <3>2
    <2>3. QED BY <1>1, <1>6, <2>1, <2>2
  <1>7. ASSUME NEW k \in DOMAIN queue', NEW n \in 1..Before(i, k), n # i
        PROVE  \E m \in 1..k : m \in DOMAIN queue' /\ Before(i, m) = n
    <2>1. n \in DOMAIN queue /\ n <= Before(i, k)
      BY <1>1, <1>4
    <2>2. PICK m \in DOMAIN queue' : Before(i, m) = n /\ m <= k
      BY <1>6, <1>7, <2>1
    <2>3. m \in 1..k
      BY <1>3, <2>2
    <2>4. QED BY <2>2, <2>3
  <1>8. QED
    BY <1>4, <1>5, <1>6, <1>7

\* The request that is cleared has no transfer, and it waited in the queue of
\* the destination the completion is about.
LEMMA ClearedRequest ==
  ASSUME PlainCase, PlainIInv, NEW f, NEW g, NEW i \in DOMAIN queue,
         Concluded(f), ClearedAs(i, f, g),
         NEW t \in Submissions, Matches(t, f.src, f.dst)
  PROVE  /\ Matches(queue[i], f.src, f.dst)
         /\ queue[i].dst = t.dst
         /\ Begun(i) => HasEnded(i)
         /\ f.ok => Begun(i)
  <1>1. PlainRequest(queue[i])
    BY DEF PlainIInv, QueuePlain
  <1>2. Matches(queue[i], f.src, f.dst)
          \/ (queue[i].type = "folders" /\ SameParent(queue[i], f.src, f.dst))
    BY DEF ClearedAs, FindRequest, FallsThrough
  <1>3. Matches(queue[i], f.src, f.dst) /\ queue[i].dst = t.dst
    BY <1>1, <1>2, MatchFacts
  <1>4. IF Begun(i) THEN HasEnded(i) ELSE f.src \notin Files
    BY <1>3 DEF Concluded
  <1>5. ASSUME f.ok, ~Begun(i) PROVE FALSE
    <2>1. queue[i].marked = {} /\ ~queue[i].processed
      BY <1>1, <1>5 DEF PlainRequest, Begun
    <2>2. DOMAIN queue[i].sources = {}
      BY <1>5, <2>1 DEF ClearedAs, AllSourcesProcessed
    <2>3. PICK u \in Submissions :
            /\ queue[i].type = u.type /\ queue[i].src = u.src
            /\ queue[i].sources = u.sources
      BY <1>1 DEF PlainRequest
    <2>4. DOMAIN <<u.src>> = {1}
      OBVIOUS
    <2>5. u.type = "file" /\ u.src \in Files
      BY <2>2, <2>3, <2>4 DEF PlainCase
    <2>6. queue[i].src = f.src
      BY <1>3 DEF Matches, SameParent
    <2>7. QED BY <1>4, <1>5, <2>3, <2>5, <2>6
  <1>6. QED BY <1>3, <1>4, <1>5

LEMMA ClearKeepsQueue ==
  ASSUME IInv, PlainIInv, NEW f, NEW g, NEW i \in DOMAIN queue, ClearedAs(i, f, g)
  PROVE  QueuePlain'
  <1>1. queue' = RemoveAt(queue, i) /\ begun' = begun
    BY DEF ClearedAs
  <1>2. /\ \A k \in DOMAIN queue' :
             /\ Before(i, k) \in DOMAIN queue
             /\ queue'[k] = queue[Before(i, k)]
        /\ \A k, m \in DOMAIN queue' : Before(i, k) = Before(i, m) => k = m
    BY <1>1, ClearedPositions
  <1>3. ASSUME NEW k \in DOMAIN queue'
        PROVE  PlainRequest(queue[k])'
    <2>1. PlainRequest(queue'[k])
      BY <1>2 DEF PlainIInv, QueuePlain
    <2>2. QED
      BY <1>1, <2>1 DEF PlainRequest, IsProcessed, AllSourcesProcessed
  <1>4. \A k, m \in DOMAIN queue' :
          queue'[k].src \in Files /\ queue'[k].src = queue'[m].src => k = m
    <2>1. \A k, m \in DOMAIN queue :
            queue[k].src \in Files /\ queue[k].src = queue[m].src => k = m
      BY DEF PlainIInv, QueuePlain
    <2>2. QED BY <1>2, <2>1
  <1>5. QED BY <1>3, <1>4 DEF QueuePlain

LEMMA ClearKeepsTransfers ==
  ASSUME IInv, PlainIInv, NEW f, NEW g, NEW i \in DOMAIN queue,
         ClearedAs(i, f, g), Begun(i) => HasEnded(i)
  PROVE  TransfersPlain' /\ EndsPlain'
  <1>1. /\ queue' = RemoveAt(queue, i)
        /\ UNCHANGED <<begun, copyState, transfers, copiers, ended>>
    BY DEF ClearedAs
  <1>2. \A n \in DOMAIN queue :
          n # i => \E m \in DOMAIN queue' : queue'[m] = queue[n]
    BY <1>1, ClearedPositions
  <1>3. ASSUME NEW x \in transfers
        PROVE  TransferPlain(x)'
    <2>1. TransferPlain(x)
      BY DEF PlainIInv, TransfersPlain
    <2>2. PICK n \in DOMAIN queue :
            queue[n].id = x.id /\ Matches(queue[n], x.src, x.dst)
      BY <2>1 DEF TransferPlain
    <2>3. n # i
      BY <2>1, <2>2 DEF TransferPlain, Begun, HasEnded, NoTransferOf
    <2>4. PICK m \in DOMAIN queue' : queue'[m] = queue[n]
      BY <1>2, <2>3
    <2>5. QED
      BY <1>1, <2>1, <2>2, <2>4
      DEF TransferPlain, NoEndOf, Matches, SameParent
  <1>4. TransfersPlain'
    BY <1>1, <1>3 DEF PlainIInv, TransfersPlain
  <1>5. EndsPlain'
    BY <1>1 DEF PlainIInv, EndsPlain
  <1>6. QED BY <1>4, <1>5

LEMMA ClearKeepsConcluded ==
  ASSUME IInv, NEW f, NEW g, NEW i \in DOMAIN queue,
         ClearedAs(i, f, g), Concluded(f)
  PROVE  Concluded(g)'
  <1>1. /\ queue' = RemoveAt(queue, i)
        /\ UNCHANGED <<begun, transfers, ended>>
        /\ g.src = f.src /\ g.dst = f.dst /\ g.ok = f.ok
    BY DEF ClearedAs
  <1>2. \A k \in DOMAIN queue' :
          Before(i, k) \in DOMAIN queue /\ queue'[k] = queue[Before(i, k)]
    BY <1>1, ClearedPositions
  <1>3. ASSUME NEW k \in DOMAIN queue', Matches(queue[k], g.src, g.dst)'
        PROVE  IF Begun(k)' THEN HasEnded(k)' ELSE g.src \notin Files
    <2>1. PICK n \in DOMAIN queue : queue'[k] = queue[n]
      BY <1>2
    <2>2. Matches(queue[n], f.src, f.dst)
      BY <1>1, <1>3, <2>1 DEF Matches, SameParent
    <2>3. IF Begun(n) THEN HasEnded(n) ELSE f.src \notin Files
      BY <2>2 DEF Concluded
    <2>4. Begun(k)' <=> Begun(n)
      BY <1>1, <2>1 DEF Begun
    <2>5. HasEnded(n) => HasEnded(k)'
      BY <1>1, <2>1 DEF HasEnded, NoTransferOf
    <2>6. QED BY <1>1, <2>3, <2>4, <2>5
  <1>4. QED BY <1>3 DEF Concluded

LEMMA ClearKeepsOnlyWaits ==
  ASSUME IInv, NEW f, NEW g, NEW i \in DOMAIN queue, ClearedAs(i, f, g),
         NEW t \in Submissions, Matches(t, f.src, f.dst), queue[i].dst = t.dst,
         \A k \in DOMAIN queue : Served(k) \/ queue[k].dst = t.dst
  PROVE  OnlyWaits(g)'
  <1>1. /\ queue' = RemoveAt(queue, i) /\ begun' = begun
        /\ g.src = f.src /\ g.dst = f.dst
    BY DEF ClearedAs
  <1>2. /\ \A k \in DOMAIN queue' :
             /\ Before(i, k) \in DOMAIN queue
             /\ queue'[k] = queue[Before(i, k)]
        /\ \A k \in DOMAIN queue' : \A n \in 1..Before(i, k) :
             n # i => \E m \in 1..k : m \in DOMAIN queue' /\ Before(i, m) = n
    BY <1>1, ClearedPositions
  <1>3. ASSUME NEW k \in DOMAIN queue', queue'[k].dst # t.dst
        PROVE  Served(k)'
    <2>1. PICK old \in DOMAIN queue : old = Before(i, k)
      BY <1>2
    <2>2. queue'[k] = queue[old] /\ Served(old)
      BY <1>2, <1>3, <2>1
    <2>3. PICK n \in 1..old : queue[n].dst = queue[old].dst /\ Begun(n)
      BY <2>2 DEF Served
    <2>4. n # i
      BY <1>3, <2>2, <2>3
    <2>5. PICK m \in 1..k : m \in DOMAIN queue' /\ Before(i, m) = n
      BY <1>2, <2>1, <2>3, <2>4
    <2>6. queue'[m] = queue[n]
      BY <1>2, <2>5
    <2>7. queue'[m].dst = queue'[k].dst /\ queue'[m].id \in begun'
      BY <1>1, <2>2, <2>3, <2>6 DEF Begun
    <2>8. QED BY <2>5, <2>7 DEF Served, Begun
  <1>4. Matches(t, g.src, g.dst)'
    BY <1>1 DEF Matches, SameParent
  <1>5. QED BY <1>3, <1>4 DEF OnlyWaits

LEMMA NotifyKeepsPlain ==
  ASSUME PlainCase, IInv, PlainIInv, NotifyCompletion
  PROVE  PlainIInv'
  <1>1. PICK f, g : \E i \in DOMAIN queue :
          Concluded(f) /\ OnlyWaits(f) /\ ClearedAs(i, f, g)
    BY ClearEffect
  <1>2. PICK i \in DOMAIN queue :
          Concluded(f) /\ OnlyWaits(f) /\ ClearedAs(i, f, g)
    BY <1>1
  <1>3. PICK t \in Submissions :
          /\ Matches(t, f.src, f.dst)
          /\ \A k \in DOMAIN queue : Served(k) \/ queue[k].dst = t.dst
    BY <1>2 DEF OnlyWaits
  <1>4. queue[i].dst = t.dst /\ (Begun(i) => HasEnded(i))
    BY <1>2, <1>3, ClearedRequest
  <1>5. QueuePlain'
    BY <1>2, ClearKeepsQueue
  <1>6. TransfersPlain' /\ EndsPlain'
    BY <1>2, <1>4, ClearKeepsTransfers
  <1>7. Concluded(g)'
    BY <1>2, ClearKeepsConcluded
  <1>8. OnlyWaits(g)'
    BY <1>2, <1>3, <1>4, ClearKeepsOnlyWaits
  <1>9. /\ stack' = <<ListenerFrame, g>> /\ g.pc = "notify"
        /\ g \in {stack'[k] : k \in DOMAIN stack'}
    <2>1. stack' = <<ListenerFrame, g>> /\ g.pc = "notify"
      BY <1>2 DEF ClearedAs
    <2>2. 2 \in DOMAIN stack' /\ stack'[2] = g
      BY <2>1
    <2>3. QED BY <2>1, <2>2
  <1>10. AtNotify'
    BY <1>7, <1>8, <1>9 DEF AtNotify
  <1>11. QED
    BY <1>5, <1>6, <1>10 DEF PlainIInv, CallsPlain
-------------------------------------------------------------------------------
(***************************************************************************)
(* The steps that only move on in the calls in progress.                   *)
(***************************************************************************)
LEMMA PartsUnchanged ==
  ASSUME UNCHANGED <<queue, begun, copyState, transfers, copiers, ended>>
  PROVE  /\ QueuePlain /\ TransfersPlain /\ EndsPlain =>
              (QueuePlain /\ TransfersPlain /\ EndsPlain)'
         /\ \A f : Concluded(f) => Concluded(f)'
         /\ \A f : OnlyWaits(f) => OnlyWaits(f)'
  <1>1. QueuePlain => QueuePlain'
    BY QueueUnchanged
  <1>2. EndsPlain => EndsPlain'
    BY DEF EndsPlain
  <1>3. \A x : TransferPlain(x) => TransferPlain(x)'
    BY DEF TransferPlain, NoEndOf, Matches, SameParent
  <1>4. TransfersPlain => TransfersPlain'
    BY <1>3 DEF TransfersPlain
  <1>5. \A f : Concluded(f) => Concluded(f)'
    BY DEF Concluded, Begun, HasEnded, NoTransferOf, Matches, SameParent
  <1>6. \A f : OnlyWaits(f) => OnlyWaits(f)'
    BY DEF OnlyWaits, Served, Begun, Matches, SameParent
  <1>7. QED BY <1>1, <1>2, <1>4, <1>5, <1>6

LEMMA CallStepKeepsPlain ==
  ASSUME PlainCase, IInv, PlainIInv,
         NothingToCopy \/ NotifyDone \/ ListenerReturns \/ UNCHANGED vars
  PROVE  PlainIInv'
  <1>1. UNCHANGED <<queue, begun, copyState, transfers, copiers, ended>>
    BY DEF NothingToCopy, NotifyDone, ListenerReturns, folderVars, vars
  <1>2. (QueuePlain /\ TransfersPlain /\ EndsPlain)'
    BY <1>1, PartsUnchanged DEF PlainIInv
  <1>3. CASE NothingToCopy
    <2>1. stack' = <<>>
      <3>1. stack = <<NextFrame>>
        BY <1>3, CallIsPlain DEF PlainIInv, NothingToCopy, AtNext
      <3>2. Tail(stack) = <<>>
        BY <3>1
      <3>3. QED BY <1>3, <3>2 DEF NothingToCopy, Return
    <2>2. ASSUME NEW i \in DOMAIN queue, ~Served(i)
          PROVE  FALSE
      <3>1. \A k \in DOMAIN queue : Startable(k) <=> ~Served(k)
        BY StartableIsUnserved DEF IInv, PlainIInv
      <3>2. i \in Nat /\ \A k \in 1..i : k \in DOMAIN queue /\ k \in Nat
        BY QueuePositions DEF IInv
      <3>4. PICK n \in {k \in DOMAIN queue : ~Served(k)} :
              \A m \in {k \in DOMAIN queue : ~Served(k)} : n <= m
        <4>1. PICK W : W = {k \in DOMAIN queue : ~Served(k)}
          OBVIOUS
        <4>2. DOMAIN queue = 1..Len(queue) /\ Len(queue) \in Nat
          BY QueuePositions DEF IInv
        <4>3. IsFiniteSet(1..Len(queue))
          BY <4>2, FS_Interval
        <4>4. W \subseteq 1..Len(queue)
          BY <4>1, <4>2
        <4>5. IsFiniteSet(W)
          BY <4>3, <4>4, FS_Subset
        <4>6. W \subseteq Int /\ W # {}
          BY <2>2, <4>1, <4>2
        <4>7. Min(W) \in W /\ \A k \in W : Min(W) <= k
          BY <4>5, <4>6, Extremes
        <4>8. QED BY <4>1, <4>7
      <3>5. \A k \in 1..(n - 1) : k \in DOMAIN queue /\ ~(n <= k)
        BY QueuePositions DEF IInv
      <3>6. Startable(n) /\ \A k \in 1..(n - 1) : ~Startable(k)
        BY <3>1, <3>4, <3>5
      <3>7. QED BY <1>3, <3>6 DEF NothingToCopy, NextToCopy
    <2>3. AtRest'
      BY <1>1, <2>1, <2>2, QueueUnchanged DEF AtRest
    <2>4. QED BY <1>2, <2>3 DEF PlainIInv, CallsPlain
  <1>4. CASE NotifyDone
    <2>1. PICK f : stack = <<f>> /\ OnlyWaits(f)
      BY <1>4, CallIsPlain DEF PlainIInv, NotifyDone
    <2>2. stack' = <<NextFrame>>
      BY <1>4, <2>1, FrameTypes, OneFrame DEF NotifyDone, Return
    <2>3. \A i, j \in DOMAIN queue :
            Served(i) \/ Served(j) \/ queue[i].dst = queue[j].dst
      BY <2>1 DEF OnlyWaits
    <2>4. AtNext'
      BY <1>1, <2>2, <2>3, QueueUnchanged DEF AtNext
    <2>5. QED BY <1>2, <2>4 DEF PlainIInv, CallsPlain
  <1>5. CASE ListenerReturns
    <2>1. PICK f : /\ stack = <<ListenerFrame, f>> /\ f.pc = "notify"
                   /\ Concluded(f) /\ OnlyWaits(f)
      BY <1>5, CallIsPlain DEF PlainIInv, ListenerReturns
    <2>2. stack' = <<f>>
      <3>1. Tail(stack) = <<f>> /\ Tail(stack) \in Seq(Frame)
        BY <1>5, <2>1, CallTypes DEF IInv
      <3>2. stack[2] = f /\ 2 \in DOMAIN stack
        BY <2>1
      <3>3. <<>> \o <<f>> = <<f>>
        BY <3>1, ConcatEmptySeq
      <3>4. QED BY <1>5, <3>1, <3>3 DEF ListenerReturns, Return
    <2>3. Concluded(f)' /\ OnlyWaits(f)'
      BY <1>1, <2>1, PartsUnchanged
    <2>4. f \in {stack'[k] : k \in DOMAIN stack'}
      BY <2>2
    <2>5. AtNotify'
      BY <2>1, <2>2, <2>3, <2>4 DEF AtNotify
    <2>6. QED BY <1>2, <2>5 DEF PlainIInv, CallsPlain
  <1>6. CASE UNCHANGED vars
    <2>1. stack' = stack
      BY <1>6 DEF vars
    <2>2. AtNotify => AtNotify'
      BY <1>1, <2>1, PartsUnchanged DEF AtNotify
    <2>3. AtRest => AtRest'
      BY <1>1, <2>1, QueueUnchanged DEF AtRest
    <2>4. AtNext => AtNext'
      BY <1>1, <2>1, QueueUnchanged DEF AtNext
    <2>5. AtAccept => AtAccept'
      BY <1>1, <2>1, QueueUnchanged DEF AtAccept, NoTransferOf, NoEndOf
    <2>6. QED
      BY <1>2, <2>2, <2>3, <2>4, <2>5 DEF PlainIInv, CallsPlain
  <1>7. QED
    BY <1>3, <1>4, <1>5, <1>6
-------------------------------------------------------------------------------
LEMMA PlainIInvInductive ==
  ASSUME PlainCase, IInv, PlainIInv, [Next]_vars
  PROVE  PlainIInv'
  <1>1. PlainStep
    BY NextIsPlain
  <1>2. CASE \E t \in Submissions : Submits(t)
    BY <1>2, SubmitKeepsPlain
  <1>3. CASE StartSource \/ StartFile
    BY <1>3, StartEffect, StartKeepsPlain
  <1>4. CASE NotifyCompletion
    BY <1>4, NotifyKeepsPlain
  <1>5. CASE FolderSteps
    BY <1>5, FolderStepKeepsPlain
  <1>6. CASE \E x \in transfers, ok \in BOOLEAN : TransferEnds(x, ok)
    BY <1>6, TransferEndsKeepsPlain
  <1>7. CASE NothingToCopy \/ NotifyDone \/ ListenerReturns \/ UNCHANGED vars
    BY <1>7, CallStepKeepsPlain
  <1>8. QED
    BY <1>1, <1>2, <1>3, <1>4, <1>5, <1>6, <1>7 DEF PlainStep, FolderSteps

LEMMA PlainInvariant ==
  ASSUME PlainCase
  PROVE  Spec => [](IInv /\ PlainIInv)
  <1>1. Init => PlainIInv
    BY DEF Init, PlainIInv, QueuePlain, TransfersPlain, EndsPlain, CallsPlain,
           AtRest
  <1>2. IInv /\ PlainIInv /\ [Next]_vars => PlainIInv'
    BY PlainIInvInductive
  <1>3. QED
    BY <1>1, <1>2, InductiveInvariant, PTL DEF Spec

\* "already copying a msg" cannot happen: when the service asks a folder to
\* copy messages or a file, the folder's last copy is over.
THEOREM FolderIsFree ==
  ASSUME PlainCase
  PROVE  Spec => []NoCopyIntoBusyFolder
  <1>1. IInv /\ PlainIInv => NoCopyIntoBusyFolder
    <2>1. SUFFICES ASSUME IInv, PlainIInv, Accepting
                   PROVE  copyState[Call.dst] = NoCopy
      BY DEF NoCopyIntoBusyFolder
    <2>2. Running("accept") /\ Call.type # "folders" /\ Call.dst \in Folders
      BY <2>1, CallTypes DEF Accepting, Running, IInv
    <2>3. PICK f \in Folders : f = Call.dst
      BY <2>2
    <2>4. CopiedInto(f)
      BY <2>2, <2>3 DEF CopiedInto
    <2>5. QED
      BY <2>1, <2>2, <2>3, <2>4, AcceptedFolderIsIdle
  <1>2. QED
    BY <1>1, PlainInvariant, PTL

\* No wake-up is lost: whenever the service is back in the event loop, every
\* destination with requests in the queue is working on the oldest of them.
THEOREM EveryDestinationWorks ==
  ASSUME PlainCase
  PROVE  Spec => []NoDestinationWaits
  <1>1. PlainIInv => NoDestinationWaits
    <2>1. SUFFICES ASSUME PlainIInv, Idle
                   PROVE  \A i \in DOMAIN queue : Served(i)
      BY DEF NoDestinationWaits, Served, Begun
    <2>2. QED
      BY <2>1, CallIsPlain DEF PlainIInv, AtRest
  <1>2. QED
    BY <1>1, PlainInvariant, PTL
-------------------------------------------------------------------------------
(***************************************************************************)
(* What a listener is told.                                                *)
(***************************************************************************)
\* Success is only reported for a request that was started and has ended.
LEMMA ReportOfSuccess ==
  ASSUME PlainCase, IInv, PlainIInv, [Next]_vars,
         NEW i \in DOMAIN queue, JustReported(queue[i], TRUE)
  PROVE  Begun(i) /\ HasEnded(i)
  <1>1. reports' # reports
    BY DEF JustReported
  <1>2. NotifyCompletion
    <2>1. PlainStep
      BY NextIsPlain
    <2>2. CASE \E t \in Submissions : Submits(t)
      BY <1>1, <2>2, SubmitEffect
    <2>3. ASSUME ~NotifyCompletion, ~\E t \in Submissions : Submits(t)
          PROVE  FALSE
      BY <1>1, <2>1, <2>3
      DEF PlainStep, NothingToCopy, StartSource, StartFile, NotifyDone,
          ListenerReturns, AcceptAsync, AcceptSync, MoveFolderLocal,
          CopyFolderAcrossServer, CopyFolderSync, TransferEnds, vars
    <2>4. QED BY <2>2, <2>3, <1>1, SubmitEffect
  <1>3. PICK f, g : \E k \in DOMAIN queue :
          /\ Concluded(f) /\ OnlyWaits(f) /\ ClearedAs(k, f, g)
          /\ reports' = reports \cup {[id |-> queue[k].id, ok |-> f.ok]}
          /\ f.ok \in BOOLEAN
    BY <1>2, ClearEffect
  <1>4. PICK k \in DOMAIN queue :
          /\ Concluded(f) /\ OnlyWaits(f) /\ ClearedAs(k, f, g)
          /\ reports' = reports \cup {[id |-> queue[k].id, ok |-> f.ok]}
    BY <1>3
  <1>5. [id |-> queue[i].id, ok |-> TRUE] = [id |-> queue[k].id, ok |-> f.ok]
    BY <1>4 DEF JustReported
  <1>6. queue[i].id = queue[k].id /\ f.ok = TRUE
    BY <1>5
  <1>7. i = k
    BY <1>6, IdsTellApart
  <1>8. PICK t \in Submissions : Matches(t, f.src, f.dst)
    BY <1>4 DEF OnlyWaits
  <1>9. QED
    BY <1>4, <1>6, <1>7, <1>8, ClearedRequest

\* A listener hears of success only after the transfers of its request have
\* ended, whatever else is queued for the same source and destination.
THEOREM SuccessAfterTheEnd ==
  ASSUME PlainCase
  PROVE  Spec => OkOnlyAfterEnd
  <1>1. ASSUME IInv, PlainIInv, [Next]_vars,
               NEW i \in DOMAIN queue, JustReported(queue[i], TRUE),
               NEW s \in Needed(queue[i])
        PROVE  \E e \in ended : e.id = queue[i].id /\ e.src = s
    <2>1. \E e \in ended : e.id = queue[i].id /\ e.src = queue[i].src
      BY <1>1, ReportOfSuccess DEF HasEnded
    <2>2. s = queue[i].src
      <3>1. PICK t \in Submissions :
              /\ queue[i].type = t.type /\ queue[i].src = t.src
              /\ queue[i].sources = t.sources
        BY <1>1 DEF PlainIInv, QueuePlain, PlainRequest
      <3>2. CASE queue[i].type = "file"
        BY <1>1, <3>2 DEF Needed
      <3>3. CASE queue[i].type # "file"
        <4>1. queue[i].sources = <<queue[i].src>>
          BY <3>1, <3>3 DEF PlainCase
        <4>2. \A a \in ToSet(queue[i].sources) : a = queue[i].src
          BY <4>1 DEF ToSet
        <4>3. QED BY <1>1, <3>3, <4>2 DEF Needed
      <3>4. QED BY <3>2, <3>3
    <2>3. QED BY <2>1, <2>2
  <1>2. IInv /\ PlainIInv /\ [Next]_vars =>
          [\A i \in DOMAIN queue :
             JustReported(queue[i], TRUE) =>
               \A s \in Needed(queue[i]) :
                 \E e \in ended : e.id = queue[i].id /\ e.src = s]_vars
    BY <1>1
  <1>3. QED
    BY <1>2, PlainInvariant, PTL DEF Spec, OkOnlyAfterEnd

\* A folder is asked only once to carry out a request: what DoNextCopy starts
\* was never started before.
THEOREM StartedOnlyOnce ==
  ASSUME PlainCase
  PROVE  Spec => StartsOnce
  <1>1. ASSUME IInv, PlainIInv, [Next]_vars,
               Running("next"), Running("accept")'
        PROVE  Head(stack').id \notin begun
    <2>1. stack = <<NextFrame>>
      BY <1>1, CallIsPlain DEF PlainIInv, AtNext
    <2>2. stack' # stack
      BY <1>1, <2>1 DEF Running, Call, NextFrame
    <2>3. StartSource \/ StartFile
      <3>1. PlainStep
        BY <1>1, NextIsPlain
      <3>2. stack # <<>> /\ Call.pc = "next"
        BY <1>1 DEF Running
      <3>3. ~NothingToCopy
        BY <1>1, <2>1 DEF NothingToCopy, Return, Running
      <3>4. \A t \in Submissions : ~Submits(t)
        BY <1>1, <3>2 DEF Submits, CopyMessages, CopyFolders, CopyFileMessage,
                          MayCall, PlainCase, Idle
      <3>5. /\ ~NotifyCompletion /\ ~NotifyDone /\ ~ListenerReturns
            /\ ~AcceptAsync /\ ~AcceptSync
        BY <3>2 DEF NotifyCompletion, NotifyDone, ListenerReturns, AcceptAsync,
                    AcceptSync, Accepting, Running
      <3>6. \A new \in Folders :
              /\ ~MoveFolderLocal(new) /\ ~CopyFolderAcrossServer(new)
              /\ ~CopyFolderSync(new)
        BY <3>2 DEF MoveFolderLocal, CopyFolderAcrossServer, CopyFolderSync,
                    AcceptingFolder, Running
      <3>7. \A x \in transfers, ok \in BOOLEAN : ~TransferEnds(x, ok)
        BY <3>2 DEF TransferEnds, Idle
      <3>8. QED
        BY <2>2, <3>1, <3>3, <3>4, <3>5, <3>6, <3>7 DEF PlainStep, vars
    <2>4. PICK i \in DOMAIN queue : StartedAs(i)
      BY <1>1, <2>3, StartEffect
    <2>5. ~Begun(i)
      BY <1>1, <2>4, NextToCopyIsWaiting DEF StartedAs
    <2>6. Head(stack').id = queue[i].id
      BY <2>4 DEF StartedAs, AcceptFrame
    <2>7. QED BY <2>5, <2>6 DEF Begun
  <1>2. IInv /\ PlainIInv /\ [Next]_vars =>
          [Running("next") /\ Running("accept")' =>
             Head(stack').id \notin begun]_vars
    BY <1>1
  <1>3. QED
    BY <1>2, PlainInvariant, PTL DEF Spec, StartsOnce
==============================================================================
