-------------------------- MODULE CopyServiceProofs --------------------------
(***************************************************************************)
(* Proofs about CopyService, for all folders, files, submissions and       *)
(* behaviours.  A step of the system changes the queue in one of three     *)
(* ways (Enqueues, Starts, Clears) or not at all; the invariants and the   *)
(* refinement of CopyLedger are proved from these effects.                 *)
(***************************************************************************)
EXTENDS CopyService, TLAPS, SequenceTheorems

\* Removing a request closes the gap and keeps the others in order.
LEMMA RemoveAtFacts ==
  ASSUME NEW S, NEW s \in Seq(S), NEW i \in DOMAIN s
  PROVE  /\ RemoveAt(s, i) \in Seq(S)
         /\ Len(RemoveAt(s, i)) = Len(s) - 1
         /\ \A k \in 1..(Len(s) - 1) :
              RemoveAt(s, i)[k] = IF k < i THEN s[k] ELSE s[k + 1]
  <1> DEFINE a == SubSeq(s, 1, i - 1)
             b == SubSeq(s, i + 1, Len(s))
  <1>1. i \in 1..Len(s) /\ Len(s) \in Nat
    OBVIOUS
  <1>2. a \in Seq(S) /\ Len(a) = i - 1 /\ \A k \in 1..(i - 1) : a[k] = s[k]
    BY <1>1
  <1>3. b \in Seq(S) /\ Len(b) = Len(s) - i
        /\ \A k \in 1..(Len(s) - i) : b[k] = s[i + k]
    BY <1>1
  <1> HIDE DEF a, b
  <1>4. /\ a \o b \in Seq(S)
        /\ Len(a \o b) = Len(a) + Len(b)
        /\ \A k \in 1..(Len(a) + Len(b)) :
             (a \o b)[k] = IF k <= Len(a) THEN a[k] ELSE b[k - Len(a)]
    BY <1>2, <1>3, ConcatProperties
  <1>5. Len(a) + Len(b) = Len(s) - 1
    BY <1>1, <1>2, <1>3
  <1>6. ASSUME NEW k \in 1..(Len(s) - 1)
        PROVE  (a \o b)[k] = IF k < i THEN s[k] ELSE s[k + 1]
    <2>1. CASE k < i
      <3>1. k <= Len(a) /\ k \in 1..(i - 1)
        BY <2>1, <1>1, <1>2
      <3>2. QED BY <3>1, <2>1, <1>2, <1>4, <1>5
    <2>2. CASE ~(k < i)
      <3>1. /\ ~(k <= Len(a))
            /\ k - Len(a) \in 1..(Len(s) - i)
            /\ i + (k - Len(a)) = k + 1
        BY <2>2, <1>1, <1>2
      <3>2. b[k - Len(a)] = s[k + 1]
        BY <3>1, <1>3
      <3>3. QED BY <3>1, <3>2, <2>2, <1>4, <1>5
    <2>3. QED BY <2>1, <2>2
  <1>7. RemoveAt(s, i) = a \o b
    BY DEF RemoveAt, a, b
  <1>8. QED
    BY <1>4, <1>5, <1>6, <1>7
------------------------------------------------------------------------------
(***************************************************************************)
(* Type correctness.                                                       *)
(***************************************************************************)
LEMMA NewRequestType ==
  ASSUME issued \in Nat, NEW t \in Submission, NEW c \in BOOLEAN
  PROVE  NewRequest(t, c) \in Request
  BY DEF NewRequest, Submission, Request

LEMMA SubmissionsType == \A t \in Submissions : t \in Submission
  BY ConstantsAssumption DEF ConstantsAssumption

\* The frames the code pushes are call frames.
LEMMA FrameTypes ==
  /\ NextFrame \in Frame
  /\ ListenerFrame \in Frame
  /\ \A r \in Request, s \in Sources : AcceptFrame(r, s) \in Frame
  /\ TypeOK => \A s \in Sources, f \in Folders, ok \in BOOLEAN :
                 NotifyFrame(s, f, ok) \in Frame
  /\ \A s \in Sources, f \in Folders, ok \in BOOLEAN :
       CopierFrame(s, f, ok) \in Frame
  /\ \A f \in Folders : ReleaseFrame(f) \in Frame
  <1>1. NextFrame \in Frame /\ ListenerFrame \in Frame
    BY DEF Frame
  <1>2. \A r \in Request, s \in Sources : AcceptFrame(r, s) \in Frame
    BY DEF Frame, AcceptFrame, Request
  <1>3. TypeOK => \A s \in Sources, f \in Folders, ok \in BOOLEAN :
                    NotifyFrame(s, f, ok) \in Frame
    BY DEF Frame, NotifyFrame, TypeOK
  <1>4. \A s \in Sources, f \in Folders, ok \in BOOLEAN :
          CopierFrame(s, f, ok) \in Frame
    BY DEF Frame, CopierFrame
  <1>5. \A f \in Folders : ReleaseFrame(f) \in Frame
    BY DEF Frame, ReleaseFrame
  <1>6. QED BY <1>1, <1>2, <1>3, <1>4, <1>5

LEMMA PairOfFrames ==
  \A f, g \in Frame : <<f, g>> \in Seq(Frame)
  OBVIOUS

\* The running call is a frame of its kind, and returning from it leaves
\* call frames behind.
LEMMA CallTypes ==
  ASSUME TypeOK, stack # <<>>
  PROVE  /\ Call \in Frame
         /\ Tail(stack) \in Seq(Frame)
         /\ Call.pc = "accept" =>
              Call \in [pc: {"accept"}, id: Nat,
                        type: {"messages", "folders", "file"},
                        src: Sources, dst: Folders]
         /\ Call.pc = "notify" =>
              Call \in [pc: {"notify"}, src: Sources, dst: Folders,
                        ok: BOOLEAN, left: Nat]
         /\ Call.pc = "copier" =>
              Call \in [pc: {"copier"}, src: Sources, dst: Folders,
                        ok: BOOLEAN]
         /\ Call.pc = "release" => Call \in [pc: {"release"}, dst: Folders]
  <1>1. Call \in Frame /\ Tail(stack) \in Seq(Frame)
    BY DEF TypeOK, Call
  <1>2. QED
    BY <1>1 DEF Frame, NextFrame, ListenerFrame

\* Replacing the running call by well-formed ones keeps the stack well formed.
LEMMA ReturnType ==
  ASSUME TypeOK, NEW s \in Seq(Frame),
         Push(s) \/ (stack # <<>> /\ Return(s))
  PROVE  stack' \in Seq(Frame)
  <1>1. CASE Push(s)
    BY <1>1, ConcatProperties DEF TypeOK, Push
  <1>2. CASE stack # <<>> /\ Return(s)
    BY <1>2, CallTypes, ConcatProperties DEF Return
  <1>3. QED BY <1>1, <1>2

\* What is known of a queued request.
LEMMA QueuedRequest ==
  ASSUME TypeOK, NEW i \in DOMAIN queue
  PROVE  /\ queue[i] \in Request
         /\ queue[i].id \in Nat
         /\ queue[i].src \in Sources
         /\ queue[i].marked \subseteq Nat
         /\ queue[i].sources \in Seq(Sources)
         /\ DOMAIN queue[i].sources \subseteq Nat
         /\ \A j \in DOMAIN queue[i].sources : queue[i].sources[j] \in Sources
  <1>1. queue[i] \in Request
    BY DEF TypeOK
  <1>2. queue[i].sources \in Seq(Sources)
    BY <1>1 DEF Request
  <1>3. QED
    BY <1>1, <1>2 DEF Request

LEMMA ClearRequestType ==
  ASSUME TypeOK, NEW i \in DOMAIN queue, NEW ok \in BOOLEAN,
         NEW rest \in Seq(Frame), ClearRequest(i, ok, rest)
  PROVE  /\ queue' \in Seq(Request)
         /\ stack' \in Seq(Frame)
         /\ reports' \subseteq [id: Nat, ok: BOOLEAN]
  <1>1. queue[i] \in Request
    BY DEF TypeOK
  <1>2. queue' \in Seq(Request)
    BY RemoveAtFacts DEF ClearRequest, TypeOK
  <1>3. ASSUME queue[i].copier
        PROVE  CopierFrame(queue[i].src, queue[i].dst, ok) \in Frame
    BY <1>1, FrameTypes DEF Request
  <1>4. stack' \in Seq(Frame)
    BY <1>1, <1>3, FrameTypes DEF ClearRequest
  <1>5. reports' \subseteq [id: Nat, ok: BOOLEAN]
    BY <1>1 DEF ClearRequest, TypeOK, Request
  <1>6. QED BY <1>2, <1>4, <1>5

LEMMA DoCopyType ==
  ASSUME TypeOK, NEW r \in Request, DoCopy(r)
  PROVE  /\ queue' \in Seq(Request)
         /\ stack' \in Seq(Frame)
         /\ issued' \in Nat
         /\ begun' = begun /\ reports' = reports
  <1>1. <<NextFrame>> \in Seq(Frame)
    BY FrameTypes
  <1>2. stack' \in Seq(Frame)
    BY <1>1, ReturnType DEF DoCopy, TypeOK
  <1>3. QED
    BY <1>2 DEF DoCopy, TypeOK
------------------------------------------------------------------------------
LEMMA CallerType ==
  ASSUME TypeOK, Caller
  PROVE  TypeOK'
  <1>1. PICK t \in Submissions :
          CopyMessages(t) \/ CopyFolders(t) \/ CopyFileMessage(t)
    BY DEF Caller
  <1>2. NewRequest(t, FALSE) \in Request
    BY NewRequestType, SubmissionsType DEF TypeOK
  <1>3. DoCopy(NewRequest(t, FALSE)) /\ UNCHANGED folderVars
    BY <1>1 DEF CopyMessages, CopyFolders, CopyFileMessage
  <1>4. QED
    BY <1>2, <1>3, DoCopyType DEF TypeOK, folderVars

LEMMA ServiceType ==
  ASSUME TypeOK, Service
  PROVE  TypeOK'
  <1>0. <<>> \in Seq(Frame) /\ <<NextFrame>> \in Seq(Frame)
    BY FrameTypes
  <1>1. CASE NothingToCopy
    BY <1>0, <1>1, ReturnType DEF NothingToCopy, Running, TypeOK, folderVars
  <1>2. CASE StartNothing
    <2>1. begun' \subseteq Nat
      BY <1>2, QueuedRequest DEF StartNothing, TypeOK
    <2>2. QED
      BY <2>1, <1>0, <1>2, ReturnType
      DEF StartNothing, Running, TypeOK, folderVars
  <1>3. CASE StartSource
    <2>0. PICK i \in DOMAIN queue : \E j \in DOMAIN queue[i].sources :
            /\ queue' = [queue EXCEPT ![i].marked = @ \cup {j}]
            /\ begun' = begun \cup {queue[i].id}
            /\ Return(<<AcceptFrame(queue[i], queue[i].sources[j])>>)
      BY <1>3 DEF StartSource
    <2>1. PICK j \in DOMAIN queue[i].sources :
            /\ queue' = [queue EXCEPT ![i].marked = @ \cup {j}]
            /\ begun' = begun \cup {queue[i].id}
            /\ Return(<<AcceptFrame(queue[i], queue[i].sources[j])>>)
      BY <2>0
    <2>2. queue[i] \in Request /\ queue[i].sources[j] \in Sources /\ j \in Nat
      BY QueuedRequest
    <2>3. queue' \in Seq(Request)
      <3>1. [queue[i] EXCEPT !.marked = @ \cup {j}] \in Request
        BY <2>2 DEF Request
      <3>2. queue' = [queue EXCEPT ![i] = [queue[i] EXCEPT !.marked = @ \cup {j}]]
        BY <2>1
      <3>3. QED BY <3>1, <3>2, ExceptSeq DEF TypeOK
    <2>4. stack' \in Seq(Frame)
      <3>1. <<AcceptFrame(queue[i], queue[i].sources[j])>> \in Seq(Frame)
        BY <2>2, FrameTypes
      <3>2. QED BY <3>1, <1>3, <2>1, ReturnType DEF StartSource, Running
    <2>5. begun' \subseteq Nat
      BY <2>1, <2>2 DEF TypeOK, Request
    <2>6. QED
      BY <2>3, <2>4, <2>5, <1>3 DEF StartSource, TypeOK, folderVars
  <1>4. CASE StartFile
    <2>1. PICK i \in DOMAIN queue :
            /\ queue[i].type = "file"
            /\ queue' = [queue EXCEPT ![i].marked = DOMAIN queue[i].sources,
                                      ![i].processed = TRUE]
            /\ begun' = begun \cup {queue[i].id}
            /\ Return(<<AcceptFrame(queue[i], queue[i].src)>>)
      BY <1>4 DEF StartFile
    <2>2. /\ queue[i] \in Request /\ queue[i].src \in Sources
          /\ DOMAIN queue[i].sources \subseteq Nat
      BY QueuedRequest
    <2>3. queue' \in Seq(Request)
      <3>1. [queue[i] EXCEPT !.marked = DOMAIN queue[i].sources,
                             !.processed = TRUE] \in Request
        BY <2>2 DEF Request
      <3>2. queue' = [queue EXCEPT ![i] =
                        [queue[i] EXCEPT !.marked = DOMAIN queue[i].sources,
                                         !.processed = TRUE]]
        BY <2>1
      <3>3. QED BY <3>1, <3>2, ExceptSeq DEF TypeOK
    <2>4. stack' \in Seq(Frame)
      <3>1. <<AcceptFrame(queue[i], queue[i].src)>> \in Seq(Frame)
        BY <2>2, FrameTypes
      <3>2. QED BY <3>1, <1>4, <2>1, ReturnType DEF StartFile, Running
    <2>5. begun' \subseteq Nat
      BY <2>1, <2>2 DEF TypeOK, Request
    <2>6. QED
      BY <2>3, <2>4, <2>5, <1>4 DEF StartFile, TypeOK, folderVars
  <1>5. CASE NotifyCompletion
    <2>1. PICK i \in DOMAIN queue :
            /\ ClearsMatch(i, Call)
            /\ ClearRequest(i, Call.ok,
                            <<[Call EXCEPT !.left = @ - 1]>> \o Tail(stack))
      BY <1>5 DEF NotifyCompletion
    <2>2. Call \in [pc: {"notify"}, src: Sources, dst: Folders,
                    ok: BOOLEAN, left: Nat]
      BY <1>5, CallTypes DEF NotifyCompletion, Running
    <2>3. Call.left - 1 \in Nat
      BY <2>1, <2>2 DEF ClearsMatch, TypeOK
    <2>4. [Call EXCEPT !.left = @ - 1] \in Frame
      BY <2>2, <2>3 DEF Frame
    <2>5. <<[Call EXCEPT !.left = @ - 1]>> \o Tail(stack) \in Seq(Frame)
      BY <1>5, <2>4, CallTypes, ConcatProperties DEF NotifyCompletion, Running
    <2>6. /\ queue' \in Seq(Request)
          /\ stack' \in Seq(Frame)
          /\ reports' \subseteq [id: Nat, ok: BOOLEAN]
      BY <2>1, <2>2, <2>5, ClearRequestType
    <2>7. QED
      BY <2>6, <1>5 DEF NotifyCompletion, TypeOK, folderVars
  <1>6. CASE NotifyDone
    BY <1>0, <1>6, ReturnType DEF NotifyDone, Running, TypeOK, folderVars
  <1>7. CASE ListenerReturns
    BY <1>0, <1>7, ReturnType DEF ListenerReturns, Running, TypeOK, folderVars
  <1>8. QED
    BY <1>1, <1>2, <1>3, <1>4, <1>5, <1>6, <1>7 DEF Service

\* A folder told of a copy it knows tells the service about that copy.
LEMMA CopyStateType ==
  ASSUME TypeOK, NEW f \in Folders
  PROVE  /\ copyState[f] # NoCopy => copyState[f].src \in Sources
         /\ \A c \in {NoCopy} \cup [id: Nat, src: Sources] :
              [copyState EXCEPT ![f] = c]
                \in [Folders -> {NoCopy} \cup [id: Nat, src: Sources]]
  BY DEF TypeOK

LEMMA NotifyType ==
  ASSUME TypeOK, NEW src \in Sources, NEW f \in Folders, NEW ok \in BOOLEAN,
         stack # <<>>, Return(<<NotifyFrame(src, f, ok)>>)
  PROVE  stack' \in Seq(Frame)
  <1>1. <<NotifyFrame(src, f, ok)>> \in Seq(Frame)
    BY FrameTypes
  <1>2. QED BY <1>1, ReturnType

LEMMA AcceptType ==
  ASSUME TypeOK, AcceptAsync \/ AcceptSync \/ AcceptBusy \/ GiveUpCopy
  PROVE  TypeOK'
  <1>0. /\ stack # <<>>
        /\ Call \in [pc: {"accept"}, id: Nat,
                     type: {"messages", "folders", "file"},
                     src: Sources, dst: Folders]
    BY CallTypes
    DEF AcceptAsync, AcceptSync, AcceptBusy, GiveUpCopy, Accepting, Running
  <1>1. \A ok \in BOOLEAN : Told(ok) \subseteq BOOLEAN
    BY DEF Told
  <1>2. CASE AcceptAsync
    <2>1. stack' \in Seq(Frame)
      <3>1. <<>> \in Seq(Frame)
        OBVIOUS
      <3>2. QED BY <3>1, <1>0, <1>2, ReturnType DEF AcceptAsync
    <2>2. copyState' \in [Folders -> {NoCopy} \cup [id: Nat, src: Sources]]
      BY <1>0, <1>2, CopyStateType DEF AcceptAsync, Copy
    <2>3. transfers' \subseteq [id: Nat, src: Sources, dst: Folders,
                                kind: {"stream", "move"}]
      BY <1>0, <1>2 DEF AcceptAsync, Transfer, TypeOK
    <2>4. QED
      BY <2>1, <2>2, <2>3, <1>2 DEF AcceptAsync, TypeOK
  <1>3. CASE AcceptSync
    <2>1. PICK ok \in BOOLEAN : \E told \in Told(ok) :
            /\ ended' = ended \cup {End(Call.id, Call.src, ok)}
            /\ Return(<<NotifyFrame(Call.src, Call.dst, told)>>)
      BY <1>3 DEF AcceptSync
    <2>2. stack' \in Seq(Frame)
      BY <2>1, <1>0, <1>1, NotifyType
    <2>3. ended' \subseteq [id: Nat, src: Sources, ok: BOOLEAN]
      BY <2>1, <1>0 DEF End, TypeOK
    <2>4. QED
      BY <2>2, <2>3, <1>3 DEF AcceptSync, TypeOK
  <1>4. CASE AcceptBusy
    <2>1. PICK ok \in BOOLEAN : \E told \in Told(ok) :
            /\ ended' = ended \cup {End(Call.id, Call.src, ok)}
            /\ Return(<<NotifyFrame(Call.src, Call.dst, told)>>)
      BY <1>4 DEF AcceptBusy
    <2>2. stack' \in Seq(Frame)
      BY <2>1, <1>0, <1>1, NotifyType
    <2>3. ended' \subseteq [id: Nat, src: Sources, ok: BOOLEAN]
      BY <2>1, <1>0 DEF End, TypeOK
    <2>4. copyState' \in [Folders -> {NoCopy} \cup [id: Nat, src: Sources]]
      BY <1>0, <1>4, CopyStateType DEF AcceptBusy
    <2>5. QED
      BY <2>2, <2>3, <2>4, <1>4 DEF AcceptBusy, TypeOK
  <1>5. CASE GiveUpCopy
    <2>1. stack' \in Seq(Frame)
      <3>1. <<>> \in Seq(Frame)
        OBVIOUS
      <3>2. QED BY <3>1, <1>0, <1>5, ReturnType DEF GiveUpCopy
    <2>2. QED
      BY <2>1, <1>5 DEF GiveUpCopy, TypeOK, folderVars
  <1>6. QED
    BY <1>2, <1>3, <1>4, <1>5

LEMMA AcceptFolderType ==
  ASSUME TypeOK, NEW new \in Folders,
         \/ MoveFolderLocal(new) \/ CopyFolderAcrossServer(new)
         \/ CopyEmptyFolder(new) \/ RefuseFolder(new) \/ IgnoreFolder(new)
         \/ MoveFolderImap(new) \/ StartCopier(new) \/ CopyFolderSync(new)
  PROVE  TypeOK'
  <1>0. /\ stack # <<>>
        /\ Tail(stack) \in Seq(Frame)
        /\ Call \in [pc: {"accept"}, id: Nat,
                     type: {"messages", "folders", "file"},
                     src: Sources, dst: Folders]
    BY CallTypes
    DEF MoveFolderLocal, CopyFolderAcrossServer, CopyEmptyFolder, RefuseFolder,
        IgnoreFolder, MoveFolderImap, StartCopier, CopyFolderSync,
        AcceptingFolder, Running
  <1>e. \A ok \in BOOLEAN :
          ended \cup {End(Call.id, Call.src, ok)}
            \subseteq [id: Nat, src: Sources, ok: BOOLEAN]
    BY <1>0 DEF End, TypeOK
  <1>c. \A f \in Folders, c \in {NoCopy, Copy(Call.id, Call.src)} :
          [copyState EXCEPT ![f] = c]
            \in [Folders -> {NoCopy} \cup [id: Nat, src: Sources]]
    BY <1>0, CopyStateType DEF Copy
  <1>t. \A f \in Folders, kind \in {"stream", "move"} :
          transfers \cup {Transfer(Call, f, kind)}
            \subseteq [id: Nat, src: Sources, dst: Folders,
                       kind: {"stream", "move"}]
    BY <1>0 DEF Transfer, TypeOK
  <1>r. Return(<<>>) => stack' \in Seq(Frame)
    <2>1. <<>> \in Seq(Frame)
      OBVIOUS
    <2>2. QED BY <2>1, <1>0, ReturnType
  <1>1. CASE MoveFolderLocal(new)
    BY <1>0, <1>e, <1>1, NotifyType DEF MoveFolderLocal, TypeOK
  <1>2. CASE CopyFolderAcrossServer(new)
    BY <1>c, <1>t, <1>r, <1>2 DEF CopyFolderAcrossServer, TypeOK
  <1>3. CASE CopyEmptyFolder(new)
    <2>1. new \in Sources
      BY DEF Sources
    <2>2. QED
      BY <2>1, <1>0, <1>e, <1>3, NotifyType DEF CopyEmptyFolder, TypeOK
  <1>4. CASE RefuseFolder(new)
    <2>1. PICK i \in DOMAIN queue : ClearRequest(i, FALSE, Tail(stack))
      BY <1>4 DEF RefuseFolder
    <2>2. QED
      BY <2>1, <1>0, <1>e, <1>4, ClearRequestType DEF RefuseFolder, TypeOK
  <1>5. CASE IgnoreFolder(new)
    BY <1>r, <1>5 DEF IgnoreFolder, TypeOK, folderVars
  <1>6. CASE MoveFolderImap(new)
    <2>1. CASE copyState[Call.dst] = NoCopy
      BY <2>1, <1>0, <1>c, <1>t, <1>r, <1>6 DEF MoveFolderImap, TypeOK
    <2>2. CASE copyState[Call.dst] # NoCopy
      BY <2>2, <1>0, <1>c, <1>e, <1>6, NotifyType DEF MoveFolderImap, TypeOK
    <2>3. QED BY <2>1, <2>2
  <1>7. CASE StartCopier(new)
    BY <1>0, <1>r, <1>7 DEF StartCopier, TypeOK
  <1>8. CASE CopyFolderSync(new)
    <2>1. PICK ok \in BOOLEAN, told \in BOOLEAN :
            /\ ended' = ended \cup {End(Call.id, Call.src, ok)}
            /\ Return(<<NotifyFrame(Call.src, new, told)>>)
      BY <1>8 DEF CopyFolderSync, Told
    <2>2. stack' \in Seq(Frame)
      BY <2>1, <1>0, NotifyType
    <2>3. QED
      BY <2>1, <2>2, <1>e, <1>8 DEF CopyFolderSync, TypeOK
  <1>9. QED
    BY <1>1, <1>2, <1>3, <1>4, <1>5, <1>6, <1>7, <1>8

LEMMA ReleaseAndCopierType ==
  ASSUME TypeOK, ReleaseCopyState \/ CopierStops
  PROVE  TypeOK'
  <1>0. <<>> \in Seq(Frame) /\ <<ListenerFrame>> \in Seq(Frame)
    BY FrameTypes
  <1>1. CASE ReleaseCopyState
    <2>1. stack # <<>> /\ Call.dst \in Folders
      BY <1>1, CallTypes DEF ReleaseCopyState, Running
    <2>2. stack' \in Seq(Frame)
      BY <2>1, <1>0, <1>1, ReturnType DEF ReleaseCopyState
    <2>3. QED
      BY <2>1, <2>2, <1>1, CopyStateType DEF ReleaseCopyState, TypeOK
  <1>2. CASE CopierStops
    <2>1. /\ stack # <<>>
          /\ Call.src \in Sources /\ Call.dst \in Folders
      BY <1>2, CallTypes DEF CopierStops, Running
    <2>2. stack' \in Seq(Frame)
      BY <2>1, <1>0, <1>2, ReturnType, NotifyType DEF CopierStops
    <2>3. QED
      BY <2>1, <2>2, <1>2, CopyStateType DEF CopierStops, TypeOK
  <1>3. QED BY <1>1, <1>2

LEMMA PushNotifyType ==
  ASSUME TypeOK, NEW src \in Sources, NEW f \in Folders, NEW ok \in BOOLEAN,
         Push(<<NotifyFrame(src, f, ok)>>)
  PROVE  stack' \in Seq(Frame)
  <1>1. <<NotifyFrame(src, f, ok)>> \in Seq(Frame)
    BY FrameTypes
  <1>2. QED BY <1>1, ReturnType

LEMMA CompletionType ==
  ASSUME TypeOK, Completion
  PROVE  TypeOK'
  <1>0. \A ok \in BOOLEAN : Told(ok) \subseteq BOOLEAN
    BY DEF Told
  <1>1. ASSUME NEW t \in transfers, NEW ok \in BOOLEAN, TransferEnds(t, ok)
        PROVE  TypeOK'
    <2>1. t.dst \in Folders /\ End(t.id, t.src, ok) \in [id: Nat, src: Sources,
                                                         ok: BOOLEAN]
      BY DEF TypeOK, End
    <2>2. stack' \in Seq(Frame)
      <3>1. CASE copyState[t.dst] = NoCopy
        BY <3>1, <1>1 DEF TransferEnds, TypeOK
      <3>2. CASE copyState[t.dst] # NoCopy
        <4>1. PICK told \in Told(ok) :
                Push(<<NotifyFrame(copyState[t.dst].src, t.dst, told)>>)
          BY <3>2, <1>1 DEF TransferEnds
        <4>2. copyState[t.dst].src \in Sources
          BY <3>2, <2>1, CopyStateType
        <4>3. QED BY <4>1, <4>2, <2>1, <1>0, PushNotifyType
      <3>3. QED BY <3>1, <3>2
    <2>3. QED
      BY <2>1, <2>2, <1>1, CopyStateType DEF TransferEnds, TypeOK
  <1>2. ASSUME NEW t \in transfers, NEW ok \in BOOLEAN, MoveEnds(t, ok)
        PROVE  TypeOK'
    <2>1. t.dst \in Folders /\ End(t.id, t.src, ok) \in [id: Nat, src: Sources,
                                                         ok: BOOLEAN]
      BY DEF TypeOK, End
    <2>2. CASE /\ copyState[t.dst] # NoCopy
               /\ \E new \in Folders :
                    Push(<<NotifyFrame(copyState[t.dst].src, new, ok),
                           ReleaseFrame(t.dst)>>)
               /\ UNCHANGED copyState
      <3>1. PICK new \in Folders :
              Push(<<NotifyFrame(copyState[t.dst].src, new, ok),
                     ReleaseFrame(t.dst)>>)
        BY <2>2
      <3>2. <<NotifyFrame(copyState[t.dst].src, new, ok),
              ReleaseFrame(t.dst)>> \in Seq(Frame)
        <4>1. copyState[t.dst].src \in Sources
          BY <2>1, <2>2, CopyStateType
        <4>2. NotifyFrame(copyState[t.dst].src, new, ok) \in Frame
          BY <4>1, FrameTypes
        <4>3. ReleaseFrame(t.dst) \in Frame
          BY <2>1, FrameTypes
        <4>4. QED BY <4>2, <4>3, PairOfFrames
      <3>3. stack' \in Seq(Frame)
        BY <3>1, <3>2, ReturnType
      <3>4. QED
        BY <3>3, <2>1, <2>2, <1>2 DEF MoveEnds, TypeOK
    <2>3. CASE /\ copyState' = [copyState EXCEPT ![t.dst] = NoCopy]
               /\ UNCHANGED stack
      BY <2>1, <2>3, <1>2, CopyStateType DEF MoveEnds, TypeOK
    <2>4. QED BY <2>2, <2>3, <1>2 DEF MoveEnds
  <1>3. ASSUME NEW c \in copiers,
               FolderCreated(c) \/ EmptyFolderCreated(c) \/ FolderCreationFails(c)
        PROVE  TypeOK'
    <2>1. c.src \in Sources /\ c.dst \in Folders
      BY DEF TypeOK
    <2>2. CASE FolderCreated(c)
      <3> DEFINE t == [type |-> "messages", src |-> c.src, dst |-> c.dst,
                       sources |-> <<c.src>>]
      <3>1. t \in Submission
        BY <2>1 DEF Submission
      <3>2. NewRequest(t, TRUE) \in Request
        BY <3>1, NewRequestType DEF TypeOK
      <3> HIDE DEF t
      <3>3. DoCopy(NewRequest(t, TRUE))
        BY <2>2 DEF FolderCreated, t
      <3>4. QED
        BY <3>2, <3>3, <2>2, DoCopyType DEF FolderCreated, TypeOK
    <2>3. CASE EmptyFolderCreated(c)
      BY <2>1, <2>3, PushNotifyType, CopyStateType
      DEF EmptyFolderCreated, TypeOK
    <2>4. CASE FolderCreationFails(c)
      <3>1. <<ListenerFrame>> \in Seq(Frame)
        BY FrameTypes
      <3>2. stack' \in Seq(Frame)
        BY <3>1, <2>4, ReturnType DEF FolderCreationFails
      <3>3. QED
        BY <3>2, <2>4 DEF FolderCreationFails, TypeOK
    <2>5. QED BY <1>3, <2>2, <2>3, <2>4
  <1>4. QED
    BY <1>1, <1>2, <1>3 DEF Completion

LEMMA AbortType ==
  ASSUME TypeOK, Abort
  PROVE  TypeOK'
  <1>1. PICK i \in DOMAIN queue : AbortFileCopy(queue[i])
    BY DEF Abort
  <1>2. queue[i].src \in Sources /\ queue[i].dst \in Folders
    BY QueuedRequest DEF Request
  <1>3. stack' \in Seq(Frame)
    BY <1>1, <1>2, PushNotifyType DEF AbortFileCopy
  <1>4. QED
    BY <1>1, <1>3 DEF AbortFileCopy, TypeOK, folderVars

\* The queue, the call stack and the folders' copy states are well formed in
\* every state, whatever folders and listeners do.
THEOREM TypeCorrect == Spec => []TypeOK
  <1>1. Init => TypeOK
    BY DEF Init, TypeOK
  <1>2. TypeOK /\ [Next]_vars => TypeOK'
    <2>1. SUFFICES ASSUME TypeOK, [Next]_vars
                   PROVE  TypeOK'
      OBVIOUS
    <2>2. CASE Caller
      BY <2>1, <2>2, CallerType
    <2>3. CASE Service
      BY <2>1, <2>3, ServiceType
    <2>4. CASE Destination
      BY <2>1, <2>4, AcceptType, AcceptFolderType, ReleaseAndCopierType
      DEF Destination
    <2>5. CASE Completion
      BY <2>1, <2>5, CompletionType
    <2>6. CASE Abort
      BY <2>1, <2>6, AbortType
    <2>7. CASE UNCHANGED vars
      BY <2>1, <2>7 DEF TypeOK, vars
    <2>8. QED
      BY <2>1, <2>2, <2>3, <2>4, <2>5, <2>6, <2>7 DEF Next
  <1>3. QED
    BY <1>1, <1>2, PTL DEF Spec
------------------------------------------------------------------------------
(***************************************************************************)
(* What a step does to the queue.                                          *)
(***************************************************************************)
\* A request is made: it is new and the last of the queue.
Enqueues(r) ==
  /\ r.id = issued + 1
  /\ r.processed = FALSE
  /\ \A j \in r.marked : r.sources[j] = r.dst
  /\ queue' = Append(queue, r)
  /\ issued' = issued + 1
  /\ UNCHANGED <<begun, reports>>

\* The i-th request is started; it may get marks but is otherwise unchanged,
\* and so are the other requests.
Starts(i) ==
  /\ NextToCopy(i)
  /\ begun' = begun \cup {queue[i].id}
  /\ DOMAIN queue' = DOMAIN queue
  /\ \A k \in DOMAIN queue :
       /\ queue'[k].id = queue[k].id
       /\ queue'[k].dst = queue[k].dst
       /\ queue'[k].sources = queue[k].sources
       /\ k # i => queue'[k] = queue[k]
  /\ UNCHANGED <<issued, reports>>

\* The i-th request is reported to its listener and removed.
Clears(i, ok) ==
  /\ ok => queue[i].processed \/ AllSourcesProcessed(queue[i])
  /\ queue' = RemoveAt(queue, i)
  /\ reports' = reports \cup {[id |-> queue[i].id, ok |-> ok]}
  /\ UNCHANGED <<issued, begun>>

Rests == UNCHANGED <<queue, issued, begun, reports>>

QueueStep ==
  \/ \E r \in Request : Enqueues(r)
  \/ \E i \in DOMAIN queue : Starts(i)
  \/ \E i \in DOMAIN queue, ok \in BOOLEAN : Clears(i, ok)
  \/ Rests

LEMMA DoCopyEnqueues ==
  ASSUME TypeOK, NEW t \in Submission, NEW c \in BOOLEAN,
         DoCopy(NewRequest(t, c))
  PROVE  QueueStep
  <1>1. NewRequest(t, c) \in Request
    BY NewRequestType DEF TypeOK
  <1>2. Enqueues(NewRequest(t, c))
    BY DEF Enqueues, DoCopy, NewRequest
  <1>3. QED BY <1>1, <1>2 DEF QueueStep

LEMMA ServiceQueueStep ==
  ASSUME TypeOK, Service
  PROVE  QueueStep
  <1>1. CASE NothingToCopy \/ NotifyDone \/ ListenerReturns
    BY <1>1 DEF NothingToCopy, NotifyDone, ListenerReturns, QueueStep, Rests
  <1>2. CASE StartNothing
    <2>1. PICK i \in DOMAIN queue :
            NextToCopy(i) /\ begun' = begun \cup {queue[i].id}
      BY <1>2 DEF StartNothing
    <2>2. Starts(i)
      BY <2>1, <1>2 DEF StartNothing, Starts
    <2>3. QED BY <2>2 DEF QueueStep
  <1>3. CASE StartSource
    <2>1. PICK i \in DOMAIN queue : \E j \in DOMAIN queue[i].sources :
            /\ NextToCopy(i)
            /\ queue' = [queue EXCEPT ![i].marked = @ \cup {j}]
            /\ begun' = begun \cup {queue[i].id}
      BY <1>3 DEF StartSource
    <2>2. queue[i] \in Request
      BY QueuedRequest
    <2>3. Starts(i)
      BY <2>1, <2>2, <1>3 DEF StartSource, Starts, Request
    <2>4. QED BY <2>3 DEF QueueStep
  <1>4. CASE StartFile
    <2>1. PICK i \in DOMAIN queue :
            /\ NextToCopy(i)
            /\ queue' = [queue EXCEPT ![i].marked = DOMAIN queue[i].sources,
                                      ![i].processed = TRUE]
            /\ begun' = begun \cup {queue[i].id}
      BY <1>4 DEF StartFile
    <2>2. queue[i] \in Request
      BY QueuedRequest
    <2>3. Starts(i)
      BY <2>1, <2>2, <1>4 DEF StartFile, Starts, Request
    <2>4. QED BY <2>3 DEF QueueStep
  <1>5. CASE NotifyCompletion
    <2>1. PICK i \in DOMAIN queue :
            /\ ClearsMatch(i, Call)
            /\ ClearRequest(i, Call.ok,
                            <<[Call EXCEPT !.left = @ - 1]>> \o Tail(stack))
      BY <1>5 DEF NotifyCompletion
    <2>2. Call.ok \in BOOLEAN
      BY <1>5, CallTypes DEF NotifyCompletion, Running
    <2>3. Clears(i, Call.ok)
      BY <2>1, <1>5 DEF NotifyCompletion, ClearsMatch, ClearRequest, Clears
    <2>4. QED BY <2>2, <2>3 DEF QueueStep
  <1>6. QED
    BY <1>1, <1>2, <1>3, <1>4, <1>5 DEF Service

LEMMA DestinationQueueStep ==
  ASSUME TypeOK, Destination
  PROVE  QueueStep
  <1>1. CASE AcceptAsync \/ AcceptSync \/ AcceptBusy \/ GiveUpCopy
    BY <1>1 DEF AcceptAsync, AcceptSync, AcceptBusy, GiveUpCopy, QueueStep, Rests
  <1>2. CASE ReleaseCopyState \/ CopierStops
    BY <1>2 DEF ReleaseCopyState, CopierStops, QueueStep, Rests
  <1>3. ASSUME NEW new \in Folders, RefuseFolder(new)
        PROVE  QueueStep
    <2>1. PICK i \in DOMAIN queue : ClearRequest(i, FALSE, Tail(stack))
      BY <1>3 DEF RefuseFolder
    <2>2. Clears(i, FALSE)
      BY <2>1, <1>3 DEF RefuseFolder, ClearRequest, Clears
    <2>3. QED BY <2>2 DEF QueueStep
  <1>4. ASSUME NEW new \in Folders,
               \/ MoveFolderLocal(new) \/ CopyFolderAcrossServer(new)
               \/ CopyEmptyFolder(new) \/ IgnoreFolder(new)
               \/ MoveFolderImap(new) \/ StartCopier(new) \/ CopyFolderSync(new)
        PROVE  QueueStep
    BY <1>4 DEF MoveFolderLocal, CopyFolderAcrossServer, CopyFolderSync,
                CopyEmptyFolder, IgnoreFolder, MoveFolderImap, StartCopier, QueueStep, Rests
  <1>5. QED
    BY <1>1, <1>2, <1>3, <1>4 DEF Destination

LEMMA NextQueueStep ==
  ASSUME TypeOK, [Next]_vars
  PROVE  QueueStep
  <1>1. CASE Caller
    <2>1. PICK t \in Submissions :
            CopyMessages(t) \/ CopyFolders(t) \/ CopyFileMessage(t)
      BY <1>1 DEF Caller
    <2>2. DoCopy(NewRequest(t, FALSE))
      BY <2>1 DEF CopyMessages, CopyFolders, CopyFileMessage
    <2>3. QED BY <2>2, DoCopyEnqueues, SubmissionsType
  <1>2. CASE Service
    BY <1>2, ServiceQueueStep
  <1>3. CASE Destination
    BY <1>3, DestinationQueueStep
  <1>4. CASE Completion
    <2>1. ASSUME NEW t \in transfers, NEW ok \in BOOLEAN,
                 TransferEnds(t, ok) \/ MoveEnds(t, ok)
          PROVE  QueueStep
      BY <2>1 DEF TransferEnds, MoveEnds, QueueStep, Rests
    <2>2. ASSUME NEW c \in copiers, FolderCreated(c)
          PROVE  QueueStep
      <3> DEFINE t == [type |-> "messages", src |-> c.src, dst |-> c.dst,
                       sources |-> <<c.src>>]
      <3>1. c.src \in Sources /\ c.dst \in Folders
        BY DEF TypeOK
      <3>2. t \in Submission
        BY <3>1 DEF Submission
      <3> HIDE DEF t
      <3>3. DoCopy(NewRequest(t, TRUE))
        BY <2>2 DEF FolderCreated, t
      <3>4. QED BY <3>2, <3>3, DoCopyEnqueues
    <2>3. ASSUME NEW c \in copiers,
                 EmptyFolderCreated(c) \/ FolderCreationFails(c)
          PROVE  QueueStep
      BY <2>3 DEF EmptyFolderCreated, FolderCreationFails, QueueStep, Rests
    <2>4. QED BY <1>4, <2>1, <2>2, <2>3 DEF Completion
  <1>5. CASE Abort
    BY <1>5 DEF Abort, AbortFileCopy, QueueStep, Rests
  <1>6. CASE UNCHANGED vars
    BY <1>6 DEF vars, QueueStep, Rests
  <1>7. QED
    BY <1>1, <1>2, <1>3, <1>4, <1>5, <1>6 DEF Next
------------------------------------------------------------------------------
(***************************************************************************)
(* First come, first served.  BegunIsOldest alone is not inductive: it     *)
(* needs that ids tell requests apart and grow along the queue, and that   *)
(* no id is known before it is issued.  DoneWasBegun is what lets success  *)
(* be reported.                                                            *)
(***************************************************************************)
IdsIssued ==
  /\ \A i \in DOMAIN queue : queue[i].id \in 1..issued
  /\ begun \subseteq 1..issued

IdsOrdered ==
  \A i, j \in DOMAIN queue : i < j => queue[i].id < queue[j].id

DoneWasBegun ==
  \A i \in DOMAIN queue :
    \/ queue[i].id \in begun
    \/ /\ ~queue[i].processed
       /\ \A j \in queue[i].marked : queue[i].sources[j] = queue[i].dst

IInv == TypeOK /\ IdsIssued /\ IdsOrdered /\ BegunIsOldest /\ DoneWasBegun

\* "always FIFO": what DoNextCopy stops at is the oldest request for its
\* destination.  An older one is not processed, or its destination would be
\* in activeTargets; then it was skipped because an even older one is, and
\* that one keeps the destination in activeTargets too.
LEMMA NextToCopyIsOldest ==
  ASSUME TypeOK, NEW i \in DOMAIN queue, NextToCopy(i),
         NEW k \in DOMAIN queue, queue[k].dst = queue[i].dst
  PROVE  i <= k
  <1>0. DOMAIN queue = 1..Len(queue) /\ Len(queue) \in Nat
    BY DEF TypeOK
  <1>1. SUFFICES ASSUME k < i PROVE FALSE
    BY <1>0
  <1>2. k \in 1..(i - 1)
    BY <1>0, <1>1
  <1>3. ~IsProcessed(queue[k]) /\ ~Startable(k)
    BY <1>2 DEF NextToCopy, Startable
  <1>4. PICK m \in 1..(k - 1) :
          IsProcessed(queue[m]) /\ queue[m].dst = queue[k].dst
    BY <1>3 DEF Startable
  <1>5. m \in 1..(i - 1)
    BY <1>0, <1>2, <1>4
  <1>6. QED
    BY <1>4, <1>5 DEF NextToCopy, Startable

LEMMA EnqueueKeepsIInv ==
  ASSUME IInv, NEW r \in Request, Enqueues(r), TypeOK'
  PROVE  IInv'
  <1>0. /\ Len(queue) \in Nat /\ issued \in Nat
        /\ DOMAIN queue = 1..Len(queue)
        /\ DOMAIN queue' = 1..(Len(queue) + 1)
        /\ \A i \in DOMAIN queue : queue'[i] = queue[i] /\ queue[i].id \in Nat
        /\ queue'[Len(queue) + 1] = r
    BY QueuedRequest DEF IInv, TypeOK, Enqueues
  <1>1. IdsIssued'
    BY <1>0 DEF IInv, IdsIssued, Enqueues
  <1>2. IdsOrdered'
    BY <1>0 DEF IInv, IdsIssued, IdsOrdered, Enqueues
  <1>3. BegunIsOldest'
    BY <1>0 DEF IInv, IdsIssued, BegunIsOldest, Enqueues
  <1>4. DoneWasBegun'
    BY <1>0 DEF IInv, DoneWasBegun, Enqueues
  <1>5. QED
    BY <1>1, <1>2, <1>3, <1>4 DEF IInv

LEMMA StartKeepsIInv ==
  ASSUME IInv, NEW i \in DOMAIN queue, Starts(i), TypeOK'
  PROVE  IInv'
  <1>0. /\ DOMAIN queue' = DOMAIN queue
        /\ DOMAIN queue \subseteq Nat
        /\ \A k \in DOMAIN queue : queue[k].id \in Nat
        /\ issued' = issued
    BY QueuedRequest DEF IInv, TypeOK, Starts
  <1>1. IdsIssued'
    BY <1>0 DEF IInv, IdsIssued, Starts
  <1>2. IdsOrdered'
    BY <1>0 DEF IInv, IdsOrdered, Starts
  <1>3. BegunIsOldest'
    <2>1. SUFFICES ASSUME NEW k \in DOMAIN queue, NEW j \in DOMAIN queue,
                          k < j, queue[k].dst = queue[j].dst
                   PROVE  queue[j].id \notin begun'
      BY <1>0 DEF BegunIsOldest, Starts
    <2>2. queue[j].id \notin begun
      BY <2>1 DEF IInv, BegunIsOldest
    <2>3. j # i
      BY <1>0, <2>1, NextToCopyIsOldest DEF IInv, Starts
    <2>4. queue[j].id # queue[i].id
      BY <1>0, <2>3 DEF IInv, IdsOrdered
    <2>5. QED
      BY <2>2, <2>4 DEF Starts
  <1>4. DoneWasBegun'
    <2>1. SUFFICES ASSUME NEW k \in DOMAIN queue
                   PROVE  \/ queue'[k].id \in begun'
                          \/ /\ ~queue'[k].processed
                             /\ \A j \in queue'[k].marked :
                                  queue'[k].sources[j] = queue'[k].dst
      BY <1>0 DEF DoneWasBegun
    <2>2. CASE k = i
      BY <2>2 DEF Starts
    <2>3. CASE k # i
      BY <2>3 DEF Starts, IInv, DoneWasBegun
    <2>4. QED BY <2>2, <2>3
  <1>5. QED
    BY <1>1, <1>2, <1>3, <1>4 DEF IInv

\* The requests behind the cleared one move up by one.
LEMMA ClearedQueue ==
  ASSUME TypeOK, NEW i \in DOMAIN queue, NEW ok \in BOOLEAN, Clears(i, ok)
  PROVE  /\ Len(queue) \in Nat
         /\ DOMAIN queue = 1..Len(queue)
         /\ DOMAIN queue' = 1..(Len(queue) - 1)
         /\ \A k \in DOMAIN queue' :
              queue'[k] = queue[IF k < i THEN k ELSE k + 1]
  <1>1. /\ queue \in Seq(Request)
        /\ Len(queue) \in Nat /\ DOMAIN queue = 1..Len(queue)
    BY DEF TypeOK
  <1>2. /\ queue' \in Seq(Request)
        /\ Len(queue') = Len(queue) - 1
        /\ \A k \in 1..(Len(queue) - 1) :
             queue'[k] = queue[IF k < i THEN k ELSE k + 1]
    BY <1>1, RemoveAtFacts DEF Clears
  <1>3. QED
    BY <1>1, <1>2

LEMMA ClearKeepsIInv ==
  ASSUME IInv, NEW i \in DOMAIN queue, NEW ok \in BOOLEAN, Clears(i, ok), TypeOK'
  PROVE  IInv'
  <1> DEFINE old(k) == IF k < i THEN k ELSE k + 1
  <1>0. /\ \A k \in DOMAIN queue' :
             old(k) \in DOMAIN queue /\ queue'[k] = queue[old(k)]
        /\ \A k \in DOMAIN queue', j \in DOMAIN queue' : k < j => old(k) < old(j)
    BY ClearedQueue DEF IInv
  <1>1. /\ \A k \in DOMAIN queue : queue[k].id \in Nat
        /\ issued' = issued /\ begun' = begun
    BY QueuedRequest DEF IInv, Clears
  <1> HIDE DEF old
  <1>2. IdsIssued'
    BY <1>0, <1>1 DEF IInv, IdsIssued
  <1>3. IdsOrdered'
    BY <1>0, <1>1 DEF IInv, IdsOrdered
  <1>4. BegunIsOldest'
    BY <1>0, <1>1 DEF IInv, BegunIsOldest
  <1>5. DoneWasBegun'
    BY <1>0, <1>1 DEF IInv, DoneWasBegun
  <1>6. QED
    BY <1>2, <1>3, <1>4, <1>5 DEF IInv

LEMMA IInvInductive ==
  ASSUME IInv, TypeOK', [Next]_vars
  PROVE  IInv'
  <1>1. QueueStep
    BY NextQueueStep DEF IInv
  <1>2. CASE Rests
    BY <1>2 DEF Rests, IInv, IdsIssued, IdsOrdered, BegunIsOldest, DoneWasBegun
  <1>3. QED
    BY <1>1, <1>2, EnqueueKeepsIInv, StartKeepsIInv, ClearKeepsIInv
    DEF QueueStep

LEMMA InductiveInvariant == Spec => []IInv
  <1>1. Init /\ TypeOK => IInv
    BY DEF Init, IInv, IdsIssued, IdsOrdered, BegunIsOldest, DoneWasBegun
  <1>2. IInv /\ TypeOK' /\ [Next]_vars => IInv'
    BY IInvInductive
  <1>3. QED
    BY <1>1, <1>2, TypeCorrect, PTL DEF Spec

\* At every moment at most one of the queued requests for a destination has
\* been started, and it is the oldest: no reordering of failures, re-entrant
\* listeners and late completions makes the service copy two requests into
\* one folder or let a younger one overtake.
THEOREM FirstComeFirstServed == Spec => []BegunIsOldest
  <1>1. IInv => BegunIsOldest
    BY DEF IInv
  <1>2. QED
    BY <1>1, InductiveInvariant, PTL
------------------------------------------------------------------------------
(***************************************************************************)
(* The service implements CopyLedger: enqueueing is a Request, starting is *)
(* Serve, clearing is Settle.                                              *)
(***************************************************************************)
Ticket(r) == [id |-> r.id, dst |-> r.dst, vacuous |-> NothingToTransfer(r)]

LEMMA PendingIsTickets == Pending = {Ticket(queue[i]) : i \in DOMAIN queue}
  BY DEF Pending, Ticket

LEMMA EnqueueIsRequest ==
  ASSUME IInv, NEW r \in Request, Enqueues(r)
  PROVE  Ledger!Request(r.dst, NothingToTransfer(r))
  <1>0. /\ Len(queue) \in Nat
        /\ DOMAIN queue = 1..Len(queue)
        /\ DOMAIN queue' = 1..(Len(queue) + 1)
        /\ \A i \in DOMAIN queue : queue'[i] = queue[i]
        /\ queue'[Len(queue) + 1] = r
    BY DEF IInv, TypeOK, Enqueues
  <1>1. Pending' = {Ticket(queue'[i]) : i \in DOMAIN queue'}
    BY DEF Pending, Ticket
  <1>2. Pending' = Pending \cup {Ticket(r)}
    BY <1>0, <1>1, PendingIsTickets
  <1>3. Ticket(r) = [id |-> issued + 1, dst |-> r.dst,
                     vacuous |-> NothingToTransfer(r)]
    BY DEF Ticket, Enqueues
  <1>4. QED
    BY <1>2, <1>3 DEF Enqueues, Ledger!Request

LEMMA StartIsServe ==
  ASSUME IInv, NEW i \in DOMAIN queue, Starts(i)
  PROVE  \E p \in Pending : Ledger!Serve(p)
  <1> DEFINE p == Ticket(queue[i])
  <1>1. p \in Pending
    BY PendingIsTickets
  <1>2. ASSUME NEW q \in Pending, q.dst = p.dst
        PROVE  p.id <= q.id
    <2>1. PICK k \in DOMAIN queue : q = Ticket(queue[k])
      BY PendingIsTickets
    <2>2. queue[k].dst = queue[i].dst
      BY <1>2, <2>1 DEF Ticket
    <2>3. i <= k
      BY <2>2, NextToCopyIsOldest DEF IInv, Starts
    <2>4. queue[i].id \in Nat /\ queue[k].id \in Nat
          /\ i \in Nat /\ k \in Nat
      BY QueuedRequest DEF IInv, TypeOK
    <2>5. queue[i].id <= queue[k].id
      BY <2>3, <2>4 DEF IInv, IdsOrdered
    <2>6. QED BY <2>1, <2>5 DEF Ticket
  <1>3. Pending' = Pending
    <2>1. \A k \in DOMAIN queue : Ticket(queue'[k]) = Ticket(queue[k])
      BY DEF Ticket, NothingToTransfer, Starts
    <2>2. Pending' = {Ticket(queue'[k]) : k \in DOMAIN queue'}
      BY DEF Pending, Ticket
    <2>3. QED BY <2>1, <2>2, PendingIsTickets DEF Starts
  <1>4. begun' = begun \cup {p.id} /\ UNCHANGED <<issued, reports>>
    BY DEF Starts, Ticket
  <1> HIDE DEF p
  <1>5. Ledger!Serve(p)
    BY <1>2, <1>3, <1>4 DEF Ledger!Serve
  <1>6. QED BY <1>1, <1>5

LEMMA ClearIsSettle ==
  ASSUME IInv, NEW i \in DOMAIN queue, NEW ok \in BOOLEAN, Clears(i, ok)
  PROVE  \E p \in Pending : Ledger!Settle(p, ok)
  <1> DEFINE p == Ticket(queue[i])
  <1>1. p \in Pending
    BY PendingIsTickets
  <1>2. ok => p.id \in begun \/ p.vacuous
    <2>1. SUFFICES ASSUME ok, queue[i].id \notin begun
                   PROVE  NothingToTransfer(queue[i])
      BY DEF Ticket
    <2>2. /\ ~queue[i].processed
          /\ \A j \in queue[i].marked : queue[i].sources[j] = queue[i].dst
      BY <2>1 DEF IInv, DoneWasBegun
    <2>3. queue[i].marked = DOMAIN queue[i].sources
      BY <2>1, <2>2 DEF Clears, AllSourcesProcessed
    <2>4. QED
      BY <2>2, <2>3 DEF NothingToTransfer
  <1>3. Pending' = Pending \ {p}
    <2>1. /\ Len(queue) \in Nat
          /\ DOMAIN queue = 1..Len(queue)
          /\ DOMAIN queue' = 1..(Len(queue) - 1)
          /\ \A k \in DOMAIN queue' :
               queue'[k] = queue[IF k < i THEN k ELSE k + 1]
      BY ClearedQueue DEF IInv
    <2>2. \A k \in DOMAIN queue : k # i => Ticket(queue[k]) # p
      BY <2>1, QueuedRequest DEF IInv, IdsOrdered, Ticket
    <2>3. \A k \in DOMAIN queue' :
            \E m \in DOMAIN queue : m # i /\ queue'[k] = queue[m]
      BY <2>1
    <2>4. \A m \in DOMAIN queue :
            m # i => \E k \in DOMAIN queue' : queue'[k] = queue[m]
      <3>1. ASSUME NEW m \in DOMAIN queue, m # i
            PROVE  \E k \in DOMAIN queue' : queue'[k] = queue[m]
        <4>1. CASE m < i
          BY <4>1, <2>1
        <4>2. CASE m > i
          <5>1. m - 1 \in DOMAIN queue' /\ queue'[m - 1] = queue[m]
            BY <4>2, <2>1
          <5>2. QED BY <5>1
        <4>3. QED BY <3>1, <4>1, <4>2, <2>1
      <3>2. QED BY <3>1
    <2>5. Pending' = {Ticket(queue'[k]) : k \in DOMAIN queue'}
      BY DEF Pending, Ticket
    <2>6. QED
      BY <2>2, <2>3, <2>4, <2>5, PendingIsTickets
  <1>4. reports' = reports \cup {[id |-> p.id, ok |-> ok]}
        /\ UNCHANGED <<issued, begun>>
    BY DEF Clears, Ticket
  <1> HIDE DEF p
  <1>5. Ledger!Settle(p, ok)
    BY <1>2, <1>3, <1>4 DEF Ledger!Settle
  <1>6. QED BY <1>1, <1>5

\* Seen from its callers the service is the ledger: every destination serves
\* its requests oldest first, each request is reported once, and success is
\* only reported for a request whose copy was started or that had nothing
\* to copy.
THEOREM ServiceImplementsLedger == Spec => LedgerSpec
  <1>1. Init => Ledger!Init
    BY DEF Init, Ledger!Init, Pending
  <1>2. IInv /\ [Next]_vars => [Ledger!Next]_(Ledger!ledger)
    <2>1. SUFFICES ASSUME IInv, [Next]_vars
                   PROVE  Ledger!Next \/ UNCHANGED Ledger!ledger
      OBVIOUS
    <2>2. QueueStep
      BY <2>1, NextQueueStep DEF IInv
    <2>3. ASSUME NEW r \in Request, Enqueues(r)
          PROVE  Ledger!Next
      <3>1. r.dst \in Folders /\ NothingToTransfer(r) \in BOOLEAN
        BY DEF Request, NothingToTransfer
      <3>2. QED
        BY <3>1, <2>1, <2>3, EnqueueIsRequest DEF Ledger!Next
    <2>4. ASSUME NEW i \in DOMAIN queue, Starts(i)
          PROVE  Ledger!Next
      BY <2>1, <2>4, StartIsServe DEF Ledger!Next
    <2>5. ASSUME NEW i \in DOMAIN queue, NEW ok \in BOOLEAN, Clears(i, ok)
          PROVE  Ledger!Next
      BY <2>1, <2>5, ClearIsSettle DEF Ledger!Next
    <2>6. CASE Rests
      BY <2>6 DEF Rests, Ledger!ledger, Pending
    <2>7. QED
      BY <2>2, <2>3, <2>4, <2>5, <2>6 DEF QueueStep
  <1>3. QED
    BY <1>1, <1>2, InductiveInvariant, PTL DEF Spec, LedgerSpec, Ledger!Spec
=============================================================================
