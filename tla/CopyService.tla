----------------------------- MODULE CopyService -----------------------------
(***************************************************************************)
(* The message copy service of the mail back end (nsMsgCopyService) and    *)
(* the destination folders it drives.                                      *)
(*                                                                         *)
(* Everything runs on the main thread, so a step is one uninterrupted      *)
(* stretch of code between two calls into code the service does not own:   *)
(* a destination folder's CopyMessages / CopyFolder / CopyFileMessage, or  *)
(* a listener's OnStopCopy.  Those calls may come straight back into the   *)
(* service, so the C++ call stack is part of the state.                    *)
(***************************************************************************)
EXTENDS Integers, Sequences, FiniteSets, SequencesExt

CONSTANTS
  Folders,      \* message folders
  Files,        \* nsIFile objects handed to CopyFileMessage
  NoFolder,     \* the parent of a server (root) folder
  NoCopy,       \* a folder whose mCopyState is null
  ParentOf,     \* nsIMsgFolder::GetParent; a server folder has NoFolder
  LeafName,     \* nsIMsgFolder::GetName
  Submissions,  \* the copies callers may ask for (see Submission)
  Behaviours,   \* what folders and listeners may do beyond the plain case
  MaxRequests   \* bound: number of requests callers make in a behaviour

(***************************************************************************)
(* Behaviours of the code around the service, switched on run by run:      *)
(*   reenter  a listener starts a copy from its OnStopCopy                 *)
(*   abort    nsMsgComposeAndSend::Abort reports a file copy that waits or *)
(*            runs                                                         *)
(*   refuse   CopyFolder returns an error and notifies nobody              *)
(*   silent   a folder gives a copy up and never notifies                  *)
(*   empty    a folder without messages is copied across servers           *)
(*   copier   an IMAP folder copy runs through nsImapFolderCopyState       *)
(*   move     an IMAP folder is moved within its server                    *)
(***************************************************************************)
AllBehaviours == {"reenter", "abort", "refuse", "silent", "empty", "copier",
                  "move"}

Sources == Folders \cup Files

\* The arguments of the three entry points, after the request was filled in:
\* "sources" is m_copySourceArray, one source folder (or the file) each.
Submission == [type: {"messages", "folders", "file"}, src: Sources,
               dst: Folders, sources: Seq(Sources)]

ASSUME ConstantsAssumption ==
  /\ Folders \cap Files = {}
  /\ NoFolder \notin Folders
  /\ NoCopy \notin [id: Nat, src: Sources]
  /\ ParentOf \in [Folders -> Folders \cup {NoFolder}]
  /\ DOMAIN LeafName = Folders
  /\ Submissions \subseteq Submission
  /\ \A t \in Submissions : t.type # "file" => t.src \in Folders
  /\ Behaviours \subseteq AllBehaviours
  /\ MaxRequests \in Nat

\* The plain case: folders and listeners do nothing unusual, a copy has the one
\* source its caller names, no folder is copied into itself, and nobody copies
\* into a subfolder of a folder that folders are copied into (FindRequest and
\* CopyFolder tell copies apart by that subfolder's parent and name).
PlainCase ==
  /\ Behaviours = {}
  /\ \A t \in Submissions :
       /\ t.type # "file" => t.sources = <<t.src>>
       /\ t.type = "file" => t.src \in Files /\ t.sources \in {<<>>, <<t.src>>}
       /\ t.type = "folders" => t.src # t.dst
  /\ \A t, u \in Submissions : t.type = "folders" => ParentOf[u.dst] # t.dst

VARIABLES
  queue,      \* m_copyRequests, oldest first
  stack,      \* the active calls, innermost first
  copyState,  \* per folder: the copy its mCopyState stands for, or NoCopy
  transfers,  \* copies folders are really carrying out
  copiers,    \* nsImapFolderCopyState objects waiting for EnsureFolderExists
  issued,     \* number of requests made so far; a request's id
  begun,      \* ghost: ids whose copy the service has started
  reports,    \* ghost: OnStopCopy calls made by ClearRequest
  ended       \* ghost: transfers that came to an end, and how

serviceVars == <<queue, stack, begun, reports>>
folderVars  == <<copyState, transfers, copiers, ended>>
vars == <<queue, stack, copyState, transfers, copiers, issued, begun, reports,
          ended>>
------------------------------------------------------------------------------
(***************************************************************************)
(* Requests.  "marked" holds the positions of the sources whose            *)
(* m_processed flag is set; "processed" is the request's own flag, which   *)
(* the service sets before the copy only for a file.                       *)
(***************************************************************************)
Request == [id: Nat, type: {"messages", "folders", "file"}, src: Sources,
            dst: Folders, sources: Seq(Sources), marked: SUBSET Nat,
            processed: BOOLEAN, copier: BOOLEAN]

\* nsCopyRequest::Init and AddNewCopySource: a source that is the destination
\* folder itself needs no copy and is born processed.
NewRequest(t, isCopier) ==
  [id |-> issued + 1, type |-> t.type, src |-> t.src, dst |-> t.dst,
   sources |-> t.sources,
   marked |-> {j \in DOMAIN t.sources : t.sources[j] = t.dst},
   processed |-> FALSE, copier |-> isCopier]

AllSourcesProcessed(r) == r.marked = DOMAIN r.sources

\* The m_processed test of DoNextCopy, which also sets the flag once every
\* source of a request that has sources is processed.
IsProcessed(r) == r.processed \/ (r.sources # <<>> /\ AllSourcesProcessed(r))

\* QueueRequest: a request for a busy destination must wait for its turn.
CopyImmediately(r) ==
  \A i \in DOMAIN queue :
    ~ /\ queue[i].dst = r.dst
      /\ r.type = "folders" =>
           /\ queue[i].type = "folders"
           /\ LeafName[queue[i].src] = LeafName[r.src]

\* Mutant: DoNextCopy does not collect the active targets.
StartableMutant(i) == ~IsProcessed(queue[i])

\* The position DoNextCopy stops at: the first request that is not processed
\* and whose destination no earlier processed request is using.
Startable(i) ==
  /\ ~IsProcessed(queue[i])
  /\ \A k \in 1..(i - 1) :
       ~(IsProcessed(queue[k]) /\ queue[k].dst = queue[i].dst)

NextToCopy(i) ==
  /\ i \in DOMAIN queue
  /\ Startable(i)
  /\ \A k \in 1..(i - 1) : ~Startable(k)

\* FindRequest: a folder request is recognised by its source and by the
\* parent and the name of the folder that was created for it.
SameParent(r, src, dst) == r.src = src /\ r.dst = ParentOf[dst]

Matches(r, src, dst) ==
  IF r.type = "folders"
  THEN SameParent(r, src, dst) /\ LeafName[r.src] = LeafName[dst]
  ELSE r.src = src /\ r.dst = dst

\* The loop of FindRequest forgets a folder request with another name only
\* when a later request is looked at, so the last one is returned regardless.
FallsThrough(i, src, dst) ==
  /\ i = Len(queue)
  /\ queue[i].type = "folders"
  /\ SameParent(queue[i], src, dst)

FindRequest(i, src, dst) ==
  /\ i \in DOMAIN queue
  /\ Matches(queue[i], src, dst) \/ FallsThrough(i, src, dst)
  /\ \A k \in 1..(i - 1) : ~Matches(queue[k], src, dst)
------------------------------------------------------------------------------
(***************************************************************************)
(* Call frames.                                                            *)
(*   next      DoNextCopy is about to scan the queue                       *)
(*   accept    the destination folder was asked to copy one source         *)
(*   notify    the loop of NotifyCompletion; left is numOrigRequests       *)
(*   listener  OnStopCopy of a caller's listener                           *)
(*   copier    OnStopCopy of an nsImapFolderCopyState                      *)
(*   release   the tail of an IMAP folder's OnStopRunningUrl               *)
(***************************************************************************)
NextFrame == [pc |-> "next"]
ListenerFrame == [pc |-> "listener"]
AcceptFrame(r, source) ==
  [pc |-> "accept", id |-> r.id, type |-> r.type, src |-> source,
   dst |-> r.dst]
NotifyFrame(src, dst, ok) ==
  [pc |-> "notify", src |-> src, dst |-> dst, ok |-> ok, left |-> Len(queue)]
CopierFrame(src, dst, ok) ==
  [pc |-> "copier", src |-> src, dst |-> dst, ok |-> ok]
ReleaseFrame(dst) == [pc |-> "release", dst |-> dst]

Frame ==
  {NextFrame, ListenerFrame}
    \cup [pc: {"accept"}, id: Nat, type: {"messages", "folders", "file"},
          src: Sources, dst: Folders]
    \cup [pc: {"notify"}, src: Sources, dst: Folders, ok: BOOLEAN, left: Nat]
    \cup [pc: {"copier"}, src: Sources, dst: Folders, ok: BOOLEAN]
    \cup [pc: {"release"}, dst: Folders]

Idle == stack = <<>>
Call == Head(stack)
Running(pc) == stack # <<>> /\ Call.pc = pc
Push(frames) == stack' = frames \o stack
Return(frames) == stack' = frames \o Tail(stack)

Init ==
  /\ queue = <<>>
  /\ stack = <<>>
  /\ copyState = [f \in Folders |-> NoCopy]
  /\ transfers = {}
  /\ copiers = {}
  /\ issued = 0
  /\ begun = {}
  /\ reports = {}
  /\ ended = {}
------------------------------------------------------------------------------
(***************************************************************************)
(* Requests come from the event loop, or from a listener that is being     *)
(* told about the end of an earlier copy.                                  *)
(***************************************************************************)
MayCall ==
  /\ issued < MaxRequests
  /\ Idle \/ ("reenter" \in Behaviours /\ Running("listener"))

\* DoCopy: append, and start a copy unless the destination is in use.
DoCopy(r) ==
  /\ issued' = issued + 1
  /\ queue' = Append(queue, r)
  /\ IF CopyImmediately(r) THEN Push(<<NextFrame>>) ELSE UNCHANGED stack
  /\ UNCHANGED <<begun, reports>>

CopyMessages(t) ==
  /\ MayCall
  /\ t.type = "messages"
  /\ t.src # t.dst
  /\ DoCopy(NewRequest(t, FALSE))
  /\ UNCHANGED folderVars

CopyFolders(t) ==
  /\ MayCall
  /\ t.type = "folders"
  /\ DoCopy(NewRequest(t, FALSE))
  /\ UNCHANGED folderVars

\* Every caller makes an nsIFile of its own for the file it hands over.
CopyFileMessage(t) ==
  /\ MayCall
  /\ t.type = "file"
  /\ \A i \in DOMAIN queue : queue[i].src # t.src
  /\ DoCopy(NewRequest(t, FALSE))
  /\ UNCHANGED folderVars
------------------------------------------------------------------------------
(***************************************************************************)
(* DoNextCopy starts one source of one request, or finds nothing to do.    *)
(***************************************************************************)
NothingToCopy ==
  /\ Running("next")
  /\ \A i \in DOMAIN queue : ~NextToCopy(i)
  /\ Return(<<>>)
  /\ UNCHANGED <<queue, begun, reports, issued>>
  /\ UNCHANGED folderVars

\* A messages request without any message is found again and again.
StartNothing ==
  /\ Running("next")
  /\ \E i \in DOMAIN queue :
       /\ NextToCopy(i)
       /\ queue[i].type = "messages" /\ queue[i].sources = <<>>
       /\ begun' = begun \cup {queue[i].id}
  /\ Return(<<>>)
  /\ UNCHANGED <<queue, reports, issued>>
  /\ UNCHANGED folderVars

StartSource ==
  /\ Running("next")
  /\ \E i \in DOMAIN queue : \E j \in DOMAIN queue[i].sources :
       /\ NextToCopy(i)
       /\ queue[i].type # "file"
       /\ j \notin queue[i].marked
       /\ \A k \in 1..(j - 1) : k \in queue[i].marked
       /\ queue' = [queue EXCEPT ![i].marked = @ \cup {j}]
       /\ begun' = begun \cup {queue[i].id}
       /\ Return(<<AcceptFrame(queue[i], queue[i].sources[j])>>)
  /\ UNCHANGED <<reports, issued>>
  /\ UNCHANGED folderVars

\* Mutant: a file request is not marked as processed.
StartFileMutant ==
  /\ Running("next")
  /\ \E i \in DOMAIN queue :
       /\ NextToCopy(i)
       /\ queue[i].type = "file"
       /\ begun' = begun \cup {queue[i].id}
       /\ Return(<<AcceptFrame(queue[i], queue[i].src)>>)
  /\ UNCHANGED <<queue, reports, issued>>
  /\ UNCHANGED folderVars

StartFile ==
  /\ Running("next")
  /\ \E i \in DOMAIN queue :
       /\ NextToCopy(i)
       /\ queue[i].type = "file"
       /\ queue' = [queue EXCEPT ![i].marked = DOMAIN queue[i].sources,
                                 ![i].processed = TRUE]
       /\ begun' = begun \cup {queue[i].id}
       /\ Return(<<AcceptFrame(queue[i], queue[i].src)>>)
  /\ UNCHANGED <<reports, issued>>
  /\ UNCHANGED folderVars
------------------------------------------------------------------------------
(***************************************************************************)
(* ClearRequest: the request leaves the queue before its listener hears    *)
(* of it.  "rest" is the stack that remains under the listener's frame.    *)
(***************************************************************************)
ClearRequest(i, ok, rest) ==
  LET r == queue[i]
  IN  /\ queue' = RemoveAt(queue, i)
      /\ reports' = reports \cup {[id |-> r.id, ok |-> ok]}
      /\ stack' = <<IF r.copier THEN CopierFrame(r.src, r.dst, ok)
                                ELSE ListenerFrame>> \o rest

\* Mutants: the loop of NotifyCompletion clears a request that is not done,
\* or one that was queued while the loop was running.
ClearsUnfinishedMutant(i, f) == FindRequest(i, f.src, f.dst) /\ i <= f.left

ClearsNewMutant(i, f) ==
  /\ FindRequest(i, f.src, f.dst)
  /\ queue[i].processed \/ AllSourcesProcessed(queue[i]) \/ ~f.ok

\* One turn of the loop of NotifyCompletion that clears a request: it was in
\* the queue when the call began, and it is done or the copy has failed.
ClearsMatch(i, f) ==
  /\ FindRequest(i, f.src, f.dst)
  /\ i <= f.left
  /\ queue[i].processed \/ AllSourcesProcessed(queue[i]) \/ ~f.ok

NotifyCompletion ==
  /\ Running("notify")
  /\ \E i \in DOMAIN queue :
       /\ ClearsMatch(i, Call)
       /\ ClearRequest(i, Call.ok,
                       <<[Call EXCEPT !.left = @ - 1]>> \o Tail(stack))
  /\ UNCHANGED <<begun, issued>>
  /\ UNCHANGED folderVars

\* Mutant: NotifyCompletion does not go on with the queue.
NotifyDoneMutant ==
  /\ Running("notify")
  /\ \A i \in DOMAIN queue : ~ClearsMatch(i, Call)
  /\ Return(<<>>)
  /\ UNCHANGED <<queue, begun, reports, issued>>
  /\ UNCHANGED folderVars

\* The loop ends and NotifyCompletion calls DoNextCopy.
NotifyDone ==
  /\ Running("notify")
  /\ \A i \in DOMAIN queue : ~ClearsMatch(i, Call)
  /\ Return(<<NextFrame>>)
  /\ UNCHANGED <<queue, begun, reports, issued>>
  /\ UNCHANGED folderVars

ListenerReturns ==
  /\ Running("listener")
  /\ Return(<<>>)
  /\ UNCHANGED <<queue, begun, reports, issued>>
  /\ UNCHANGED folderVars
------------------------------------------------------------------------------
(***************************************************************************)
(* Destination folders.  A message or file copy first claims the folder's  *)
(* copy state (InitCopyState); OnCopyCompleted drops whatever copy state   *)
(* the folder has and notifies the service.                                *)
(***************************************************************************)
Copy(id, src) == [id |-> id, src |-> src]
End(id, src, ok) == [id |-> id, src |-> src, ok |-> ok]
Transfer(f, dst, kind) ==
  [id |-> f.id, src |-> f.src, dst |-> dst, kind |-> kind]

\* What a folder tells the service about a copy that ended with ok.  A local
\* folder calls a failed copy a success ("passing true because the messages that
\* have been successfully copied ...") and a failed move a failure; an IMAP
\* folder passes an nsresult, or false, which is NS_OK.
Told(ok) == {ok, TRUE}

Accepting == Running("accept") /\ Call.type # "folders"

\* The folder is idle and the copy goes on after CopyMessages has returned.
AcceptAsync ==
  /\ Accepting
  /\ copyState[Call.dst] = NoCopy
  /\ copyState' = [copyState EXCEPT ![Call.dst] = Copy(Call.id, Call.src)]
  /\ transfers' = transfers \cup {Transfer(Call, Call.dst, "stream")}
  /\ Return(<<>>)
  /\ UNCHANGED <<queue, begun, reports, issued, copiers, ended>>

\* The folder is idle and the copy is over before CopyMessages returns: an
\* error, an offline copy, or a file copied into a local folder.
AcceptSync ==
  /\ Accepting
  /\ copyState[Call.dst] = NoCopy
  /\ \E ok \in BOOLEAN :
       /\ ended' = ended \cup {End(Call.id, Call.src, ok)}
       /\ \E told \in Told(ok) :
            Return(<<NotifyFrame(Call.src, Call.dst, told)>>)
  /\ UNCHANGED <<queue, begun, reports, issued, copyState, transfers, copiers>>

\* nsMsgLocalMailFolder::CopyMessages returns an error before InitCopyState:
\* nobody looks at it, and the service is not notified.
GiveUpCopy ==
  /\ "silent" \in Behaviours
  /\ Accepting
  /\ Call.type = "messages"
  /\ Return(<<>>)
  /\ UNCHANGED <<queue, begun, reports, issued>>
  /\ UNCHANGED folderVars

\* The folder is busy: InitCopyState fails (an IMAP copy made offline does
\* not even ask), and OnCopyCompleted throws away the copy state of the copy
\* that is still running.
AcceptBusy ==
  /\ Accepting
  /\ copyState[Call.dst] # NoCopy
  /\ copyState' = [copyState EXCEPT ![Call.dst] = NoCopy]
  /\ \E ok \in BOOLEAN :
       /\ ended' = ended \cup {End(Call.id, Call.src, ok)}
       /\ \E told \in Told(ok) :
            Return(<<NotifyFrame(Call.src, Call.dst, told)>>)
  /\ UNCHANGED <<queue, begun, reports, issued, transfers, copiers>>

\* A running copy ends.  Its stream or URL listener is the folder, which
\* looks only at its current copy state; without one it tells nobody.
TransferEnds(t, ok) ==
  /\ Idle
  /\ t.kind = "stream"
  /\ transfers' = transfers \ {t}
  /\ ended' = ended \cup {End(t.id, t.src, ok)}
  /\ copyState' = [copyState EXCEPT ![t.dst] = NoCopy]
  /\ IF copyState[t.dst] = NoCopy
     THEN UNCHANGED stack
     ELSE \E told \in Told(ok) :
            Push(<<NotifyFrame(copyState[t.dst].src, t.dst, told)>>)
  /\ UNCHANGED <<queue, begun, reports, issued, copiers>>

\* nsMsgComposeAndSend::Abort: the user gives up while the sent message waits
\* to be filed or is being filed; the folder is not told and goes on copying.
AbortFileCopy(r) ==
  /\ "abort" \in Behaviours
  /\ Idle
  /\ r.type = "file"
  /\ Push(<<NotifyFrame(r.src, r.dst, FALSE)>>)
  /\ UNCHANGED <<queue, begun, reports, issued>>
  /\ UNCHANGED folderVars
------------------------------------------------------------------------------
(***************************************************************************)
(* CopyFolder of the destination's parent folder.  The completion names    *)
(* the folder created for the copy.                                        *)
(***************************************************************************)
IsChild(new, parent, src) ==
  ParentOf[new] = parent /\ LeafName[new] = LeafName[src]

AcceptingFolder(new) ==
  /\ Running("accept")
  /\ Call.type = "folders"
  /\ IsChild(new, Call.dst, Call.src)

\* nsMsgBrkMBoxStore::CopyFolder: a folder is moved at once.
MoveFolderLocal(new) ==
  /\ AcceptingFolder(new)
  /\ copyState[new] = NoCopy
  /\ ended' = ended \cup {End(Call.id, Call.src, TRUE)}
  /\ Return(<<NotifyFrame(Call.src, new, TRUE)>>)
  /\ UNCHANGED <<queue, begun, reports, issued, copyState, transfers, copiers>>

\* nsMsgLocalMailFolder::CopyFolderAcrossServer: the new folder copies the
\* messages of the source without a request of its own.
CopyFolderAcrossServer(new) ==
  /\ AcceptingFolder(new)
  /\ copyState[new] = NoCopy
  /\ copyState' = [copyState EXCEPT ![new] = Copy(Call.id, Call.src)]
  /\ transfers' = transfers \cup {Transfer(Call, new, "stream")}
  /\ Return(<<>>)
  /\ UNCHANGED <<queue, begun, reports, issued, copiers, ended>>

\* Its CopyMessages fails, or ends, before it returns.
CopyFolderSync(new) ==
  /\ AcceptingFolder(new)
  /\ copyState[new] = NoCopy
  /\ \E ok \in BOOLEAN :
       /\ ended' = ended \cup {End(Call.id, Call.src, ok)}
       /\ \E told \in Told(ok) : Return(<<NotifyFrame(Call.src, new, told)>>)
  /\ UNCHANGED <<queue, begun, reports, issued, copyState, transfers, copiers>>

\* The same function when the source has no messages: the completion names
\* the new folder as the source too.
CopyEmptyFolder(new) ==
  /\ "empty" \in Behaviours
  /\ AcceptingFolder(new)
  /\ copyState[new] = NoCopy
  /\ ended' = ended \cup {End(Call.id, Call.src, TRUE)}
  /\ Return(<<NotifyFrame(new, new, TRUE)>>)
  /\ UNCHANGED <<queue, begun, reports, issued, copyState, transfers, copiers>>

\* CopyFolder returns an error without notifying, so DoNextCopy clears the
\* request itself and returns.  It always does so when the folder exists.
RefuseFolder(new) ==
  /\ "refuse" \in Behaviours \/ copyState[new] # NoCopy
  /\ AcceptingFolder(new)
  /\ ended' = ended \cup {End(Call.id, Call.src, FALSE)}
  /\ \E i \in DOMAIN queue :
       /\ queue[i].id = Call.id
       /\ ClearRequest(i, FALSE, Tail(stack))
  /\ UNCHANGED <<begun, issued, copyState, transfers, copiers>>

\* nsImapMailFolder::CopyFolder when the user did not confirm the deletion; also
\* CopyFolderAcrossServer, which does not look at the result of CopyMessages.
IgnoreFolder(new) ==
  /\ "silent" \in Behaviours
  /\ AcceptingFolder(new)
  /\ Return(<<>>)
  /\ UNCHANGED <<queue, begun, reports, issued>>
  /\ UNCHANGED folderVars

\* nsImapMailFolder::CopyFolder, move: the parent folder holds the copy state
\* while the server renames the mailbox.  A second move finds it taken.
MoveFolderImap(new) ==
  /\ "move" \in Behaviours
  /\ AcceptingFolder(new)
  /\ IF copyState[Call.dst] = NoCopy
     THEN /\ copyState' =
               [copyState EXCEPT ![Call.dst] = Copy(Call.id, Call.src)]
          /\ transfers' = transfers \cup {Transfer(Call, Call.dst, "move")}
          /\ Return(<<>>)
          /\ UNCHANGED ended
     ELSE /\ copyState' = [copyState EXCEPT ![Call.dst] = NoCopy]
          /\ ended' = ended \cup {End(Call.id, Call.src, FALSE)}
          /\ Return(<<NotifyFrame(Call.src, Call.dst, FALSE)>>)
          /\ UNCHANGED transfers
  /\ UNCHANGED <<queue, begun, reports, issued, copiers>>

\* OnStopRunningUrl for nsImapMoveFolderHierarchy: while the copy state is still
\* set the service is told how the move ended, if the folder has a child of that
\* name by now, and otherwise is not told at all.
MoveEnds(t, ok) ==
  /\ Idle
  /\ t.kind = "move"
  /\ transfers' = transfers \ {t}
  /\ ended' = ended \cup {End(t.id, t.src, ok)}
  /\ \/ /\ copyState[t.dst] # NoCopy
        /\ \E new \in Folders :
             /\ IsChild(new, t.dst, copyState[t.dst].src)
             /\ Push(<<NotifyFrame(copyState[t.dst].src, new, ok),
                       ReleaseFrame(t.dst)>>)
        /\ UNCHANGED copyState
     \/ /\ copyState' = [copyState EXCEPT ![t.dst] = NoCopy]
        /\ UNCHANGED stack
  /\ UNCHANGED <<queue, begun, reports, issued, copiers>>

ReleaseCopyState ==
  /\ Running("release")
  /\ copyState' = [copyState EXCEPT ![Call.dst] = NoCopy]
  /\ Return(<<>>)
  /\ UNCHANGED <<queue, begun, reports, issued, transfers, copiers, ended>>
------------------------------------------------------------------------------
(***************************************************************************)
(* nsImapFolderCopyState copies a folder into an IMAP account: it creates  *)
(* the folder, then asks the service to copy the messages, itself being    *)
(* the listener.                                                           *)
(***************************************************************************)
StartCopier(new) ==
  /\ "copier" \in Behaviours
  /\ AcceptingFolder(new)
  /\ copiers' = copiers \cup {[src |-> Call.src, dst |-> new]}
  /\ Return(<<>>)
  /\ UNCHANGED <<queue, begun, reports, issued, copyState, transfers, ended>>

\* OnStopRunningUrl, success, for a source that has messages.
FolderCreated(c) ==
  /\ Idle
  /\ copiers' = copiers \ {c}
  /\ DoCopy(NewRequest([type |-> "messages", src |-> c.src, dst |-> c.dst,
                        sources |-> <<c.src>>], TRUE))
  /\ UNCHANGED <<copyState, transfers, ended>>

\* The same for a source without messages: AdvanceToNextFolder at once.
EmptyFolderCreated(c) ==
  /\ "empty" \in Behaviours
  /\ Idle
  /\ copiers' = copiers \ {c}
  /\ copyState' = [copyState EXCEPT ![c.dst] = NoCopy]
  /\ Push(<<NotifyFrame(c.src, c.dst, TRUE)>>)
  /\ UNCHANGED <<queue, begun, reports, issued, transfers, ended>>

\* OnStopRunningUrl, failure: the caller's listener is told directly and the
\* copy service never is.
FolderCreationFails(c) ==
  /\ "silent" \in Behaviours
  /\ Idle
  /\ copiers' = copiers \ {c}
  /\ Push(<<ListenerFrame>>)
  /\ UNCHANGED <<queue, begun, reports, issued, copyState, transfers, ended>>

\* OnStopCopy of the copier; with no more subfolders AdvanceToNextFolder
\* completes the copy in the name of the new folder.  A failure goes to the
\* caller's listener, past the service.
CopierStops ==
  /\ Running("copier")
  /\ IF Call.ok
     THEN /\ copyState' = [copyState EXCEPT ![Call.dst] = NoCopy]
          /\ Return(<<NotifyFrame(Call.src, Call.dst, TRUE)>>)
     ELSE /\ UNCHANGED copyState
          /\ Return(<<ListenerFrame>>)
  /\ UNCHANGED <<queue, begun, reports, issued, transfers, copiers, ended>>
------------------------------------------------------------------------------
Caller ==
  \E t \in Submissions : CopyMessages(t) \/ CopyFolders(t) \/ CopyFileMessage(t)

Service ==
  \/ NothingToCopy \/ StartNothing \/ StartSource \/ StartFile
  \/ NotifyCompletion \/ NotifyDone \/ ListenerReturns

Destination ==
  \/ AcceptAsync \/ AcceptSync \/ AcceptBusy \/ GiveUpCopy
  \/ \E new \in Folders :
       \/ MoveFolderLocal(new) \/ CopyFolderAcrossServer(new)
       \/ CopyFolderSync(new) \/ CopyEmptyFolder(new) \/ RefuseFolder(new)
       \/ IgnoreFolder(new) \/ MoveFolderImap(new) \/ StartCopier(new)
  \/ ReleaseCopyState \/ CopierStops

Completion ==
  \/ \E t \in transfers, ok \in BOOLEAN : TransferEnds(t, ok) \/ MoveEnds(t, ok)
  \/ \E c \in copiers :
       FolderCreated(c) \/ EmptyFolderCreated(c) \/ FolderCreationFails(c)

Abort == \E i \in DOMAIN queue : AbortFileCopy(queue[i])

Next == Caller \/ Service \/ Destination \/ Completion \/ Abort

\* Calls return, and a transfer that a folder has begun comes to an end: the
\* network layer closes every stream and URL, if need be with an error.
Fairness ==
  /\ WF_vars(Service)
  /\ WF_vars(Destination)
  /\ WF_vars(Completion)

Spec == Init /\ [][Next]_vars
FairSpec == Spec /\ Fairness
------------------------------------------------------------------------------
\* The state the code keeps is well formed: requests, call frames and copy
\* states are of the kinds the service and the folders create.
TypeOK ==
  /\ queue \in Seq(Request)
  /\ stack \in Seq(Frame)
  /\ copyState \in [Folders -> {NoCopy} \cup [id: Nat, src: Sources]]
  /\ transfers \subseteq [id: Nat, src: Sources, dst: Folders,
                          kind: {"stream", "move"}]
  /\ copiers \subseteq [src: Sources, dst: Folders]
  /\ issued \in Nat
  /\ begun \subseteq Nat
  /\ reports \subseteq [id: Nat, ok: BOOLEAN]
  /\ ended \subseteq [id: Nat, src: Sources, ok: BOOLEAN]

\* "always FIFO" (DoNextCopy): among the queued requests for one destination
\* only the oldest can have been started, whatever listeners, folders and
\* failures do in between; so no destination ever serves two requests.
BegunIsOldest ==
  \A i, j \in DOMAIN queue :
    i < j /\ queue[i].dst = queue[j].dst => queue[j].id \notin begun

\* InitCopyState asserts that the folder is not "already copying a msg": the
\* service asks a folder to copy only when its last copy is over.
NoCopyIntoBusyFolder == Accepting => copyState[Call.dst] = NoCopy

\* The transfers a request needs: one per source folder other than the
\* destination, or the file.
Needed(r) ==
  IF r.type = "file" THEN {r.src} ELSE ToSet(r.sources) \ {r.dst}

JustReported(r, ok) == [id |-> r.id, ok |-> ok] \in reports' \ reports

\* A listener hears of success only after every transfer of its request has
\* ended: "We want to ignore any such request here, because it wasn't the
\* one that was completed" (NotifyCompletion).
OkOnlyAfterEnd ==
  [][\A i \in DOMAIN queue :
       JustReported(queue[i], TRUE) =>
         \A s \in Needed(queue[i]) :
           \E e \in ended : e.id = queue[i].id /\ e.src = s]_vars

\* OnStopCopy's status is to "indicate whether the operation was succeeded":
\* success is never reported for a request one of whose transfers failed.  The
\* run CopyTold finds this violated.
OkMeansCopied ==
  [][\A i \in DOMAIN queue :
       JustReported(queue[i], TRUE) =>
         \A e \in ended : e.id = queue[i].id => e.ok]_vars

\* OnStartCopy "is called only once, at the beginning of a message copy".
StartsOnce ==
  [][Running("next") /\ Running("accept")' => Head(stack').id \notin begun]_vars

\* No lost wake-up: when control is back in the event loop, every
\* destination with queued requests is working on the oldest of them.
NoDestinationWaits ==
  Idle => \A i \in DOMAIN queue :
            \E k \in 1..i : queue[k].dst = queue[i].dst /\ queue[k].id \in begun

\* NotifyCompletion exists "so that the copy service can continue copying the
\* rest": every request is reported to its listener sooner or later.  (Each
\* request of a caller makes at most one more, the copier's.)
EveryRequestReported ==
  \A n \in 1..(2 * MaxRequests) :
    issued >= n ~> \E r \in reports : r.id = n

\* The service implements the per-destination ledger of CopyLedger.
NothingToTransfer(r) == \A j \in DOMAIN r.sources : r.sources[j] = r.dst

Pending ==
  {[id |-> queue[i].id, dst |-> queue[i].dst,
    vacuous |-> NothingToTransfer(queue[i])] : i \in DOMAIN queue}

Ledger == INSTANCE CopyLedger WITH
  tickets <- issued, pending <- Pending, serving <- begun, settled <- reports

LedgerSpec == Ledger!Spec
==============================================================================
