------------------------------ MODULE SendLater ------------------------------
(***************************************************************************)
(* Sending the messages of the Unsent Messages folder: nsMsgSendLater, and *)
(* nsMsgOfflineManager, which has it send when the program goes online or  *)
(* offline.                                                                *)
(*                                                                         *)
(* Both live on the main thread and are driven by callbacks: of the stream *)
(* that reads a message, of nsMsgSend that delivers it and files a copy,   *)
(* of a timer, of the parser of the folder, and of the IMAP and news       *)
(* services.  A step is one such callback with everything it calls; only   *)
(* the calls of AdvanceToNextState, which may follow each other in one     *)
(* callback, are steps of their own, and nothing else runs before them.    *)
(***************************************************************************)
EXTENDS Integers, Sequences, FiniteSets, SequencesExt

CONSTANTS
  Msgs,         \* messages
  Later,        \* those flagged Queued: sent only when the user asks
  NoMsg,
  Commands,     \* the calls of the offline manager that are made
  Behaviours,   \* see AllBehaviours
  MaxEvents,    \* bound: calls of the offline manager and restarts
  MaxTries      \* bound: times a server accepts one message

(***************************************************************************)
(* Behaviours of the surroundings:                                         *)
(*   background   mailnews.sendInBackground is set                         *)
(*   readFails    a message cannot be read, or SendMessageFile refuses it  *)
(*   refused      delivery fails                                           *)
(*   answerLost   the server accepts a message, and delivery fails         *)
(*   deleteFails  the message cannot be deleted from the folder            *)
(*   startFails   there is no temporary file, identity or stream           *)
(*   noRecipients SendMailMessage fails, and DeliverFileAsMail loses that  *)
(*   discards     the user deletes unsent messages                         *)
(*   stale        the summary of the folder gets out of date               *)
(*   network      the network goes away and comes back                     *)
(*   window       a mail window may be open: it has the manager playback   *)
(*                operations whenever the program goes online              *)
(*   taskFails    a task of the manager cannot be started                  *)
(*   stop         the user stops a task of the manager                     *)
(*   shutdown     the user quits while messages are sent                   *)
(***************************************************************************)
AllBehaviours == {"background", "readFails", "refused", "answerLost",
                  "deleteFails", "startFails", "noRecipients", "discards",
                  "stale", "network", "window", "taskFails", "stop", "shutdown"}

Tasks == {"news", "mail", "playback"}

\* op is m_curOperation, state m_curState; the rest are the flags of a call.
Calls == [op: {"goOnline", "goOffline"}, send: BOOLEAN, playback: BOOLEAN,
          news: BOOLEAN, mail: BOOLEAN, leave: BOOLEAN]
States == {"none", "news", "mail", "sending", "playback", "done"}
NoCall == [op |-> "none", send |-> FALSE, playback |-> FALSE,
           news |-> FALSE, mail |-> FALSE, leave |-> FALSE]

ASSUME SendLaterAssumption ==
  /\ IsFiniteSet(Msgs)
  /\ Later \subseteq Msgs
  /\ NoMsg \notin Msgs
  /\ Commands \subseteq Calls
  /\ Behaviours \subseteq AllBehaviours
  /\ MaxEvents \in Nat /\ MaxTries \in Nat \ {0}

VARIABLES
  outbox,      \* messages in the folder
  parsing,     \* "valid" summary, "stale", or being parsed for "service" or "nobody"
  online,
  timer,       \* [set: mTimerSet, armed: it will fire]
  userInitiated,
  run,         \* mSendingMessages, what mEnumerator has left, and mMessage
  jobs,        \* what runs for a message: [op, msg]
  waiting,     \* mShutdownListener
  call,        \* the last call of the offline manager
  state,       \* its m_curState
  tasks,       \* per task: how many run for the manager
  listeners,   \* how often the manager is in mListenerArray
  advances,    \* calls of AdvanceToNextState still to come in this callback
  events,      \* calls of the manager and restarts so far
  accepted,    \* ghost: per message, how often a server accepted it
  discarded,   \* ghost: messages the user threw away
  excused,     \* ghost: messages whose delivery went unrecorded
  asked,       \* ghost: since its start the program was asked to send everything
  unnoticed    \* ghost: a call failed and nobody will ever learn of it

service == <<timer, userInitiated, run, jobs, waiting>>
manager == <<call, state, tasks, listeners, advances>>
ghosts == <<accepted, discarded, excused, asked, unnoticed>>
vars == <<outbox, parsing, online, service, manager, events, ghosts>>
------------------------------------------------------------------------------
Resting == [sending |-> FALSE, rest |-> <<>>, current |-> NoMsg]
NoTimer == [set |-> FALSE, armed |-> FALSE]
Job(o, m) == [op |-> o, msg |-> m]

Init ==
  /\ outbox = {} /\ parsing = "valid"
  /\ online \in BOOLEAN
  /\ timer = NoTimer /\ userInitiated = FALSE
  /\ run = Resting /\ jobs = {} /\ waiting = FALSE
  /\ call = NoCall /\ state = "none" /\ tasks = [t \in Tasks |-> 0]
  /\ listeners = 0 /\ advances = 0
  /\ events = 0
  /\ accepted = [m \in Msgs |-> 0] /\ discarded = {} /\ excused = {}
  /\ asked = FALSE /\ unnoticed = FALSE

MainThreadFree == advances = 0
------------------------------------------------------------------------------
(***************************************************************************)
(* nsMsgSendLater.  An operator with a parameter J leaves the jobs J.      *)
(***************************************************************************)
\* Mutant: mMessagesToSend is not cleared.
EndSendMessagesMutant(J, n) ==
  /\ run' = [Resting EXCEPT !.rest = run.rest]
  /\ jobs' = J
  /\ waiting' = FALSE
  /\ advances' = n

\* OnStopSending of the listeners, then the shutdown goes on.
EndSendMessages(J, n) ==
  /\ run' = Resting
  /\ jobs' = J
  /\ waiting' = FALSE
  /\ advances' = n

StartNextMessage(r, J) ==
  /\ r.rest # <<>>
  /\ run' = [r EXCEPT !.rest = Tail(@), !.current = Head(r.rest)]
  /\ jobs' = J \cup {Job("stream", Head(r.rest))}
  /\ UNCHANGED waiting

\* StartNextMailFileSend; its callers end the sending when it fails.
StartNextMailFileSend(r, J) ==
  \/ StartNextMessage(r, J) /\ UNCHANGED advances
  \/ r.rest = <<>> /\ EndSendMessages(J, listeners)
  \/ "startFails" \in Behaviours /\ r.rest # <<>> /\ EndSendMessages(J, listeners)

\* mMessagesToSend: what is in the folder, less what waits for the user.
MessagesToSend(byUser) ==
  run.rest \o SetToSeq(IF byUser THEN outbox ELSE outbox \ Later)

\* Mutant: sending once more while messages are sent.
CanSendMutant == online

CanSend == online /\ ~run.sending

\* InternalSendMessages with the folder open: sending starts, or is over at
\* once.  k and n are the calls of AdvanceToNextState that follow.
Sends(byUser, k, n) ==
  LET r == [sending |-> TRUE, rest |-> MessagesToSend(byUser), current |-> NoMsg] IN
  /\ CanSend
  /\ userInitiated' = byUser
  /\ UNCHANGED unnoticed
  /\ \/ StartNextMessage(r, jobs) /\ advances' = k
     \/ r.rest = <<>> /\ EndSendMessages(jobs, n)

\* InternalSendMessages returns an error: nothing may be sent now; or there is
\* one with the first message, and mSendingMessages stays set.
Refuses(byUser) ==
  \/ ~CanSend /\ UNCHANGED <<userInitiated, run, unnoticed>>
  \/ /\ "startFails" \in Behaviours
     /\ CanSend
     /\ MessagesToSend(byUser) # <<>>
     /\ userInitiated' = byUser
     /\ run' = [sending |-> TRUE, rest |-> Tail(MessagesToSend(byUser)),
                current |-> Head(MessagesToSend(byUser))]
     /\ unnoticed' = TRUE

\* The summary is out of date.  The folder calls back when it is parsed, also
\* when it is being parsed already; it may be too busy to be parsed.
ReparseFirst(byUser) ==
  /\ CanSend /\ parsing # "valid"
  /\ parsing' \in {"service", parsing} \ {"nobody"}
  /\ userInitiated' = byUser
  /\ UNCHANGED <<run, unnoticed>>

\* The error paths of InternalSendMessages.
Fails(byUser) ==
  /\ \/ Refuses(byUser) /\ (~CanSend \/ parsing = "valid") /\ UNCHANGED parsing
     \/ ReparseFirst(byUser)
  /\ UNCHANGED <<jobs, waiting>>

InternalSendMessages(byUser) ==
  \/ parsing = "valid" /\ Sends(byUser, 0, listeners) /\ UNCHANGED parsing
  \/ Fails(byUser) /\ UNCHANGED advances

\* The user, or a window that was opened.
SendUnsentMessages ==
  /\ MainThreadFree
  /\ outbox # {}
  /\ InternalSendMessages(TRUE)
  /\ asked' = TRUE
  /\ UNCHANGED <<outbox, online, timer, call, state, tasks, listeners,
                 events, accepted, discarded, excused>>

\* A message is saved in the folder, and OnItemAdded sets the timer.
SaveMessage(m) ==
  /\ MainThreadFree
  /\ m \notin outbox \cup discarded /\ accepted[m] = 0
  /\ outbox' = outbox \cup {m}
  /\ timer' = IF "background" \in Behaviours /\ ~timer.set
              THEN [set |-> TRUE, armed |-> TRUE] ELSE timer
  /\ UNCHANGED <<parsing, online, userInitiated, run, jobs, waiting,
                 manager, events, ghosts>>

\* Mutant: the timer is not a one-shot.
TimerFiresMutant ==
  /\ MainThreadFree
  /\ timer.armed
  /\ timer' = [timer EXCEPT !.set = FALSE]
  /\ \/ run.sending /\ UNCHANGED <<parsing, userInitiated, run, jobs, waiting,
                                advances, unnoticed>>
     \/ ~run.sending /\ InternalSendMessages(FALSE)
  /\ UNCHANGED <<outbox, online, call, state, tasks, listeners,
                 events, accepted, discarded, excused, asked>>

\* Observe: a timer that fires while messages are sent is forgotten.
TimerFires ==
  /\ MainThreadFree
  /\ timer.armed
  /\ timer' = NoTimer
  /\ \/ run.sending /\ UNCHANGED <<parsing, userInitiated, run, jobs, waiting,
                                advances, unnoticed>>
     \/ ~run.sending /\ InternalSendMessages(FALSE)
  /\ UNCHANGED <<outbox, online, call, state, tasks, listeners,
                 events, accepted, discarded, excused, asked>>

\* Mutant: who asked is forgotten over the reparse.
FolderParsedMutant ==
  /\ MainThreadFree
  /\ parsing \in {"service", "nobody"}
  /\ parsing' = "valid"
  /\ \/ parsing = "service" /\ Sends(TRUE, 0, listeners)
     \/ parsing = "service" /\ Refuses(TRUE) /\ UNCHANGED <<jobs, waiting, advances>>
     \/ parsing = "nobody" /\ UNCHANGED <<userInitiated, run, jobs, waiting, advances, unnoticed>>
  /\ UNCHANGED <<outbox, online, timer, call, state, tasks, listeners,
                 events, accepted, discarded, excused, asked>>

\* OnStopRunningUrl of the parser.
FolderParsed ==
  /\ MainThreadFree
  /\ parsing \in {"service", "nobody"}
  /\ parsing' = "valid"
  /\ \/ parsing = "service" /\ Sends(userInitiated, 0, listeners)
     \/ parsing = "service" /\ Refuses(userInitiated) /\ UNCHANGED <<jobs, waiting, advances>>
     \/ parsing = "nobody" /\ UNCHANGED <<userInitiated, run, jobs, waiting, advances, unnoticed>>
  /\ UNCHANGED <<outbox, online, timer, call, state, tasks, listeners,
                 events, accepted, discarded, excused, asked>>

ParseFails ==
  /\ MainThreadFree
  /\ parsing \in {"service", "nobody"}
  /\ parsing' = "stale"
  /\ UNCHANGED <<outbox, online, service, manager, events, ghosts>>

\* HasUnsentMessages has the folder reparsed without a listener, and takes the
\* place of the one there is.
HasUnsentMessages ==
  /\ MainThreadFree
  /\ parsing # "valid"
  /\ parsing' = "nobody"
  /\ UNCHANGED <<outbox, online, service, manager, events, ghosts>>

\* Shutdown: DoShutdownTask cancels the timer, but does not say so.
DoShutdownTask ==
  /\ MainThreadFree
  /\ "shutdown" \in Behaviours
  /\ run.sending /\ ~waiting
  /\ waiting' = TRUE
  /\ timer' = [timer EXCEPT !.armed = FALSE]
  /\ UNCHANGED <<outbox, parsing, online, userInitiated, run, jobs,
                 manager, events, ghosts>>
------------------------------------------------------------------------------
(***************************************************************************)
(* One message: it is read, delivered by nsMsgSend, deleted, and a copy is *)
(* filed.  A server accepts it some time before the answer is there.       *)
(***************************************************************************)
MessageDone(r, J) ==
  /\ StartNextMailFileSend(r, J)
  /\ UNCHANGED <<parsing, online, timer, userInitiated, call, state,
                 tasks, listeners, events, discarded, asked>>

Goes(m, from, to) ==
  /\ MainThreadFree
  /\ Job(from, m) \in jobs
  /\ jobs' = (jobs \ {Job(from, m)}) \cup {Job(o, m) : o \in to}
  /\ UNCHANGED <<parsing, online, timer, userInitiated, waiting,
                 manager, events, discarded, asked>>

\* OnStopRequest, CompleteMailFileSend.
MessageRead(m) ==
  /\ Goes(m, "stream", {"deliver"})
  /\ UNCHANGED <<outbox, run, accepted, excused, unnoticed>>

ReadFails(m) ==
  /\ MainThreadFree
  /\ "readFails" \in Behaviours
  /\ Job("stream", m) \in jobs
  /\ MessageDone(run, jobs \ {Job("stream", m)})
  /\ UNCHANGED <<outbox, accepted, excused, unnoticed>>

\* DeliverFileAsMail overwrites the error of SendMailMessage, which has called
\* nobody back.
NoRecipients(m) ==
  /\ "noRecipients" \in Behaviours
  /\ Goes(m, "stream", {})
  /\ unnoticed' = TRUE
  /\ UNCHANGED <<outbox, run, accepted, excused>>

ServerAccepts(m) ==
  /\ Goes(m, "deliver", {"answer"})
  /\ accepted' = [accepted EXCEPT ![m] = IF @ < MaxTries THEN @ + 1 ELSE @]
  /\ UNCHANGED <<outbox, run, excused, unnoticed>>

\* Mutant: an undeliverable message is deleted.
DeliveryFailsMutant(m) ==
  /\ MainThreadFree
  /\ "refused" \in Behaviours /\ Job("deliver", m) \in jobs
  /\ MessageDone(run, jobs \ {Job("deliver", m)})
  /\ outbox' = outbox \ {run.current}
  /\ UNCHANGED <<accepted, excused, unnoticed>>

\* Mutant: no other message is tried.
DeliveryFailsLastMutant(m) ==
  /\ "refused" \in Behaviours
  /\ Goes(m, "deliver", {})
  /\ UNCHANGED <<outbox, run, accepted, excused, unnoticed>>

\* OnSendStepFinished with an error.
DeliveryFails(m) ==
  /\ MainThreadFree
  /\ \E o \in {"deliver", "answer"} :
       /\ Job(o, m) \in jobs
       /\ MessageDone(run, jobs \ {Job(o, m)})
       /\ \/ o = "deliver" /\ "refused" \in Behaviours /\ UNCHANGED excused
          \/ o = "answer" /\ "answerLost" \in Behaviours /\ excused' = excused \cup {m}
  /\ UNCHANGED <<outbox, accepted, unnoticed>>

\* OnSendStepFinished, DeleteCurrentMessage, and DoFcc, which files a copy or
\* says at once that there is none.
Delivered(m) ==
  /\ MainThreadFree
  /\ Job("answer", m) \in jobs
  /\ \E deleted \in {TRUE} \cup (IF "deleteFails" \in Behaviours THEN {FALSE} ELSE {}) :
       LET r == IF deleted THEN [run EXCEPT !.current = NoMsg] ELSE run IN
       /\ outbox' = IF deleted THEN outbox \ {run.current} ELSE outbox
       /\ excused' = IF deleted THEN excused ELSE excused \cup {m}
       /\ \/ run' = r /\ Goes(m, "answer", {"copy"})
          \/ MessageDone(r, jobs \ {Job("answer", m)})
  /\ UNCHANGED <<accepted, unnoticed>>

\* OnCopyStepFinished, whatever became of the copy.
CopyFinished(m) ==
  /\ MainThreadFree
  /\ Job("copy", m) \in jobs
  /\ MessageDone(run, jobs \ {Job("copy", m)})
  /\ UNCHANGED <<outbox, accepted, excused, unnoticed>>

MessageStep(m) ==
  \/ MessageRead(m) \/ ReadFails(m) \/ NoRecipients(m) \/ ServerAccepts(m)
  \/ DeliveryFails(m) \/ Delivered(m) \/ CopyFinished(m)
------------------------------------------------------------------------------
(***************************************************************************)
(* nsMsgOfflineManager.                                                    *)
(***************************************************************************)
Reenter(s, k) ==
  /\ state' = s
  /\ advances' = k + 1
  /\ UNCHANGED <<outbox, parsing, online, userInitiated, run, jobs, waiting,
                 tasks, listeners, asked, unnoticed>>

\* SynchronizeOfflineImapChanges, DownloadMail and DownloadOfflineNewsgroups,
\* the only one whose failure is handled.
StartTask(t, s, k) ==
  /\ state' = s
  /\ \/ /\ tasks' = [tasks EXCEPT ![t] = @ + 1]
        /\ advances' = k
        /\ UNCHANGED unnoticed
     \/ /\ "taskFails" \in Behaviours
        /\ advances' = IF t = "news" THEN k + 1 ELSE k
        /\ unnoticed' = (unnoticed \/ t # "news")
        /\ UNCHANGED tasks
  /\ UNCHANGED <<outbox, parsing, online, userInitiated, run, jobs, waiting,
                 listeners, asked>>

\* Mutant: the manager waits although nothing is sent.
ManagerSendsMutant(k) ==
  /\ state' = "sending"
  /\ \/ outbox = {} /\ advances' = k + 1
        /\ UNCHANGED <<parsing, userInitiated, run, jobs, waiting, listeners, unnoticed>>
     \/ /\ outbox # {}
        /\ listeners' = listeners + 1
        /\ \/ parsing = "valid" /\ Sends(TRUE, k, k + listeners + 1) /\ UNCHANGED parsing
           \/ Fails(TRUE) /\ advances' = k
  /\ asked' = TRUE
  /\ UNCHANGED <<outbox, online, tasks>>

\* SendUnsentMessages: the manager adds itself to the listeners every time.
ManagerSends(k) ==
  /\ state' = "sending"
  /\ \/ outbox = {} /\ advances' = k + 1
        /\ UNCHANGED <<parsing, userInitiated, run, jobs, waiting, listeners, unnoticed>>
     \/ /\ outbox # {}
        /\ listeners' = listeners + 1
        /\ \/ parsing = "valid" /\ Sends(TRUE, k, k + listeners + 1) /\ UNCHANGED parsing
           \/ Fails(TRUE) /\ advances' = k + 1
  /\ asked' = TRUE
  /\ UNCHANGED <<outbox, online, tasks>>

\* The states of a call in their order, and what is done on entering them.
NextState(s) ==
  IF call.op = "goOnline"
  THEN [none |-> "sending", sending |-> "playback", playback |-> "done"][s]
  ELSE [none |-> "news", news |-> "mail", mail |-> "sending"][s]

Wanted(s) == CASE s = "sending" -> call.send
               [] s = "playback" -> call.playback
               [] s = "news" -> call.news
               [] s = "mail" -> call.mail

\* The switch of AdvanceToNextState has a case for these.
Advances ==
  state \in IF call.op = "goOnline" THEN {"none", "sending", "playback"}
                                    ELSE {"none", "news", "mail", "sending"}

AdvanceToNextState ==
  /\ advances > 0
  /\ LET k == advances - 1 IN
     \/ /\ ~Advances
        /\ advances' = k
        /\ UNCHANGED <<outbox, parsing, online, userInitiated, run, jobs, waiting,
                       state, tasks, listeners, asked, unnoticed>>
     \/ /\ call.op = "goOffline" /\ state = "sending"
        /\ online' = (online /\ ~call.leave)
        /\ advances' = k
        /\ UNCHANGED <<outbox, parsing, userInitiated, run, jobs, waiting,
                       state, tasks, listeners, asked, unnoticed>>
     \/ /\ Advances /\ ~(call.op = "goOffline" /\ state = "sending")
        /\ LET s == NextState(state) IN
           \/ /\ s = "done"
              /\ state' = s /\ advances' = k
              /\ UNCHANGED <<outbox, parsing, online, userInitiated, run, jobs,
                             waiting, tasks, listeners, asked, unnoticed>>
           \/ s # "done" /\ ~Wanted(s) /\ Reenter(s, k)
           \/ s = "sending" /\ Wanted(s) /\ ManagerSends(k)
           \/ s \in Tasks /\ Wanted(s) /\ StartTask(s, s, k)
  /\ UNCHANGED <<timer, call, events, accepted, discarded, excused>>

\* What a window calls when the program is online: its user, or a preference,
\* decides whether unsent messages are sent.
CallOfWindow(send) == [NoCall EXCEPT !.op = "goOnline", !.send = send, !.playback = TRUE]

\* GoOnline.  SetOffline notifies a window before it returns, and the call of
\* the window overwrites what the outer one has stored.
GoOnline(c) ==
  /\ c.op = "goOnline"
  /\ online' = TRUE
  /\ state' = "none"
  /\ \/ /\ "window" \in Behaviours /\ ~online
        /\ \E send \in BOOLEAN :
             /\ call' = CallOfWindow(send)
             /\ advances' = 1 + (IF send \/ c.playback THEN 1 ELSE 0)
     \/ /\ online \/ "window" \notin Behaviours
        /\ call' = c
        /\ advances' = IF c.send \/ c.playback THEN 1 ELSE 0

SynchronizeForOffline(c) ==
  LET wanted == c.news \/ c.mail \/ c.send IN
  /\ c.op = "goOffline"
  /\ call' = c
  /\ state' = "none"
  /\ advances' = IF wanted THEN 1 ELSE 0
  /\ online' = (online /\ (wanted \/ ~c.leave))

Command(c) ==
  /\ MainThreadFree
  /\ events < MaxEvents
  /\ events' = events + 1
  /\ GoOnline(c) \/ SynchronizeForOffline(c)
  /\ UNCHANGED <<outbox, parsing, service, tasks, listeners, ghosts>>

\* OnStopRunningUrl; the operation ends there when the user has stopped the task.
TaskDone(t) ==
  /\ MainThreadFree
  /\ tasks[t] > 0
  /\ tasks' = [tasks EXCEPT ![t] = @ - 1]
  /\ advances' \in {1} \cup (IF "stop" \in Behaviours THEN {0} ELSE {})
  /\ UNCHANGED <<outbox, parsing, online, service, call, state,
                 listeners, events, ghosts>>
------------------------------------------------------------------------------
(***************************************************************************)
(* The surroundings.                                                       *)
(***************************************************************************)
\* The io service is told by the user or notices by itself.
NetworkGoes ==
  /\ MainThreadFree /\ "network" \in Behaviours
  /\ online /\ online' = FALSE
  /\ UNCHANGED <<outbox, parsing, service, manager, events, ghosts>>

NetworkComes ==
  /\ MainThreadFree /\ "network" \in Behaviours
  /\ ~online /\ online' = TRUE
  /\ \/ /\ "window" \in Behaviours
        /\ events < MaxEvents /\ events' = events + 1
        /\ \E send \in BOOLEAN : call' = CallOfWindow(send)
        /\ state' = "none" /\ advances' = 1
     \/ UNCHANGED <<events, call, state, advances>>
  /\ UNCHANGED <<outbox, parsing, service, tasks, listeners, ghosts>>

DiscardMessage(m) ==
  /\ MainThreadFree /\ "discards" \in Behaviours
  /\ parsing = "valid"
  /\ m \in outbox
  /\ outbox' = outbox \ {m}
  /\ discarded' = discarded \cup {m}
  /\ UNCHANGED <<parsing, online, service, manager, events, accepted,
                 excused, asked, unnoticed>>

SummaryGetsStale ==
  /\ MainThreadFree /\ "stale" \in Behaviours
  /\ parsing = "valid" /\ ~run.sending
  /\ parsing' = "stale"
  /\ UNCHANGED <<outbox, online, service, manager, events, ghosts>>

\* The program ends and is started again, by a crash or after a shutdown.
Restart ==
  /\ events < MaxEvents /\ events' = events + 1
  /\ excused' = excused \cup {m \in Msgs : Job("answer", m) \in jobs}
  /\ parsing' = IF parsing = "valid" THEN parsing ELSE "stale"
  /\ online' \in BOOLEAN
  /\ timer' = NoTimer /\ userInitiated' = FALSE
  /\ run' = Resting /\ jobs' = {} /\ waiting' = FALSE
  /\ call' = NoCall /\ state' = "none" /\ tasks' = [t \in Tasks |-> 0]
  /\ listeners' = 0 /\ advances' = 0
  /\ asked' = FALSE /\ unnoticed' = FALSE
  /\ UNCHANGED <<outbox, accepted, discarded>>
------------------------------------------------------------------------------
Next ==
  \/ SendUnsentMessages \/ TimerFires \/ FolderParsed \/ ParseFails
  \/ HasUnsentMessages \/ DoShutdownTask
  \/ \E m \in Msgs : SaveMessage(m) \/ MessageStep(m) \/ DiscardMessage(m)
  \/ AdvanceToNextState
  \/ \E c \in Commands : Command(c)
  \/ \E t \in Tasks : TaskDone(t)
  \/ NetworkGoes \/ NetworkComes \/ SummaryGetsStale \/ Restart

Spec == Init /\ [][Next]_vars

\* Whatever was started for a message or for the manager ends: files are read,
\* connections answer or time out; and a call that was made is carried out.
Fairness ==
  /\ WF_vars(AdvanceToNextState)
  /\ \A m \in Msgs : WF_vars(MessageStep(m))
  /\ \A t \in Tasks : WF_vars(TaskDone(t))

FairSpec == Spec /\ Fairness
------------------------------------------------------------------------------
\* Nothing is sent twice in one pass over the folder, and a timer that will
\* fire has been set.
TypeOK ==
  /\ outbox \subseteq Msgs
  /\ parsing \in {"valid", "stale", "service", "nobody"}
  /\ online \in BOOLEAN
  /\ timer \in [set: BOOLEAN, armed: BOOLEAN] /\ (timer.armed => timer.set)
  /\ userInitiated \in BOOLEAN
  /\ run \in [sending: BOOLEAN, rest: Seq(Msgs), current: Msgs \cup {NoMsg}]
  /\ jobs \subseteq [op: {"stream", "deliver", "answer", "copy"}, msg: Msgs]
  /\ waiting \in BOOLEAN
  /\ call \in Calls \cup {NoCall} /\ state \in States
  /\ tasks \in [Tasks -> Nat] /\ listeners \in Nat /\ advances \in Nat
  /\ events \in 0..MaxEvents
  /\ accepted \in [Msgs -> 0..MaxTries]
  /\ discarded \subseteq Msgs /\ excused \subseteq Msgs
  /\ asked \in BOOLEAN /\ unnoticed \in BOOLEAN

\* Whoever starts it, the timer, the user, the manager or the parser, and
\* whatever fails, the service has one message under way at most, knows which,
\* and says that it is sending.
OneMessageAtATime ==
  /\ Cardinality(jobs) <= 1
  /\ \A j \in jobs : run.sending /\ run.current \in {j.msg, NoMsg}

\* A message reaches its recipients twice only if the program could not record
\* the first time: it died before the answer, the answer was lost, or the
\* message could not be deleted.
SentTwiceExplained == \A m \in Msgs : accepted[m] > 1 => m \in excused

\* A message that is to wait for the user is not taken along by background
\* sending, also when that has to wait for a reparse.
LaterOnlyOnRequest == \A j \in jobs : j.msg \in Later => asked

\* A message leaves the folder only when a server has it or the user deletes it.
Store == INSTANCE Outbox WITH
           unsent <- outbox,
           accepted <- {m \in Msgs : accepted[m] > 0}
OutboxSpec == Store!Spec

\* Sending ends, and a shutdown that waits for it goes on, unless an error got
\* lost: the one of the first message, or the one of SendMailMessage.
RunEnds == run.sending ~> (~run.sending /\ ~waiting) \/ unnoticed

\* Going online with operations to play back reaches their playback, whatever
\* becomes of the messages that are sent before, under the same condition.
GoingOnline == call.op = "goOnline" /\ call.playback /\ state \in {"none", "sending"}
PlaybackFollows == GoingOnline ~> ~GoingOnline \/ unnoticed
==============================================================================
