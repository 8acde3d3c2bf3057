--------------------------- MODULE SendLaterProofs ----------------------------
(***************************************************************************)
(* Proofs about SendLater, for any finite set of messages, all calls of    *)
(* the offline manager and all behaviours of the surroundings.             *)
(*                                                                         *)
(* The invariant ties three things together: the run over the folder (what *)
(* is left of it, the message it is at) and what is under way for that     *)
(* message; what the folder and the servers have of the messages of the    *)
(* run; and who asked for it.  Only the steps that are about a run or a    *)
(* message disturb it; the timer, the parser and the manager reach the run *)
(* through InternalSendMessages alone.                                     *)
(***************************************************************************)
EXTENDS SendLater, FiniteSetTheorems, TLAPS

Ops == {"stream", "deliver", "answer", "copy"}

Elements(s) == {s[i] : i \in 1..Len(s)}

NoRepeat(s) == \A i, j \in 1..Len(s) : s[i] = s[j] => i = j

Runs == [sending: BOOLEAN, rest: Seq(Msgs), current: Msgs \cup {NoMsg}]

\* A run r during which J are under way: none when nothing is sent, one at
\* most, and about the current message, to which the run does not come again.
RunOK(r, J) ==
  /\ r \in Runs
  /\ J \subseteq [op: Ops, msg: Msgs]
  /\ ~r.sending => J = {} /\ r.rest = <<>>
  /\ NoRepeat(r.rest)
  /\ \A i, j \in J : i = j
  /\ \A j \in J : /\ j.msg \notin Elements(r.rest)
                  /\ r.current = j.msg \/ (j.op = "copy" /\ r.current = NoMsg)

\* The folder out, the accepted messages acc and the excused ones exc during
\* such a run.  A message that will be tried, or is, has only been accepted
\* before with an excuse.
RecordsOK(r, J, out, acc, dis, exc) ==
  /\ out \subseteq Msgs /\ dis \subseteq Msgs /\ exc \subseteq Msgs
  /\ acc \in [Msgs -> 0..MaxTries]
  /\ Elements(r.rest) \subseteq out \cup dis
  /\ \A m \in Elements(r.rest) : acc[m] > 0 => m \in exc
  /\ \A j \in J : j.op \in {"stream", "deliver"} =>
       j.msg \in out \cup dis /\ (acc[j.msg] > 0 => j.msg \in exc)
  /\ \A j \in J : j.op = "answer" => acc[j.msg] > 0
  /\ \A m \in out : acc[m] > 0 => m \in exc \/ Job("answer", m) \in J
  /\ \A m \in Msgs : acc[m] > 1 => m \in exc

\* Who asked: u is userInitiated, a tells whether everything was asked for.
RequestOK(r, J, u, a) ==
  /\ u \in BOOLEAN /\ a \in BOOLEAN
  /\ u => a
  /\ \A m \in Elements(r.rest) : m \in Later => a
  /\ \A j \in J : j.msg \in Later => a

IInv ==
  /\ RunOK(run, jobs)
  /\ RecordsOK(run, jobs, outbox, accepted, discarded, excused)
  /\ RequestOK(run, jobs, userInitiated, asked)

\* What the invariant is about.
core == <<outbox, userInitiated, run, jobs, accepted, discarded, excused, asked>>
------------------------------------------------------------------------------
(***************************************************************************)
(* Sequences.                                                              *)
(***************************************************************************)
LEMMA EmptySequence == Elements(<<>>) = {} /\ NoRepeat(<<>>)
  BY DEF Elements, NoRepeat

LEMMA TailKeeps ==
  ASSUME NEW S, NEW s \in Seq(S), s # <<>>, NoRepeat(s)
  PROVE  /\ Head(s) \in Elements(s) /\ Head(s) \in S
         /\ Tail(s) \in Seq(S)
         /\ NoRepeat(Tail(s))
         /\ Elements(Tail(s)) \subseteq Elements(s)
         /\ Head(s) \notin Elements(Tail(s))
  <1>1. Len(s) \in Nat \ {0} /\ Head(s) = s[1]
    OBVIOUS
  <1>2. Len(Tail(s)) = Len(s) - 1 /\ Tail(s) \in Seq(S)
        /\ \A i \in 1..Len(Tail(s)) : Tail(s)[i] = s[i + 1] /\ i + 1 \in 1..Len(s)
    OBVIOUS
  <1>3. NoRepeat(Tail(s))
    BY <1>1, <1>2 DEF NoRepeat
  <1>4. Head(s) \in Elements(s) /\ Head(s) \in S
    BY <1>1 DEF Elements
  <1>5. Elements(Tail(s)) \subseteq Elements(s)
    BY <1>2 DEF Elements
  <1>6. Head(s) \notin Elements(Tail(s))
    BY <1>1, <1>2 DEF Elements, NoRepeat
  <1>7. QED BY <1>2, <1>3, <1>4, <1>5, <1>6

\* mMessagesToSend holds the messages of the folder once each.
LEMMA SetToSeqOnce ==
  ASSUME NEW S, IsFiniteSet(S)
  PROVE  /\ SetToSeq(S) \in Seq(S)
         /\ NoRepeat(SetToSeq(S))
         /\ Elements(SetToSeq(S)) \subseteq S
  <1>1. Cardinality(S) \in Nat /\ ExistsBijection(1..Cardinality(S), S)
    BY FS_CardinalityType
  <1>2. \E f \in [1..Cardinality(S) -> S] : IsInjective(f)
    BY <1>1 DEF ExistsBijection, Bijection, Injection
  <1>3. /\ SetToSeq(S) \in [1..Cardinality(S) -> S]
        /\ IsInjective(SetToSeq(S))
    BY <1>2 DEF SetToSeq
  <1>4. SetToSeq(S) \in Seq(S) /\ Len(SetToSeq(S)) = Cardinality(S)
    BY <1>1, <1>3
  <1>5. QED
    BY <1>3, <1>4 DEF NoRepeat, Elements, IsInjective
------------------------------------------------------------------------------
(***************************************************************************)
(* The run.                                                                *)
(***************************************************************************)
LEMMA CoreUnchanged == IInv /\ UNCHANGED core => IInv'
  BY DEF IInv, core

\* Nothing is under way when the next message is taken, or the run ends.
LEMMA NextMessageOK ==
  ASSUME IInv,
         NEW r, r \in Runs, r.sending, r.rest = run.rest,
         NEW out \in SUBSET Msgs, Elements(r.rest) \subseteq out \cup discarded,
         NEW exc \in SUBSET Msgs, excused \subseteq exc,
         \A m \in out : accepted[m] > 0 => m \in exc,
         NEW J, J = {},
         StartNextMailFileSend(r, J),
         outbox' = out, excused' = exc,
         UNCHANGED <<accepted, discarded, userInitiated, asked>>
  PROVE  IInv'
  <1> DEFINE rest == r.rest
  <1>1. rest \in Seq(Msgs) /\ NoRepeat(rest)
    BY DEF IInv, RunOK, Runs
  <1>2. \A m \in Elements(rest) : /\ accepted[m] > 0 => m \in exc
                                  /\ m \in Later => asked
    BY DEF IInv, RecordsOK, RequestOK
  <1>3. /\ discarded \subseteq Msgs /\ accepted \in [Msgs -> 0..MaxTries]
        /\ userInitiated \in BOOLEAN /\ asked \in BOOLEAN /\ (userInitiated => asked)
        /\ \A m \in Msgs : accepted[m] > 1 => m \in exc
    BY DEF IInv, RecordsOK, RequestOK
  <1>4. CASE StartNextMessage(r, J)
    <2> DEFINE m == Head(rest)
    <2>1. /\ m \in Elements(rest) /\ m \in Msgs
          /\ Tail(rest) \in Seq(Msgs) /\ NoRepeat(Tail(rest))
          /\ Elements(Tail(rest)) \subseteq Elements(rest)
          /\ m \notin Elements(Tail(rest))
      BY <1>1, <1>4, TailKeeps DEF StartNextMessage
    <2>2. /\ jobs' = {Job("stream", m)}
          /\ run' \in Runs
          /\ run'.sending /\ run'.rest = Tail(rest) /\ run'.current = m
      BY <1>4, <2>1 DEF StartNextMessage, Runs
    <2>3. RunOK(run', jobs')
      BY <2>1, <2>2 DEF RunOK, Job, Ops
    <2>4. RecordsOK(run', jobs', outbox', accepted', discarded', excused')
      BY <1>2, <1>3, <2>1, <2>2 DEF RecordsOK, Job
    <2>5. RequestOK(run', jobs', userInitiated', asked')
      BY <1>2, <1>3, <2>1, <2>2 DEF RequestOK, Job
    <2>6. QED BY <2>3, <2>4, <2>5 DEF IInv
  <1>5. CASE run' = Resting /\ jobs' = {}
    <2>1. /\ Resting \in Runs /\ ~Resting.sending
          /\ Resting.rest = <<>> /\ Elements(Resting.rest) = {} /\ NoRepeat(Resting.rest)
      BY EmptySequence DEF Resting, Runs
    <2>2. RunOK(run', jobs')
      BY <1>5, <2>1 DEF RunOK
    <2>3. RecordsOK(run', jobs', outbox', accepted', discarded', excused')
      BY <1>3, <1>5, <2>1 DEF RecordsOK
    <2>4. RequestOK(run', jobs', userInitiated', asked')
      BY <1>3, <1>5, <2>1 DEF RequestOK
    <2>5. QED BY <2>2, <2>3, <2>4 DEF IInv
  <1>6. QED
    BY <1>4, <1>5 DEF StartNextMailFileSend, EndSendMessages

\* Everything that asks for messages to be sent, now or after a reparse.
Attempt(byUser) ==
  \/ \E k, n : Sends(byUser, k, n)
  \/ Refuses(byUser) /\ UNCHANGED jobs
  \/ userInitiated' = byUser /\ UNCHANGED <<run, jobs>>
  \/ UNCHANGED <<userInitiated, run, jobs>>

LEMMA MessagesToSendOK ==
  ASSUME IInv, NEW byUser \in BOOLEAN, CanSend
  PROVE  /\ MessagesToSend(byUser) \in Seq(Msgs)
         /\ NoRepeat(MessagesToSend(byUser))
         /\ Elements(MessagesToSend(byUser)) \subseteq outbox
         /\ ~byUser => Elements(MessagesToSend(byUser)) \cap Later = {}
  <1> DEFINE S == IF byUser THEN outbox ELSE outbox \ Later
  <1>1. run.rest = <<>> /\ S \subseteq outbox /\ outbox \subseteq Msgs
    BY DEF IInv, RunOK, RecordsOK, CanSend
  <1>2. IsFiniteSet(S)
    BY <1>1, FS_Subset, SendLaterAssumption
  <1>3. SetToSeq(S) \in Seq(S) /\ NoRepeat(SetToSeq(S)) /\ Elements(SetToSeq(S)) \subseteq S
    BY <1>2, SetToSeqOnce
  <1> HIDE DEF S
  <1>4. SetToSeq(S) \in Seq(Msgs) /\ <<>> \o SetToSeq(S) = SetToSeq(S)
    BY <1>1, <1>3
  <1>5. MessagesToSend(byUser) = SetToSeq(S)
    BY <1>1, <1>4 DEF MessagesToSend, S
  <1>6. QED
    BY <1>1, <1>3, <1>4, <1>5 DEF S

LEMMA AttemptOK ==
  ASSUME IInv, NEW byUser \in BOOLEAN, Attempt(byUser),
         UNCHANGED <<outbox, accepted, discarded, excused>>,
         asked' \in BOOLEAN, asked => asked', byUser => asked'
  PROVE  IInv'
  <1> DEFINE rest == MessagesToSend(byUser)
  <1>1. ASSUME CanSend
        PROVE  /\ rest \in Seq(Msgs) /\ NoRepeat(rest)
               /\ Elements(rest) \subseteq outbox
               /\ \A m \in Elements(rest) : (accepted[m] > 0 => m \in excused)
                                            /\ (m \in Later => asked')
               /\ jobs = {}
    <2>1. jobs = {}
      BY <1>1 DEF IInv, RunOK, CanSend
    <2>2. \A m \in outbox : accepted[m] > 0 => m \in excused
      BY <2>1 DEF IInv, RecordsOK
    <2>3. QED BY <1>1, <2>1, <2>2, MessagesToSendOK
  <1> HIDE DEF rest
  <1>2. /\ outbox \subseteq Msgs /\ discarded \subseteq Msgs /\ excused \subseteq Msgs
        /\ accepted \in [Msgs -> 0..MaxTries]
        /\ \A m \in Msgs : accepted[m] > 1 => m \in excused
    BY DEF IInv, RecordsOK
  \* The first message is taken, or could not be.
  <1>3. ASSUME CanSend, rest # <<>>, userInitiated' = byUser,
               run' = [sending |-> TRUE, rest |-> Tail(rest), current |-> Head(rest)],
               jobs' \in {{}, {Job("stream", Head(rest))}}
        PROVE  IInv'
    <2>1. /\ Head(rest) \in Elements(rest) /\ Head(rest) \in Msgs
          /\ Tail(rest) \in Seq(Msgs) /\ NoRepeat(Tail(rest))
          /\ Elements(Tail(rest)) \subseteq Elements(rest)
          /\ Head(rest) \notin Elements(Tail(rest))
      BY <1>1, <1>3, TailKeeps
    <2>2. RunOK(run', jobs')
      BY <1>3, <2>1 DEF RunOK, Runs, Job, Ops
    <2>3. RecordsOK(run', jobs', outbox', accepted', discarded', excused')
      <3>1. jobs = {} /\ \A m \in outbox : accepted[m] > 0 => m \in excused
        BY <1>1, <1>3 DEF IInv, RecordsOK
      <3>2. QED BY <1>1, <1>2, <1>3, <2>1, <3>1 DEF RecordsOK, Job
    <2>4. RequestOK(run', jobs', userInitiated', asked')
      BY <1>1, <1>3, <2>1 DEF RequestOK, Job
    <2>5. QED BY <2>2, <2>3, <2>4 DEF IInv
  <1>4. ASSUME NEW k, NEW n, Sends(byUser, k, n)
        PROVE  IInv'
    <2> DEFINE r == [sending |-> TRUE, rest |-> rest, current |-> NoMsg]
    <2>1. CanSend /\ userInitiated' = byUser
      BY <1>4 DEF Sends
    <2>2. CASE StartNextMessage(r, jobs)
      <3>1. /\ rest # <<>> /\ jobs' = {} \cup {Job("stream", Head(rest))}
            /\ run' = [sending |-> TRUE, rest |-> Tail(rest), current |-> Head(rest)]
        BY <1>1, <2>1, <2>2 DEF StartNextMessage
      <3>2. QED BY <1>3, <2>1, <3>1
    <2>3. CASE EndSendMessages(jobs, n)
      <3>1. run' = Resting /\ jobs' = {}
        BY <1>1, <2>1, <2>3 DEF EndSendMessages
      <3>2. /\ Resting \in Runs /\ ~Resting.sending
            /\ Resting.rest = <<>> /\ Elements(Resting.rest) = {} /\ NoRepeat(Resting.rest)
        BY EmptySequence DEF Resting, Runs
      <3>3. \A m \in outbox : accepted[m] > 0 => m \in excused
        BY <1>1, <2>1 DEF IInv, RecordsOK
      <3>4. QED
        BY <1>2, <2>1, <3>1, <3>2, <3>3 DEF IInv, RunOK, RecordsOK, RequestOK
    <2>4. QED
      BY <1>4, <2>2, <2>3 DEF Sends, rest
  <1>5. CASE Refuses(byUser) /\ UNCHANGED jobs
    <2>1. CASE ~CanSend /\ UNCHANGED <<userInitiated, run, unnoticed>>
      BY <1>5, <2>1 DEF IInv, RequestOK
    <2>2. CASE CanSend
      <3>1. /\ rest # <<>> /\ userInitiated' = byUser /\ jobs' = {}
            /\ run' = [sending |-> TRUE, rest |-> Tail(rest), current |-> Head(rest)]
        BY <1>1, <1>5, <2>2 DEF Refuses, rest
      <3>2. QED BY <1>3, <2>2, <3>1
    <2>3. QED BY <1>5, <2>1, <2>2 DEF Refuses
  <1>6. CASE userInitiated' \in {byUser, userInitiated} /\ UNCHANGED <<run, jobs>>
    BY <1>6 DEF IInv, RequestOK
  <1>7. QED
    BY <1>4, <1>5, <1>6 DEF Attempt

LEMMA SendStepOK ==
  ASSUME IInv,
         \/ SendUnsentMessages \/ TimerFires \/ FolderParsed
         \/ AdvanceToNextState
  PROVE  IInv'
  <1>1. userInitiated \in BOOLEAN /\ asked \in BOOLEAN /\ (userInitiated => asked)
    BY DEF IInv, RequestOK
  <1>2. ASSUME NEW byUser \in BOOLEAN, InternalSendMessages(byUser)
        PROVE  Attempt(byUser)
    BY <1>2 DEF InternalSendMessages, Fails, ReparseFirst, Attempt
  <1>3. CASE SendUnsentMessages
    BY <1>1, <1>2, <1>3, AttemptOK DEF SendUnsentMessages
  <1>4. CASE TimerFires
    <2>1. Attempt(FALSE)
      BY <1>2, <1>4 DEF TimerFires, Attempt
    <2>2. QED BY <1>1, <1>4, <2>1, AttemptOK DEF TimerFires
  <1>5. CASE FolderParsed
    <2>1. Attempt(userInitiated)
      BY <1>5 DEF FolderParsed, Attempt
    <2>2. QED BY <1>1, <1>5, <2>1, AttemptOK DEF FolderParsed
  <1>6. CASE AdvanceToNextState
    <2>1. CASE UNCHANGED core
      BY <2>1, CoreUnchanged
    <2>2. ASSUME NEW k, ManagerSends(k)
          PROVE  IInv'
      <3>1. Attempt(TRUE)
        BY <2>2 DEF ManagerSends, Fails, ReparseFirst, Attempt
      <3>2. QED
        BY <1>1, <1>6, <2>2, <3>1, AttemptOK DEF ManagerSends, AdvanceToNextState
    <2>3. UNCHANGED core \/ \E k : ManagerSends(k)
      BY <1>6 DEF AdvanceToNextState, Reenter, StartTask, core
    <2>4. QED BY <2>1, <2>2, <2>3
  <1>7. QED BY <1>3, <1>4, <1>5, <1>6
------------------------------------------------------------------------------
(***************************************************************************)
(* One message.                                                            *)
(***************************************************************************)
\* What is known when something of kind o is under way for m.
LEMMA UnderWay ==
  ASSUME IInv, NEW m \in Msgs, NEW o \in Ops, Job(o, m) \in jobs
  PROVE  /\ jobs = {Job(o, m)} /\ jobs \ {Job(o, m)} = {}
         /\ run \in Runs /\ run.sending
         /\ m \notin Elements(run.rest)
         /\ run.current = m \/ (o = "copy" /\ run.current = NoMsg)
         /\ o \in {"stream", "deliver"} => m \in outbox \cup discarded
         /\ o \in {"stream", "deliver"} /\ accepted[m] > 0 => m \in excused
         /\ o = "answer" => accepted[m] > 0
         /\ m \in Later => asked
  <1>1. Job(o, m).msg = m /\ Job(o, m).op = o
    BY DEF Job
  <1>2. jobs = {Job(o, m)} /\ run.sending
    BY DEF IInv, RunOK
  <1>3. QED
    BY <1>1, <1>2 DEF IInv, RunOK, RecordsOK, RequestOK

LEMMA AnswerOnly ==
  ASSUME IInv, NEW m \in Msgs, NEW o \in Ops \ {"answer"}, Job(o, m) \in jobs
  PROVE  \A n \in outbox : accepted[n] > 0 => n \in excused
  <1>1. jobs = {Job(o, m)}
    BY UnderWay
  <1>2. \A n : Job("answer", n) \notin jobs
    BY <1>1 DEF Job
  <1>3. QED BY <1>2 DEF IInv, RecordsOK

\* The same message goes on, or nothing does.
LEMMA GoesOK ==
  ASSUME IInv, NEW m \in Msgs,
         NEW from \in {"stream", "deliver"}, NEW to, Goes(m, from, to),
         to \in {{}, {"deliver"}, {"answer"}},
         UNCHANGED <<outbox, run, excused>>,
         \/ to # {"answer"} /\ UNCHANGED accepted
         \/ /\ to = {"answer"}
            /\ accepted' = [accepted EXCEPT ![m] = IF @ < MaxTries THEN @ + 1 ELSE @]
  PROVE  IInv'
  <1>1. Job(from, m) \in jobs /\ from \in Ops
    BY DEF Goes, Ops
  <1>2. /\ jobs = {Job(from, m)} /\ jobs \ {Job(from, m)} = {}
        /\ run.sending /\ m \notin Elements(run.rest)
        /\ run.current = m
        /\ m \in outbox \cup discarded
        /\ accepted[m] > 0 => m \in excused
        /\ m \in Later => asked
    BY <1>1, UnderWay
  <1>3. /\ jobs' = {Job(o, m) : o \in to}
        /\ UNCHANGED <<discarded, asked, userInitiated>>
    BY <1>2 DEF Goes
  <1>4. \A n \in outbox : accepted[n] > 0 => n \in excused
    BY <1>1, AnswerOnly
  <1>5. accepted \in [Msgs -> 0..MaxTries] /\ MaxTries \in Nat \ {0}
    BY SendLaterAssumption DEF IInv, RecordsOK
  <1>6. /\ accepted' \in [Msgs -> 0..MaxTries]
        /\ \A n \in Msgs : n # m => accepted'[n] = accepted[n]
        /\ to # {"answer"} => accepted'[m] = accepted[m]
        /\ to = {"answer"} => /\ accepted'[m] > 0
                              /\ accepted'[m] > 1 => accepted[m] > 0
    BY <1>5
  <1>7. RunOK(run', jobs')
    BY <1>2, <1>3 DEF IInv, RunOK, Job, Ops
  <1>8. RecordsOK(run', jobs', outbox', accepted', discarded', excused')
    <2>1. \A j \in jobs' : j.op \in to /\ j.msg = m
      BY <1>3 DEF Job
    <2>2. to = {"answer"} => Job("answer", m) \in jobs'
      BY <1>3
    <2>3. Elements(run.rest) \subseteq Msgs /\ outbox \subseteq Msgs
      BY DEF IInv, RecordsOK
    <2>4. QED
      BY <1>2, <1>3, <1>4, <1>6, <2>1, <2>2, <2>3 DEF IInv, RecordsOK
  <1>9. RequestOK(run', jobs', userInitiated', asked')
    BY <1>2, <1>3 DEF IInv, RequestOK, Job
  <1>10. QED BY <1>7, <1>8, <1>9 DEF IInv

\* The message is done with, in whatever way, and the folder keeps it.
LEMMA DoneOK ==
  ASSUME IInv, NEW m \in Msgs, NEW o \in Ops, Job(o, m) \in jobs,
         MessageDone(run, jobs \ {Job(o, m)}),
         UNCHANGED <<outbox, accepted>>,
         \/ o # "answer" /\ UNCHANGED excused
         \/ excused' = excused \cup {m}
  PROVE  IInv'
  <1>1. /\ jobs = {Job(o, m)} /\ jobs \ {Job(o, m)} = {}
        /\ run \in Runs /\ run.sending
    BY UnderWay
  <1>2. /\ StartNextMailFileSend(run, jobs \ {Job(o, m)})
        /\ UNCHANGED <<userInitiated, discarded, asked>>
    BY DEF MessageDone
  <1>3. /\ outbox \in SUBSET Msgs /\ Elements(run.rest) \subseteq outbox \cup discarded
        /\ excused' \in SUBSET Msgs /\ excused \subseteq excused'
        /\ \A n \in outbox : accepted[n] > 0 => n \in excused \/ Job("answer", n) \in jobs
    BY DEF IInv, RecordsOK
  <1>4. \A n \in outbox : accepted[n] > 0 => n \in excused'
    BY <1>1, <1>3 DEF Job
  <1>5. QED
    BY <1>1, <1>2, <1>3, <1>4, NextMessageOK

LEMMA DeliveredOK ==
  ASSUME IInv, NEW m \in Msgs, Delivered(m)
  PROVE  IInv'
  <1>1. Job("answer", m) \in jobs /\ "answer" \in Ops /\ UNCHANGED accepted
    BY DEF Delivered, Ops
  <1>2. /\ jobs = {Job("answer", m)} /\ jobs \ {Job("answer", m)} = {}
        /\ run \in Runs /\ run.sending /\ run.current = m
        /\ m \notin Elements(run.rest)
        /\ m \in Later => asked
    BY <1>1, UnderWay
  <1>3. PICK deleted \in BOOLEAN :
          LET r == IF deleted THEN [run EXCEPT !.current = NoMsg] ELSE run IN
          /\ outbox' = IF deleted THEN outbox \ {run.current} ELSE outbox
          /\ excused' = IF deleted THEN excused ELSE excused \cup {m}
          /\ \/ run' = r /\ Goes(m, "answer", {"copy"})
             \/ MessageDone(r, jobs \ {Job("answer", m)})
    BY DEF Delivered
  <1> DEFINE r == IF deleted THEN [run EXCEPT !.current = NoMsg] ELSE run
  <1>4. /\ r \in Runs /\ r.sending /\ r.rest = run.rest
        /\ r.current \in {m, NoMsg}
    BY <1>2 DEF Runs
  <1>5. /\ outbox' \in SUBSET Msgs /\ excused' \in SUBSET Msgs /\ excused \subseteq excused'
        /\ Elements(run.rest) \subseteq outbox' \cup discarded
    BY <1>2, <1>3 DEF IInv, RecordsOK
  <1>6. \A n \in outbox' : accepted[n] > 0 => n \in excused'
    <2>1. \A n \in outbox : accepted[n] > 0 => n \in excused \/ n = m
      BY <1>2 DEF IInv, RecordsOK, Job
    <2>2. QED BY <1>2, <1>3, <2>1
  <1>7. CASE run' = r /\ Goes(m, "answer", {"copy"})
    <2>1. jobs' = {Job("copy", m)} /\ UNCHANGED <<discarded, asked, userInitiated>>
      BY <1>2, <1>7 DEF Goes
    <2>2. RunOK(run', jobs')
      BY <1>2, <1>4, <1>7, <2>1 DEF IInv, RunOK, Job, Ops
    <2>3. RecordsOK(run', jobs', outbox', accepted', discarded', excused')
      BY <1>1, <1>4, <1>5, <1>6, <1>7, <2>1 DEF IInv, RecordsOK, Job
    <2>4. RequestOK(run', jobs', userInitiated', asked')
      BY <1>2, <1>4, <1>7, <2>1 DEF IInv, RequestOK, Job
    <2>5. QED BY <2>2, <2>3, <2>4 DEF IInv
  <1>8. CASE MessageDone(r, jobs \ {Job("answer", m)})
    <2>1. /\ StartNextMailFileSend(r, jobs \ {Job("answer", m)})
          /\ UNCHANGED <<userInitiated, discarded, asked>>
      BY <1>8 DEF MessageDone
    <2> HIDE DEF r
    <2>2. QED
      BY <1>1, <1>2, <1>4, <1>5, <1>6, <2>1, NextMessageOK
  <1>9. QED BY <1>3, <1>7, <1>8

LEMMA MessageStepOK ==
  ASSUME IInv, NEW m \in Msgs, MessageStep(m)
  PROVE  IInv'
  <1>1. CASE MessageRead(m)
    BY <1>1, GoesOK DEF MessageRead
  <1>2. CASE ReadFails(m)
    BY <1>2, DoneOK DEF ReadFails, Ops
  <1>3. CASE NoRecipients(m)
    BY <1>3, GoesOK DEF NoRecipients
  <1>4. CASE ServerAccepts(m)
    BY <1>4, GoesOK DEF ServerAccepts
  <1>5. CASE DeliveryFails(m)
    <2>1. PICK o \in {"deliver", "answer"} :
            /\ Job(o, m) \in jobs
            /\ MessageDone(run, jobs \ {Job(o, m)})
            /\ \/ o = "deliver" /\ UNCHANGED excused
               \/ excused' = excused \cup {m}
      BY <1>5 DEF DeliveryFails
    <2>2. o \in Ops /\ UNCHANGED <<outbox, accepted>>
      BY <1>5 DEF DeliveryFails, Ops
    <2>3. QED BY <2>1, <2>2, DoneOK
  <1>6. CASE Delivered(m)
    BY <1>6, DeliveredOK
  <1>7. CASE CopyFinished(m)
    BY <1>7, DoneOK DEF CopyFinished, Ops
  <1>8. QED
    BY <1>1, <1>2, <1>3, <1>4, <1>5, <1>6, <1>7 DEF MessageStep

LEMMA SaveMessageOK ==
  ASSUME IInv, NEW m \in Msgs, SaveMessage(m)
  PROVE  IInv'
  BY DEF IInv, RunOK, RecordsOK, RequestOK, SaveMessage, ghosts

LEMMA DiscardMessageOK ==
  ASSUME IInv, NEW m \in Msgs, DiscardMessage(m)
  PROVE  IInv'
  BY DEF IInv, RunOK, RecordsOK, RequestOK, DiscardMessage, service

LEMMA RestartOK ==
  ASSUME IInv, Restart
  PROVE  IInv'
  <1>1. /\ Resting \in Runs /\ ~Resting.sending
        /\ Resting.rest = <<>> /\ Elements(Resting.rest) = {} /\ NoRepeat(Resting.rest)
    BY EmptySequence DEF Resting, Runs
  <1>2. /\ run' = Resting /\ jobs' = {} /\ userInitiated' = FALSE /\ asked' = FALSE
        /\ UNCHANGED <<outbox, accepted, discarded>>
        /\ excused' = excused \cup {m \in Msgs : Job("answer", m) \in jobs}
    BY DEF Restart
  <1>3. \A m \in outbox : accepted[m] > 0 => m \in excused'
    BY <1>2 DEF IInv, RecordsOK
  <1>4. QED
    BY <1>1, <1>2, <1>3 DEF IInv, RunOK, RecordsOK, RequestOK
------------------------------------------------------------------------------
(***************************************************************************)
(* The invariant and what follows from it.                                 *)
(***************************************************************************)
LEMMA InitOK == Init => IInv
  <1>1. /\ Resting \in Runs /\ ~Resting.sending
        /\ Resting.rest = <<>> /\ Elements(Resting.rest) = {} /\ NoRepeat(Resting.rest)
    BY EmptySequence DEF Resting, Runs
  <1>2. ASSUME Init
        PROVE  accepted \in [Msgs -> 0..MaxTries] /\ \A m \in Msgs : ~(accepted[m] > 0)
    BY <1>2, SendLaterAssumption DEF Init
  <1>3. ASSUME Init
        PROVE  /\ run = Resting /\ jobs = {} /\ outbox = {} /\ discarded = {} /\ excused = {}
               /\ userInitiated = FALSE /\ asked = FALSE
    BY <1>3 DEF Init
  <1>4. ASSUME Init
        PROVE  RunOK(run, jobs) /\ RequestOK(run, jobs, userInitiated, asked)
    BY <1>1, <1>3, <1>4 DEF RunOK, RequestOK
  <1>5. ASSUME Init
        PROVE  RecordsOK(run, jobs, outbox, accepted, discarded, excused)
    <2>1. \A m \in Msgs : ~(accepted[m] > 1)
      BY <1>2, <1>5, SendLaterAssumption DEF Init
    <2>2. QED
      BY <1>1, <1>2, <1>3, <1>5, <2>1 DEF RecordsOK
  <1>6. QED
    BY <1>4, <1>5 DEF IInv

LEMMA NextOK == IInv /\ [Next]_vars => IInv'
  <1> SUFFICES ASSUME IInv, [Next]_vars
               PROVE  IInv'
    OBVIOUS
  <1>1. CASE SendUnsentMessages \/ TimerFires \/ FolderParsed \/ AdvanceToNextState
    BY <1>1, SendStepOK
  <1>2. ASSUME NEW m \in Msgs, SaveMessage(m) \/ MessageStep(m) \/ DiscardMessage(m)
        PROVE  IInv'
    BY <1>2, SaveMessageOK, MessageStepOK, DiscardMessageOK
  <1>3. CASE ParseFails \/ HasUnsentMessages \/ SummaryGetsStale
    BY <1>3, CoreUnchanged DEF ParseFails, HasUnsentMessages, SummaryGetsStale, service, ghosts, core
  <1>4. CASE DoShutdownTask \/ NetworkGoes \/ NetworkComes
    BY <1>4, CoreUnchanged DEF DoShutdownTask, NetworkGoes, NetworkComes, service, ghosts, core
  <1>5. ASSUME NEW c \in Commands, Command(c)
        PROVE  IInv'
    BY <1>5, CoreUnchanged DEF Command, service, ghosts, core
  <1>6. ASSUME NEW t \in Tasks, TaskDone(t)
        PROVE  IInv'
    BY <1>6, CoreUnchanged DEF TaskDone, service, ghosts, core
  <1>7. CASE Restart
    BY <1>7, RestartOK
  <1>8. CASE UNCHANGED vars
    BY <1>8, CoreUnchanged DEF vars, service, ghosts, core
  <1>9. QED
    BY <1>1, <1>2, <1>3, <1>4, <1>5, <1>6, <1>7, <1>8 DEF Next

LEMMA Invariance == Spec => []IInv
  BY InitOK, NextOK, PTL DEF Spec

\* Whoever asks and whatever fails, the service never has two messages under
\* way, and knows which one it has.
THEOREM OneAtATime == Spec => []OneMessageAtATime
  <1>1. IInv => OneMessageAtATime
    <2> SUFFICES ASSUME IInv
                 PROVE  OneMessageAtATime
      OBVIOUS
    <2>1. \A j \in jobs : run.sending /\ run.current \in {j.msg, NoMsg}
      BY DEF IInv, RunOK
    <2>2. jobs = {} \/ \E j : jobs = {j}
      <3>1. ASSUME NEW j \in jobs
            PROVE  jobs = {j}
        BY DEF IInv, RunOK
      <3>2. QED BY <3>1
    <2>3. Cardinality(jobs) \in {0, 1}
      BY <2>2, FS_EmptySet, FS_Singleton
    <2>4. QED BY <2>1, <2>3 DEF OneMessageAtATime
  <1>2. QED BY <1>1, Invariance, PTL

\* A message that the servers got twice is one whose first delivery could not
\* be recorded, for any number of messages, restarts and attempts.
THEOREM TwiceExplained == Spec => []SentTwiceExplained
  <1>1. IInv => SentTwiceExplained
    BY DEF IInv, RecordsOK, SentTwiceExplained
  <1>2. QED BY <1>1, Invariance, PTL

\* A message that waits for the user is only under way after the user, or the
\* manager, has asked for everything.
THEOREM LaterWaits == Spec => []LaterOnlyOnRequest
  <1>1. IInv => LaterOnlyOnRequest
    BY DEF IInv, RequestOK, LaterOnlyOnRequest
  <1>2. QED BY <1>1, Invariance, PTL

\* The variables that the invariant above is not about.
OthersOK ==
  /\ parsing \in {"valid", "stale", "service", "nobody"}
  /\ online \in BOOLEAN /\ waiting \in BOOLEAN /\ unnoticed \in BOOLEAN
  /\ timer \in [set: BOOLEAN, armed: BOOLEAN] /\ (timer.armed => timer.set)
  /\ call \in Calls \cup {NoCall} /\ state \in States
  /\ tasks \in [Tasks -> Nat] /\ listeners \in Nat /\ advances \in Nat
  /\ events \in 0..MaxEvents

\* Before its first call the manager has nothing to wait for, and nothing calls
\* AdvanceToNextState.
IdleOK ==
  call.op = "none" => /\ advances = 0 /\ listeners = 0
                      /\ \A t \in Tasks : tasks[t] = 0

LEMMA SendTypes ==
  ASSUME OthersOK, NEW byUser, NEW k \in Nat, NEW n \in Nat,
         \/ Sends(byUser, k, n) /\ UNCHANGED parsing
         \/ Fails(byUser)
  PROVE  /\ parsing' \in {"valid", "stale", "service", "nobody"}
         /\ waiting' \in BOOLEAN /\ unnoticed' \in BOOLEAN
         /\ Sends(byUser, k, n) => advances' \in {k, n, advances}
  <1>1. CASE Sends(byUser, k, n) /\ UNCHANGED parsing
    BY <1>1 DEF OthersOK, Sends, StartNextMessage, EndSendMessages
  <1>2. CASE Fails(byUser)
    <2>1. parsing' \in {"valid", "stale", "service", "nobody"} /\ waiting' = waiting
      BY <1>2 DEF OthersOK, Fails, ReparseFirst
    <2>2. unnoticed' \in BOOLEAN
      BY <1>2 DEF OthersOK, Fails, ReparseFirst, Refuses
    <2>3. Sends(byUser, k, n) => advances' \in {k, n, advances}
      BY DEF Sends, StartNextMessage, EndSendMessages
    <2>4. QED BY <2>1, <2>2, <2>3 DEF OthersOK
  <1>3. QED BY <1>1, <1>2

LEMMA ServiceTypes ==
  ASSUME OthersOK,
         \/ SendUnsentMessages \/ TimerFires \/ FolderParsed \/ ParseFails
         \/ HasUnsentMessages \/ DoShutdownTask
  PROVE  OthersOK'
  <1>1. ASSUME NEW byUser, InternalSendMessages(byUser)
        PROVE  /\ parsing' \in {"valid", "stale", "service", "nobody"}
               /\ waiting' \in BOOLEAN /\ unnoticed' \in BOOLEAN
               /\ advances' \in Nat
    <2>1. listeners \in Nat /\ advances \in Nat
      BY DEF OthersOK
    <2>2. CASE parsing = "valid" /\ Sends(byUser, 0, listeners) /\ UNCHANGED parsing
      BY <2>1, <2>2, SendTypes
    <2>3. CASE Fails(byUser) /\ UNCHANGED advances
      BY <2>1, <2>3, SendTypes
    <2>4. QED BY <1>1, <2>2, <2>3 DEF InternalSendMessages
  <1>2. CASE SendUnsentMessages
    BY <1>1, <1>2 DEF SendUnsentMessages, OthersOK
  <1>3. CASE TimerFires
    BY <1>1, <1>3 DEF TimerFires, OthersOK, NoTimer
  <1>4. CASE FolderParsed
    <2>1. waiting' \in BOOLEAN /\ unnoticed' \in BOOLEAN /\ advances' \in Nat
      <3>1. CASE Sends(userInitiated, 0, listeners)
        <4>1. 0 \in Nat /\ listeners \in Nat /\ advances' \in {0, listeners}
          BY <3>1 DEF OthersOK, Sends, EndSendMessages
        <4>2. waiting' \in {waiting, FALSE} /\ unnoticed' = unnoticed
          BY <3>1 DEF Sends, StartNextMessage, EndSendMessages
        <4>3. waiting \in BOOLEAN /\ unnoticed \in BOOLEAN
          BY DEF OthersOK
        <4>4. QED BY <4>1, <4>2, <4>3
      <3>2. CASE Refuses(userInitiated) /\ UNCHANGED <<waiting, advances>>
        BY <3>2 DEF OthersOK, Refuses
      <3>3. CASE UNCHANGED <<waiting, advances, unnoticed>>
        BY <3>3 DEF OthersOK
      <3>4. QED BY <1>4, <3>1, <3>2, <3>3 DEF FolderParsed
    <2>2. QED BY <1>4, <2>1 DEF FolderParsed, OthersOK
  <1>5. CASE ParseFails \/ HasUnsentMessages
    BY <1>5 DEF ParseFails, HasUnsentMessages, OthersOK, service, manager, ghosts
  <1>6. CASE DoShutdownTask
    BY <1>6 DEF DoShutdownTask, OthersOK, manager, ghosts
  <1>7. QED BY <1>2, <1>3, <1>4, <1>5, <1>6

LEMMA MessageTypes ==
  ASSUME OthersOK, NEW m \in Msgs,
         SaveMessage(m) \/ MessageStep(m) \/ DiscardMessage(m)
  PROVE  OthersOK'
  <1>1. CASE SaveMessage(m)
    BY <1>1 DEF SaveMessage, OthersOK, manager, ghosts
  <1>2. CASE DiscardMessage(m)
    BY <1>2 DEF DiscardMessage, OthersOK, manager, service
  <1>3. ASSUME NEW r, NEW J, MessageDone(r, J), UNCHANGED unnoticed
        PROVE  OthersOK'
    BY <1>3 DEF MessageDone, StartNextMailFileSend, StartNextMessage, EndSendMessages, OthersOK
  <1>4. ASSUME NEW from, NEW to, Goes(m, from, to), unnoticed' \in {unnoticed, TRUE}
        PROVE  OthersOK'
    BY <1>4 DEF Goes, OthersOK, manager
  <1>5. CASE MessageRead(m) \/ NoRecipients(m) \/ ServerAccepts(m)
    BY <1>4, <1>5 DEF MessageRead, NoRecipients, ServerAccepts
  <1>6. CASE ReadFails(m) \/ DeliveryFails(m) \/ CopyFinished(m)
    BY <1>3, <1>6 DEF ReadFails, DeliveryFails, CopyFinished
  <1>7. CASE Delivered(m)
    <2>1. UNCHANGED unnoticed
      BY <1>7 DEF Delivered
    <2>2. \/ Goes(m, "answer", {"copy"})
          \/ \E r : MessageDone(r, jobs \ {Job("answer", m)})
      BY <1>7 DEF Delivered
    <2>3. QED BY <1>3, <1>4, <2>1, <2>2
  <1>8. QED
    BY <1>1, <1>2, <1>5, <1>6, <1>7 DEF MessageStep

LEMMA AdvanceTypes ==
  ASSUME OthersOK, IdleOK, AdvanceToNextState
  PROVE  OthersOK'
  <1> DEFINE k == advances - 1
             s == NextState(state)
  <1>0. call.op \in {"goOnline", "goOffline"}
    BY DEF OthersOK, IdleOK, AdvanceToNextState, Calls, NoCall
  <1>1. k \in Nat
    BY DEF OthersOK, AdvanceToNextState
  <1>2. UNCHANGED <<timer, call, events>>
    BY DEF AdvanceToNextState
  <1>3. CASE ~Advances \/ (call.op = "goOffline" /\ state = "sending")
    <2>1. /\ UNCHANGED <<parsing, waiting, state, tasks, listeners, unnoticed>>
          /\ online' \in BOOLEAN /\ advances' = k
      BY <1>3 DEF AdvanceToNextState, OthersOK
    <2>2. QED BY <1>0, <1>1, <1>2, <2>1 DEF OthersOK
  <1>4. CASE Advances /\ ~(call.op = "goOffline" /\ state = "sending")
    <2>1. s \in States
      <3>1. CASE call.op = "goOnline"
        <4>1. state \in {"none", "sending", "playback"}
          BY <1>4, <3>1 DEF Advances
        <4>2. s = [none |-> "sending", sending |-> "playback", playback |-> "done"][state]
          BY <3>1 DEF NextState
        <4>3. s \in {"sending", "playback", "done"}
          BY <4>1, <4>2
        <4>4. QED BY <4>3 DEF States
      <3>2. CASE call.op # "goOnline"
        <4>1. state \in {"none", "news", "mail"}
          BY <1>4, <1>0, <3>2 DEF Advances
        <4>2. s = [none |-> "news", news |-> "mail", mail |-> "sending"][state]
          BY <3>2 DEF NextState
        <4>3. s \in {"news", "mail", "sending"}
          BY <4>1, <4>2
        <4>4. QED BY <4>3 DEF States
      <3>3. QED BY <3>1, <3>2
    <2> HIDE DEF s, k
    <2>2. CASE state' = s /\ advances' = k /\ UNCHANGED <<parsing, online, waiting, tasks, listeners, unnoticed>>
      BY <1>0, <1>1, <1>2, <2>1, <2>2 DEF OthersOK
    <2>3. CASE Reenter(s, k)
      BY <1>0, <1>1, <1>2, <2>1, <2>3 DEF OthersOK, Reenter
    <2>4. CASE s \in Tasks /\ StartTask(s, s, k)
      <3>1. tasks' \in [Tasks -> Nat] /\ advances' \in Nat /\ unnoticed' \in BOOLEAN
        <4>1. k + 1 \in Nat
          BY <1>1
        <4>2. tasks \in [Tasks -> Nat] /\ unnoticed \in BOOLEAN
          BY DEF OthersOK
        <4>3. [tasks EXCEPT ![s] = @ + 1] \in [Tasks -> Nat]
          BY <2>4, <4>2
        <4>4. QED BY <1>1, <2>4, <4>1, <4>2, <4>3 DEF StartTask
      <3>2. QED
        BY <1>0, <1>2, <2>1, <2>4, <3>1 DEF OthersOK, StartTask
    <2>5. CASE ManagerSends(k)
      <3>1. state' = "sending" /\ UNCHANGED <<online, tasks>> /\ listeners' \in Nat
        <4>1. listeners \in Nat /\ listeners + 1 \in Nat
          BY DEF OthersOK
        <4>2. QED BY <2>5, <4>1 DEF ManagerSends
      <3>2. /\ parsing' \in {"valid", "stale", "service", "nobody"}
            /\ waiting' \in BOOLEAN /\ unnoticed' \in BOOLEAN /\ advances' \in Nat
        <4>1. k + listeners + 1 \in Nat /\ k + 1 \in Nat /\ advances \in Nat
          BY <1>1 DEF OthersOK
        <4>2. CASE advances' = k + 1 /\ UNCHANGED <<parsing, waiting, unnoticed>>
          <5>1. advances' \in Nat
            BY <4>1, <4>2
          <5>2. parsing' = parsing /\ waiting' = waiting /\ unnoticed' = unnoticed
            BY <4>2
          <5>3. QED BY <5>1, <5>2, Zenon DEF OthersOK
        <4>3. CASE Sends(TRUE, k, k + listeners + 1) /\ UNCHANGED parsing
          BY <1>1, <4>1, <4>3, SendTypes
        <4>4. CASE Fails(TRUE) /\ advances' = k + 1
          BY <1>1, <4>1, <4>4, SendTypes
        <4>5. QED BY <2>5, <4>2, <4>3, <4>4 DEF ManagerSends
      <3>3. QED
        BY <1>0, <1>2, <3>1, <3>2 DEF OthersOK, States
    <2>6. QED
      BY <1>4, <2>2, <2>3, <2>4, <2>5 DEF AdvanceToNextState, k, s
  <1>5. QED BY <1>3, <1>4

LEMMA ManagerTypes ==
  ASSUME OthersOK,
         \/ (\E c \in Commands : Command(c)) \/ (\E t \in Tasks : TaskDone(t))
         \/ NetworkGoes \/ NetworkComes \/ SummaryGetsStale \/ Restart
  PROVE  OthersOK'
  <1>1. \A send \in BOOLEAN : CallOfWindow(send) \in Calls
    BY DEF CallOfWindow, NoCall, Calls
  <1>2. ASSUME NEW c \in Commands, Command(c)
        PROVE  OthersOK'
    <2>1. c \in Calls
      BY SendLaterAssumption
    <2>2. /\ events' \in 0..MaxEvents
          /\ UNCHANGED <<parsing, timer, waiting, tasks, listeners, unnoticed>>
      BY <1>2, SendLaterAssumption DEF Command, OthersOK, service, ghosts
    <2>3. CASE GoOnline(c)
      BY <1>1, <2>1, <2>2, <2>3 DEF GoOnline, OthersOK, States
    <2>4. CASE SynchronizeForOffline(c)
      BY <2>1, <2>2, <2>4 DEF SynchronizeForOffline, OthersOK, States
    <2>5. QED BY <1>2, <2>3, <2>4 DEF Command
  <1>3. ASSUME NEW t \in Tasks, TaskDone(t)
        PROVE  OthersOK'
    BY <1>3 DEF TaskDone, OthersOK, service, ghosts
  <1>4. CASE NetworkGoes \/ SummaryGetsStale
    BY <1>4 DEF NetworkGoes, SummaryGetsStale, OthersOK, service, manager, ghosts
  <1>5. CASE NetworkComes
    BY <1>1, <1>5, SendLaterAssumption DEF NetworkComes, OthersOK, service, manager, ghosts, States
  <1>6. CASE Restart
    <2>1. /\ parsing' \in {"valid", "stale", "service", "nobody"}
          /\ online' \in BOOLEAN /\ timer' = NoTimer
          /\ tasks' \in [Tasks -> Nat]
      BY <1>6 DEF Restart, OthersOK
    <2>2. events' \in 0..MaxEvents
      BY <1>6, SendLaterAssumption DEF Restart, OthersOK
    <2>3. QED
      <3>1. NoTimer \in [set: BOOLEAN, armed: BOOLEAN] /\ ~NoTimer.armed
        BY DEF NoTimer
      <3>2. call' \in Calls \cup {NoCall} /\ state' \in States /\ waiting' = FALSE
            /\ listeners' = 0 /\ advances' = 0 /\ unnoticed' = FALSE
        BY <1>6 DEF Restart, States
      <3>3. QED BY <2>1, <2>2, <3>1, <3>2 DEF OthersOK
  <1>7. QED BY <1>2, <1>3, <1>4, <1>5, <1>6

LEMMA IdleKept == OthersOK /\ IdleOK /\ [Next]_vars => IdleOK'
  <1> SUFFICES ASSUME OthersOK, IdleOK, [Next]_vars, call'.op = "none"
               PROVE  /\ advances' = 0 /\ listeners' = 0
                      /\ \A t \in Tasks : tasks'[t] = 0
    BY DEF IdleOK
  <1>1. CASE Restart
    BY <1>1 DEF Restart
  <1>2. ASSUME NEW c \in Commands, Command(c)
        PROVE  FALSE
    <2>1. c \in Calls /\ \A send \in BOOLEAN : CallOfWindow(send) \in Calls
      BY SendLaterAssumption DEF CallOfWindow, NoCall, Calls
    <2>2. call' \in Calls
      BY <1>2, <2>1 DEF Command, GoOnline, SynchronizeForOffline
    <2>3. QED BY <2>2 DEF Calls
  <1>3. CASE NetworkComes
    <2>1. \A send \in BOOLEAN : CallOfWindow(send).op = "goOnline"
      BY DEF CallOfWindow, NoCall
    <2>2. UNCHANGED <<call, advances, listeners, tasks>>
      BY <1>3, <2>1 DEF NetworkComes
    <2>3. QED BY <2>2 DEF IdleOK
  <1>4. ASSUME UNCHANGED <<call, listeners, tasks>>, advances' \in {0, listeners, advances}
        PROVE  /\ advances' = 0 /\ listeners' = 0
               /\ \A t \in Tasks : tasks'[t] = 0
    BY <1>4 DEF IdleOK
  <1>5. CASE AdvanceToNextState
    BY <1>5 DEF AdvanceToNextState, IdleOK
  <1>6. ASSUME NEW t \in Tasks, TaskDone(t)
        PROVE  FALSE
    BY <1>6 DEF TaskDone, IdleOK
  <1>7. CASE SendUnsentMessages \/ TimerFires \/ FolderParsed
    BY <1>4, <1>7 DEF SendUnsentMessages, TimerFires, FolderParsed, InternalSendMessages,
                      Sends, StartNextMessage, EndSendMessages
  <1>8. CASE ParseFails \/ HasUnsentMessages \/ DoShutdownTask \/ NetworkGoes
             \/ SummaryGetsStale \/ UNCHANGED vars
    BY <1>4, <1>8 DEF ParseFails, HasUnsentMessages, DoShutdownTask, NetworkGoes,
                      SummaryGetsStale, vars, manager
  <1>9. ASSUME NEW m \in Msgs, SaveMessage(m) \/ DiscardMessage(m)
        PROVE  UNCHANGED <<call, listeners, tasks, advances>>
    BY <1>9 DEF SaveMessage, DiscardMessage, manager
  <1>10. ASSUME NEW m \in Msgs, MessageStep(m)
         PROVE  UNCHANGED <<call, listeners, tasks>> /\ advances' \in {0, listeners, advances}
    <2>1. (\E from, to : Goes(m, from, to)) \/ \E r, J : MessageDone(r, J)
      BY <1>10 DEF MessageStep, MessageRead, ReadFails, NoRecipients, ServerAccepts,
                   DeliveryFails, Delivered, CopyFinished
    <2>2. QED
      BY <2>1 DEF Goes, manager, MessageDone, StartNextMailFileSend, StartNextMessage,
                  EndSendMessages
  <1>11. QED
    BY <1>1, <1>2, <1>3, <1>4, <1>5, <1>6, <1>7, <1>8, <1>9, <1>10 DEF Next

\* Every variable keeps its type: a timer that will fire is known to be set,
\* calls that are to come are never negative in number, and so on.
THEOREM TypeCorrect == Spec => []TypeOK
  <1>1. Init => OthersOK
    <2> SUFFICES ASSUME Init
                 PROVE  OthersOK
      OBVIOUS
    <2>1. tasks \in [Tasks -> Nat]
      BY DEF Init
    <2>2. NoTimer \in [set: BOOLEAN, armed: BOOLEAN] /\ ~NoTimer.armed
      BY DEF NoTimer
    <2>3. /\ call \in Calls \cup {NoCall} /\ state \in States /\ waiting = FALSE
          /\ timer = NoTimer /\ listeners = 0 /\ advances = 0 /\ unnoticed = FALSE
          /\ parsing = "valid" /\ online \in BOOLEAN /\ events = 0
      BY DEF Init, States
    <2>4. events \in 0..MaxEvents /\ listeners \in Nat /\ advances \in Nat
      BY <2>3, SendLaterAssumption
    <2>5. QED BY <2>1, <2>2, <2>3, <2>4, Zenon DEF OthersOK
  <1>2. OthersOK /\ IdleOK /\ [Next]_vars => OthersOK'
    <2> SUFFICES ASSUME OthersOK, IdleOK, [Next]_vars
                 PROVE  OthersOK'
      OBVIOUS
    <2>1. CASE UNCHANGED vars
      BY <2>1 DEF vars, service, manager, ghosts, OthersOK
    <2>2. QED
      BY <2>1, ServiceTypes, MessageTypes, AdvanceTypes, ManagerTypes DEF Next
  <1>3. IInv /\ OthersOK => TypeOK
    BY DEF IInv, RunOK, Runs, RecordsOK, RequestOK, Ops, OthersOK, TypeOK
  <1>4. Init => IdleOK
    BY DEF Init, IdleOK
  <1>5. QED
    BY <1>1, <1>2, <1>3, <1>4, IdleKept, Invariance, PTL DEF Spec

\* Seen from outside, the folder is the abstract outbox: no message leaves it
\* but those a server has accepted and those the user threw away.
THEOREM FolderIsOutbox == Spec => OutboxSpec
  <1> DEFINE Acc == {m \in Msgs : accepted[m] > 0}
  <1>1. Init => Store!Init
    BY SendLaterAssumption DEF Init, Store!Init
  <1>2. IInv /\ [Next]_vars => [Store!Next]_(Store!vars)
    <2> SUFFICES ASSUME IInv, [Next]_vars
                 PROVE  Store!Next \/ UNCHANGED Store!vars
      OBVIOUS
    <2>1. CASE UNCHANGED <<outbox, accepted, discarded>>
      BY <2>1 DEF Store!vars
    <2>2. ASSUME NEW m \in Msgs, SaveMessage(m)
          PROVE  Store!Save(m)
      <3>1. ~(accepted[m] > 0)
        BY <2>2 DEF SaveMessage
      <3>2. QED BY <2>2, <3>1 DEF SaveMessage, ghosts, Store!Save
    <2>3. ASSUME NEW m \in Msgs, DiscardMessage(m)
          PROVE  Store!Discard(m)
      BY <2>3 DEF DiscardMessage, Store!Discard
    <2>4. ASSUME NEW m \in Msgs, ServerAccepts(m)
          PROVE  Store!Accept(m)
      <3>1. m \in outbox \cup discarded
        BY <2>4, UnderWay DEF ServerAccepts, Goes, Ops
      <3>2. accepted \in [Msgs -> 0..MaxTries] /\ MaxTries \in Nat \ {0}
        BY SendLaterAssumption DEF IInv, RecordsOK
      <3>3. accepted' = [accepted EXCEPT ![m] = IF @ < MaxTries THEN @ + 1 ELSE @]
        BY <2>4 DEF ServerAccepts
      <3>4. accepted'[m] > 0 /\ \A n \in Msgs : n # m => accepted'[n] = accepted[n]
        BY <3>2, <3>3
      <3>5. Acc' = Acc \cup {m}
        BY <3>4
      <3>6. QED
        BY <2>4, <3>1, <3>5 DEF ServerAccepts, Goes, Store!Accept
    <2>5. ASSUME NEW m \in Msgs, Delivered(m)
          PROVE  Store!Remove(m) \/ UNCHANGED <<outbox, accepted, discarded>>
      <3>1. run.current = m /\ accepted[m] > 0
        BY <2>5, UnderWay DEF Delivered, Ops
      <3>2. /\ outbox' \in {outbox, outbox \ {m}}
            /\ UNCHANGED <<accepted, discarded>>
        BY <2>5, <3>1 DEF Delivered, Goes, MessageDone
      <3>3. QED BY <3>1, <3>2 DEF Store!Remove
    <2>6. ASSUME NEW m \in Msgs, MessageRead(m) \/ ReadFails(m) \/ NoRecipients(m)
                                 \/ DeliveryFails(m) \/ CopyFinished(m)
          PROVE  UNCHANGED <<outbox, accepted, discarded>>
      BY <2>6 DEF MessageRead, ReadFails, NoRecipients, DeliveryFails, CopyFinished,
                  Goes, MessageDone
    <2>7. ASSUME NEW m \in Msgs, MessageStep(m)
          PROVE  Store!Next \/ UNCHANGED Store!vars
      BY <2>1, <2>4, <2>5, <2>6, <2>7 DEF MessageStep, Store!Next
    <2>8. CASE SendUnsentMessages \/ TimerFires \/ FolderParsed \/ ParseFails
               \/ HasUnsentMessages \/ DoShutdownTask \/ Restart \/ SummaryGetsStale
      BY <2>1, <2>8 DEF SendUnsentMessages, TimerFires, FolderParsed, ParseFails,
           HasUnsentMessages, DoShutdownTask, Restart, SummaryGetsStale, ghosts
    <2>9. CASE AdvanceToNextState
      BY <2>1, <2>9 DEF AdvanceToNextState, Reenter, StartTask, ManagerSends
    <2>10. CASE (\E c \in Commands : Command(c)) \/ (\E t \in Tasks : TaskDone(t))
                \/ NetworkGoes \/ NetworkComes \/ UNCHANGED vars
      BY <2>1, <2>10 DEF Command, TaskDone, NetworkGoes, NetworkComes, vars, ghosts
    <2>11. QED
      BY <2>2, <2>3, <2>7, <2>8, <2>9, <2>10 DEF Next, Store!Next
  <1>3. QED
    BY <1>1, <1>2, Invariance, PTL DEF Spec, OutboxSpec, Store!Spec
==============================================================================
