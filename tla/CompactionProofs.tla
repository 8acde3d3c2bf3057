--------------------------- MODULE CompactionProofs ---------------------------
(***************************************************************************)
(* Proofs about Compaction, for any folders, messages and compactors, and  *)
(* any number of crashes, in the surroundings that Tame describes: nobody  *)
(* touches a folder that is being compacted, folders are not asked for     *)
(* twice, and the copy can be moved over the mailbox.                      *)
(*                                                                         *)
(* The invariant says what every compactor holds and has finished in each  *)
(* of its phases, to which folder every temporary file belongs, and which  *)
(* summaries may be believed.                                              *)
(***************************************************************************)
EXTENDS Compaction, SequenceTheorems, TLAPS

Tame == Behaviours \cap {"deletes", "moveFails", "again"} = {}

\* The phases in which a compactor has its folder's semaphore, those in which
\* the mailbox is still the old one, and those in which the copy is in the
\* temporary file.
Old == {"copying", "finish", "removeSummary", "removeMailbox"}
Separate == Old \cup {"moveMailbox"}
Locking == Separate \cup {"moveSummary", "reopen", "stuck"}

Phase(c) == comp[c].phase
Folder(c) == comp[c].folder

\* Sizes of files are sets of messages.
Disjoint(n, o) == Size(n) \cap Size(o) = {}

MainThreadOK ==
  \A c, d \in Compactors : Phase(c) \in MainThread /\ Phase(d) \in MainThread => c = d

LocksOK ==
  \A c \in Compactors : Phase(c) \in Locking => holder[Folder(c)] = c

\* Folders that wait for a compactor have messages, and wait for one only.
AskedOK ==
  /\ \A c, d \in Compactors : c # d => Asked(c) \cap Asked(d) = {}
  /\ \A c \in Compactors : Phase(c) # "idle" =>
       /\ Folder(c) \notin comp[c].rest
       /\ \A f \in comp[c].rest : HasExpunged(f)
       /\ Phase(c) \in {"compact", "parsing"} => HasExpunged(Folder(c))

\* A temporary file is in use by one compactor, or is left over.
TempsOK ==
  /\ \A c \in Compactors : Phase(c) \in Separate =>
       mbox[comp[c].temp] # NoMailbox /\ mbox[comp[c].temp].expunged = {}
  /\ \A c, d \in Compactors : Phase(c) \in Separate /\ Phase(d) \in Separate =>
       c = d \/ comp[c].temp # comp[d].temp
  /\ \A t \in Temps : summary[t] # NoSummary => summary[t].size = {}

HeirsOK ==
  \A f \in Folders : \A t \in heir[f] :
    /\ mbox[t] # NoMailbox
    /\ \A c \in Compactors : Phase(c) \in Separate /\ comp[c].temp = t =>
         Phase(c) = "moveMailbox" /\ Folder(c) = f
    /\ Disjoint(f, t)
    /\ \A s \in heir[f] : s # t => Disjoint(s, t)

\* A summary is right when it may be used: it matches the mailbox, or mail is
\* being delivered.
SummaryOK ==
  \A f \in Folders : mbox[f] # NoMailbox /\ (Valid(f) \/ holder[f] = "delivery") =>
    Describes(summary[f].at, mbox[f])

MailboxOK ==
  /\ \A f \in Folders : mbox[f] = NoMailbox =>
       \E c \in Compactors : Phase(c) = "moveMailbox" /\ Folder(c) = f
  /\ \A f \in Folders : holder[f] = "delivery" =>
       mbox[f] # NoMailbox /\ summary[f] # NoSummary

\* What a compactor r has copied of the mailbox b, with the summary h, to the
\* file e.
CopyingOK(r, b, h, e) ==
  /\ b # NoMailbox /\ h # NoSummary
  /\ r.keys = h.at /\ Describes(h.at, b)
  /\ r.todo \subseteq Keys(h.at)
  /\ r.counted = Keys(h.at) \ r.todo
  /\ Range(e.msgs) = r.counted
  /\ Describes(r.headers, e)
  /\ r.phase = "finish" => r.todo = {}

\* The copy e with its summary g, in the phases p until both have taken the
\* place of the folder's.
CopiedOK(p, b, h, e, g) ==
  /\ g # NoSummary
  /\ p # "removeSummary" => h = NoSummary
  /\ p \in {"removeSummary", "removeMailbox"} =>
       b # NoMailbox /\ Range(e.msgs) = Range(b.msgs) \ b.expunged
  /\ p = "moveMailbox" => b = NoMailbox
  /\ IF p = "moveSummary" THEN e = NoMailbox /\ b # NoMailbox /\ Describes(g.at, b)
                          ELSE Describes(g.at, e)

Copying == {"copying", "finish"}
Replacing == {"removeSummary", "removeMailbox", "moveMailbox", "moveSummary"}

WorkOK ==
  \A c \in Compactors :
    LET f == Folder(c)  t == comp[c].temp IN
    /\ Phase(c) \in Copying => CopyingOK(comp[c], mbox[f], summary[f], mbox[t])
    /\ Phase(c) \in Replacing =>
         CopiedOK(Phase(c), mbox[f], summary[f], mbox[t], summary[t])
    /\ Phase(c) = "moveMailbox" => t \in heir[f]
    /\ Phase(c) = "reopen" =>
         mbox[f] # NoMailbox /\ summary[f] # NoSummary /\ Describes(summary[f].at, mbox[f])

IInv ==
  /\ TypeOK
  /\ MainThreadOK /\ LocksOK /\ AskedOK
  /\ TempsOK /\ HeirsOK
  /\ SummaryOK /\ MailboxOK /\ WorkOK
------------------------------------------------------------------------------
(***************************************************************************)
(* Mailboxes and the headers of their messages.                            *)
(***************************************************************************)
Mailboxes == {b \in Mailbox : IsInjective(b.msgs) /\ b.expunged \subseteq Range(b.msgs)}

LEMMA RangeOfFile ==
  ASSUME NEW s \in Seq(Msgs)
  PROVE  /\ DOMAIN s = 1..Len(s) /\ Len(s) \in Nat
         /\ \A x : x \in Range(s) <=> \E i \in 1..Len(s) : s[i] = x
         /\ Range(s) \subseteq Msgs
  <1>1. DOMAIN s = 1..Len(s) /\ Len(s) \in Nat
    OBVIOUS
  <1>2. \A x : x \in Range(s) <=> \E i \in DOMAIN s : s[i] = x
    BY Zenon DEF Range
  <1>3. \A i \in 1..Len(s) : s[i] \in Msgs
    OBVIOUS
  <1>4. \A x : x \in Range(s) <=> \E i \in 1..Len(s) : s[i] = x
    BY <1>1, <1>2, Zenon
  <1>5. Range(s) \subseteq Msgs
    BY <1>3, <1>4, Zenon
  <1>6. QED BY <1>1, <1>4, <1>5

\* A message that is appended to a file without it.
LEMMA AppendNew ==
  ASSUME NEW b \in Mailboxes, NEW m \in Msgs, m \notin Range(b.msgs)
  PROVE  /\ [b EXCEPT !.msgs = Append(@, m)] \in Mailboxes
         /\ Range(Append(b.msgs, m)) = Range(b.msgs) \cup {m}
  <1>1. b \in Mailbox /\ b.msgs \in Seq(Msgs)
    BY DEF Mailboxes, Mailbox
  <1>2. /\ Append(b.msgs, m) \in Seq(Msgs)
        /\ Len(Append(b.msgs, m)) = Len(b.msgs) + 1 /\ Len(b.msgs) \in Nat
        /\ Append(b.msgs, m)[Len(b.msgs) + 1] = m
        /\ \A i \in 1..Len(b.msgs) : Append(b.msgs, m)[i] = b.msgs[i]
    BY <1>1
  <1>3. Range(Append(b.msgs, m)) = Range(b.msgs) \cup {m}
    <2>1. \A x : x \in Range(b.msgs) <=> \E i \in 1..Len(b.msgs) : b.msgs[i] = x
      BY <1>1, RangeOfFile
    <2>2. \A x : x \in Range(Append(b.msgs, m)) <=>
                    \E i \in 1..Len(Append(b.msgs, m)) : Append(b.msgs, m)[i] = x
      BY <1>2, RangeOfFile, Zenon
    <2>3. \A x : x \in Range(Append(b.msgs, m)) <=> x \in Range(b.msgs) \/ x = m
      BY <1>2, <2>1, <2>2
    <2>4. QED BY <2>3
  <1>4. IsInjective(Append(b.msgs, m))
    <2>1. \A i \in 1..Len(b.msgs) : b.msgs[i] # m
      BY <1>1, RangeOfFile
    <2>2. IsInjective(b.msgs)
      BY DEF Mailboxes
    <2>3. QED
      BY <1>1, <1>2, <2>1, <2>2, RangeOfFile DEF IsInjective
  <1>5. QED
    BY <1>1, <1>2, <1>3, <1>4 DEF Mailboxes, Mailbox

\* The header it is given.
LEMMA AppendDescribes ==
  ASSUME NEW b \in Mailboxes, NEW m \in Msgs, m \notin Range(b.msgs),
         NEW h \in Headers, Describes(h, b)
  PROVE  /\ [h EXCEPT ![m] = Len(b.msgs) + 1] \in Headers
         /\ Describes([h EXCEPT ![m] = Len(b.msgs) + 1], [b EXCEPT !.msgs = Append(@, m)])
  <1> DEFINE g == [h EXCEPT ![m] = Len(b.msgs) + 1]
             e == [b EXCEPT !.msgs = Append(@, m)]
  <1>1. b \in Mailbox /\ b.msgs \in Seq(Msgs) /\ m \notin b.expunged
    BY DEF Mailboxes, Mailbox
  <1>2. /\ Append(b.msgs, m) \in Seq(Msgs)
        /\ Len(Append(b.msgs, m)) = Len(b.msgs) + 1 /\ Len(b.msgs) \in Nat
        /\ Append(b.msgs, m)[Len(b.msgs) + 1] = m
        /\ \A i \in 1..Len(b.msgs) : Append(b.msgs, m)[i] = b.msgs[i]
    BY <1>1
  <1>3. e.msgs = Append(b.msgs, m) /\ e.expunged = b.expunged
    BY <1>1 DEF Mailbox
  <1>4. g \in Headers /\ g[m] = Len(b.msgs) + 1 /\ \A n \in Msgs : n # m => g[n] = h[n]
    BY <1>2 DEF Headers
  <1>5. Range(e.msgs) = Range(b.msgs) \cup {m}
    BY <1>3, AppendNew
  <1>6. DOMAIN e.msgs = 1..(Len(b.msgs) + 1) /\ DOMAIN b.msgs = 1..Len(b.msgs)
    BY <1>1, <1>2, <1>3
  <1>7. ASSUME NEW n \in Msgs
        PROVE  IF n \in Range(e.msgs) \ e.expunged
               THEN g[n] \in DOMAIN e.msgs /\ e.msgs[g[n]] = n
               ELSE g[n] = 0
    <2>1. CASE n = m
      BY <1>1, <1>2, <1>3, <1>4, <1>5, <1>6, <2>1
    <2>2. CASE n # m /\ n \in Range(b.msgs) \ b.expunged
      <3>1. h[n] \in 1..Len(b.msgs) /\ b.msgs[h[n]] = n
        BY <1>6, <2>2 DEF Describes
      <3>2. QED
        BY <1>2, <1>3, <1>4, <1>5, <1>6, <2>2, <3>1
    <2>3. CASE n # m /\ n \notin Range(b.msgs) \ b.expunged
      <3>1. h[n] = 0
        BY <2>3 DEF Describes
      <3>2. QED
        BY <1>3, <1>4, <1>5, <2>3, <3>1
    <2>4. QED BY <2>1, <2>2, <2>3
  <1>8. QED
    BY <1>4, <1>7 DEF Describes

\* The headers of a described file are those of its live messages.
LEMMA DescribedKeys ==
  ASSUME NEW b \in Mailboxes, NEW h \in Headers, Describes(h, b)
  PROVE  /\ Keys(h) = Range(b.msgs) \ b.expunged
         /\ \A m \in Keys(h) : h[m] \in DOMAIN b.msgs /\ b.msgs[h[m]] = m
  <1>1. b.msgs \in Seq(Msgs) /\ DOMAIN b.msgs = 1..Len(b.msgs) /\ Range(b.msgs) \subseteq Msgs
    BY RangeOfFile DEF Mailboxes, Mailbox
  <1>2. \A m \in Msgs : m \in Range(b.msgs) \ b.expunged => h[m] # 0
    BY <1>1 DEF Describes
  <1>3. \A m \in Msgs : m \notin Range(b.msgs) \ b.expunged => h[m] = 0
    BY DEF Describes
  <1>4. Keys(h) = Range(b.msgs) \ b.expunged
    BY <1>1, <1>2, <1>3 DEF Keys
  <1>5. QED
    BY <1>1, <1>4 DEF Describes

\* A message that is flagged, and whose header goes.
LEMMA FlagDescribes ==
  ASSUME NEW b \in Mailboxes, NEW h \in Headers, Describes(h, b), NEW m \in Keys(h)
  PROVE  /\ [b EXCEPT !.expunged = @ \cup {m}] \in Mailboxes
         /\ [h EXCEPT ![m] = 0] \in Headers
         /\ Describes([h EXCEPT ![m] = 0], [b EXCEPT !.expunged = @ \cup {m}])
  <1> DEFINE g == [h EXCEPT ![m] = 0]
             e == [b EXCEPT !.expunged = @ \cup {m}]
  <1>1. b \in Mailbox /\ m \in Msgs /\ m \in Range(b.msgs)
    BY DescribedKeys DEF Mailboxes, Keys
  <1>2. e.msgs = b.msgs /\ e.expunged = b.expunged \cup {m} /\ e \in Mailbox
    BY <1>1 DEF Mailbox
  <1>3. g \in Headers /\ g[m] = 0 /\ \A n \in Msgs : n # m => g[n] = h[n]
    BY <1>1 DEF Headers
  <1>4. e \in Mailboxes
    BY <1>1, <1>2 DEF Mailboxes
  <1>5. Describes(g, e)
    BY <1>1, <1>2, <1>3 DEF Describes
  <1>6. QED BY <1>3, <1>4, <1>5

\* What the parser writes.
LEMMA TrueHeadersDescribe ==
  ASSUME NEW b \in Mailboxes
  PROVE  TrueHeaders(b) \in Headers /\ Describes(TrueHeaders(b), b)
  <1>1. b.msgs \in Seq(Msgs) /\ DOMAIN b.msgs = 1..Len(b.msgs) /\ Len(b.msgs) \in Nat
    BY RangeOfFile DEF Mailboxes, Mailbox
  <1>2. ASSUME NEW m \in Msgs, m \in Range(b.msgs) \ b.expunged
        PROVE  TrueHeaders(b)[m] \in DOMAIN b.msgs /\ b.msgs[TrueHeaders(b)[m]] = m
    <2>1. \E i \in DOMAIN b.msgs : b.msgs[i] = m
      BY <1>2 DEF Range
    <2>2. TrueHeaders(b)[m] = CHOOSE i \in DOMAIN b.msgs : b.msgs[i] = m
      BY <1>2 DEF TrueHeaders
    <2>3. QED BY <2>1, <2>2
  <1>3. ASSUME NEW m \in Msgs, m \notin Range(b.msgs) \ b.expunged
        PROVE  TrueHeaders(b)[m] = 0
    BY <1>3 DEF TrueHeaders
  <1>4. \A m \in Msgs : TrueHeaders(b)[m] \in Nat
    BY <1>1, <1>2, <1>3
  <1>5. TrueHeaders(b) \in Headers
    BY <1>4 DEF TrueHeaders, Headers
  <1>6. QED BY <1>2, <1>3, <1>5 DEF Describes

\* A file whose last message is lost is noticed.
LEMMA LossIsSeen ==
  ASSUME NEW s \in Seq(Msgs), IsInjective(s), NEW kept \in Flushed(s), Range(kept) = Range(s)
  PROVE  kept = s
  <1> SUFFICES ASSUME s # <<>>, kept = SubSeq(s, 1, Len(s) - 1)
               PROVE  FALSE
    BY DEF Flushed
  <1>1. Len(s) \in Nat \ {0} /\ DOMAIN s = 1..Len(s)
    OBVIOUS
  <1>2. Len(kept) = Len(s) - 1 /\ kept \in Seq(Msgs)
        /\ \A i \in 1..(Len(s) - 1) : kept[i] = s[i]
    <2>1. \A i \in 1..(Len(s) - 1) : s[i] \in Msgs
      BY <1>1
    <2>2. 1 \in Int /\ Len(s) - 1 \in Int
      BY <1>1
    <2>3. QED BY <1>1, <2>1, <2>2, SubSeqProperties
  <1>3. s[Len(s)] \in Range(kept)
    <2>1. Len(s) \in DOMAIN s
      BY <1>1
    <2>2. QED BY <2>1 DEF Range
  <1>4. PICK i \in 1..(Len(s) - 1) : kept[i] = s[Len(s)]
    <2>1. \A x : x \in Range(kept) <=> \E i \in 1..Len(kept) : kept[i] = x
      BY <1>2, RangeOfFile
    <2>2. \E i \in 1..Len(kept) : kept[i] = s[Len(s)]
      BY <1>3, <2>1, Zenon
    <2>3. QED BY <1>2, <2>2
  <1>5. s[i] = s[Len(s)]
    BY <1>2, <1>4, Zenon
  <1>6. i # Len(s) /\ i \in DOMAIN s /\ Len(s) \in DOMAIN s
    <2>1. \A n \in Nat \ {0} : n \in 1..n /\ \A j \in 1..(n - 1) : j # n /\ j \in 1..n
      OBVIOUS
    <2>2. QED BY <1>1, <2>1
  <1>7. QED BY <1>5, <1>6 DEF IsInjective
------------------------------------------------------------------------------
(***************************************************************************)
(* What the types say of names, files and compactors.                      *)
(***************************************************************************)
LEMMA NameFacts ==
  /\ \A f \in Folders : f \in Names /\ f \notin Temps
  /\ \A t \in Temps : t \in Names /\ t \notin Folders
  /\ \A c \in Compactors : c \notin {"nobody", "delivery", "parser"}
  BY CompactionAssumption DEF Names, Others

LEMMA FileFacts ==
  ASSUME TypeOK, NEW n \in Names
  PROVE  /\ mbox[n] # NoMailbox => mbox[n] \in Mailboxes
         /\ summary[n] # NoSummary =>
              summary[n] \in Summary /\ summary[n].at \in Headers /\ summary[n].size \subseteq Msgs
         /\ Size(n) \subseteq Msgs
         /\ Live(n) \subseteq Size(n)
  <1>1. mbox[n] # NoMailbox => mbox[n] \in Mailboxes
    BY DEF TypeOK, Mailboxes
  <1>2. mbox[n] # NoMailbox => Range(mbox[n].msgs) \subseteq Msgs
    BY <1>1, RangeOfFile DEF Mailboxes, Mailbox
  <1>3. summary[n] # NoSummary =>
          summary[n] \in Summary /\ summary[n].at \in Headers /\ summary[n].size \subseteq Msgs
    BY DEF TypeOK, Summary
  <1>4. QED
    BY <1>1, <1>2, <1>3 DEF Size, Live

Phases == {"idle", "compact", "parsing"} \cup Locking
WorkPhases == Locking \ {"stuck"}

LEMMA PhaseFacts ==
  ASSUME TypeOK, NEW c \in Compactors
  PROVE  /\ Phase(c) \in Phases
         /\ Phase(c) = "idle" <=> comp[c] = Idle
         /\ Phase(c) # "idle" => Folder(c) \in Folders /\ comp[c].rest \subseteq Folders
         /\ Phase(c) \in {"compact", "parsing", "stuck"} => comp[c] \in Waiting
         /\ Phase(c) \in WorkPhases =>
              /\ comp[c] \in Working
              /\ comp[c].temp \in Temps /\ comp[c].keys \in Headers
              /\ comp[c].todo \subseteq Msgs /\ comp[c].headers \in Headers
              /\ comp[c].counted \subseteq Msgs
  <1>1. comp[c] = Idle \/ comp[c] \in Waiting \/ comp[c] \in Working
    BY DEF TypeOK
  <1>2. CASE comp[c] = Idle
    BY <1>2 DEF Idle, Phase, Phases, WorkPhases, Locking, Separate, Old
  <1>3. CASE comp[c] \in Waiting
    BY <1>3 DEF Idle, Waiting, Phase, Folder, Phases, WorkPhases, Locking, Separate, Old
  <1>4. CASE comp[c] \in Working
    BY <1>4 DEF Idle, Working, FileOps, Phase, Folder, Phases, WorkPhases, Locking, Separate, Old
  <1>5. QED BY <1>1, <1>2, <1>3, <1>4

\* A compactor that goes on to its next phase.
LEMMA EnterFacts ==
  ASSUME TypeOK, NEW c \in Compactors, Phase(c) \in WorkPhases,
         NEW p \in {"copying", "finish"} \cup FileOps, Enter(c, p)
  PROVE  /\ comp' \in [Compactors -> {Idle} \cup Waiting \cup Working]
         /\ \A d \in Compactors : d # c => comp'[d] = comp[d]
         /\ comp'[c] = [comp[c] EXCEPT !.phase = p]
         /\ comp'[c] \in Working
         /\ comp'[c].phase = p
         /\ comp'[c].folder = comp[c].folder /\ comp'[c].rest = comp[c].rest
         /\ comp'[c].temp = comp[c].temp /\ comp'[c].keys = comp[c].keys
         /\ comp'[c].todo = comp[c].todo /\ comp'[c].headers = comp[c].headers
         /\ comp'[c].counted = comp[c].counted
  <1>1. comp[c] \in Working
    BY PhaseFacts
  <1>2. comp' = [comp EXCEPT ![c] = [comp[c] EXCEPT !.phase = p]]
    BY DEF Enter, Become
  <1>3. comp \in [Compactors -> {Idle} \cup Waiting \cup Working]
    BY DEF TypeOK
  <1>4. comp'[c] = [comp[c] EXCEPT !.phase = p] /\ \A d \in Compactors : d # c => comp'[d] = comp[d]
    BY <1>2, <1>3
  <1>5. [comp[c] EXCEPT !.phase = p] \in Working
    BY <1>1 DEF Working
  <1>6. comp' \in [Compactors -> {Idle} \cup Waiting \cup Working]
    BY <1>2, <1>3, <1>5
  <1>7. QED
    BY <1>1, <1>4, <1>5, <1>6 DEF Working

\* One that goes on to its next folder, or is done.
LEMMA NextFacts ==
  ASSUME TypeOK, NEW c \in Compactors, Phase(c) # "idle",
         CompactNextFolder(c) \/ Become(c, Idle)
  PROVE  \E r :
           /\ comp' = [comp EXCEPT ![c] = r]
           /\ \/ r = Idle
              \/ \E f \in comp[c].rest : r = About(f, comp[c].rest \ {f}, "compact")
  BY DEF CompactNextFolder, Become

LEMMA AboutFacts ==
  ASSUME NEW f \in Folders, NEW S, S \subseteq Folders,
         NEW p \in {"compact", "parsing", "stuck"}
  PROVE  /\ About(f, S, p) \in Waiting /\ About(f, S, p) # Idle
         /\ About(f, S, p).phase = p /\ About(f, S, p).folder = f /\ About(f, S, p).rest = S
  BY DEF About, Waiting, Idle

\* Where only one compactor changes.
LEMMA BecomeFacts ==
  ASSUME TypeOK, NEW c \in Compactors, NEW r, comp' = [comp EXCEPT ![c] = r]
  PROVE  /\ comp'[c] = r
         /\ \A d \in Compactors : d # c => comp'[d] = comp[d]
         /\ r \in {Idle} \cup Waiting \cup Working =>
              comp' \in [Compactors -> {Idle} \cup Waiting \cup Working]
  BY DEF TypeOK

\* The main thread: nobody else is on it, or it is free.
LEMMA OnlyOne ==
  ASSUME MainThreadOK, NEW c \in Compactors, Phase(c) \in MainThread \/ MainThreadFree,
         NEW d \in Compactors, d # c
  PROVE  Phase(d) \notin MainThread
  BY DEF MainThreadOK, MainThreadFree, Phase
------------------------------------------------------------------------------
(***************************************************************************)
(* Steps of one compactor.                                                 *)
(***************************************************************************)
\* It keeps to the folders it was asked for, and the folders that wait are
\* left alone.
LEMMA ControlOK ==
  ASSUME TypeOK, MainThreadOK, AskedOK,
         NEW c \in Compactors, Phase(c) # "idle",
         NEW r \in {Idle} \cup Waiting \cup Working, comp' = [comp EXCEPT ![c] = r],
         r.phase \in MainThread => Phase(c) \in MainThread \/ MainThreadFree,
         r # Idle => /\ r.phase # "idle"
                     /\ r.folder \in Asked(c) /\ r.rest \subseteq comp[c].rest
                     /\ r.folder \notin r.rest
                     /\ r.phase \in {"compact", "parsing"} => HasExpunged(r.folder)',
         \A f \in Folders : HasExpunged(f) /\ f # Folder(c) => HasExpunged(f)'
  PROVE  MainThreadOK' /\ AskedOK'
  <1>1. comp'[c] = r /\ \A d \in Compactors : d # c => comp'[d] = comp[d]
    BY BecomeFacts
  <1>2. Idle.phase = "idle" /\ "idle" \notin MainThread
    BY DEF Idle, MainThread, FileOps
  <1>3. MainThreadOK'
    <2>1. r.phase \in MainThread => \A d \in Compactors : d # c => Phase(d) \notin MainThread
      BY OnlyOne
    <2>2. QED BY <1>1, <2>1 DEF MainThreadOK, Phase
  <1>4. Asked(c) = {Folder(c)} \cup comp[c].rest
    BY PhaseFacts DEF Asked, Folder
  <1>5. Asked(c)' \subseteq Asked(c)
    BY <1>1, <1>4 DEF Asked
  <1>6. \A d \in Compactors : d # c => Asked(d)' = Asked(d)
    BY <1>1 DEF Asked
  <1>7. \A a, d \in Compactors : a # d => Asked(a)' \cap Asked(d)' = {}
    BY <1>5, <1>6 DEF AskedOK
  <1>8. ASSUME NEW d \in Compactors, Phase(d)' # "idle"
        PROVE  /\ Folder(d)' \notin comp'[d].rest
               /\ \A f \in comp'[d].rest : HasExpunged(f)'
               /\ Phase(d)' \in {"compact", "parsing"} => HasExpunged(Folder(d))'
    <2>1. CASE d = c
      <3>1. r # Idle /\ r.folder \notin r.rest /\ r.rest \subseteq comp[c].rest
        BY <1>1, <1>2, <1>8, <2>1 DEF Phase
      <3>2. \A f \in comp[c].rest : f \in Folders /\ HasExpunged(f) /\ f # Folder(c)
        BY PhaseFacts DEF AskedOK
      <3>3. QED
        BY <1>1, <1>8, <2>1, <3>1, <3>2 DEF Phase, Folder
    <2>2. CASE d # c
      <3>1. comp'[d] = comp[d] /\ Phase(d) # "idle"
        BY <1>1, <1>8, <2>2 DEF Phase
      <3>2. Asked(d) = {Folder(d)} \cup comp[d].rest /\ Asked(d) \subseteq Folders
        BY <3>1, PhaseFacts DEF Asked, Folder
      <3>3. Folder(c) \notin Asked(d)
        BY <1>4, <2>2 DEF AskedOK
      <3>4. QED
        BY <3>1, <3>2, <3>3 DEF AskedOK, Phase, Folder
    <2>3. QED BY <2>1, <2>2
  <1>9. QED
    BY <1>3, <1>7, <1>8 DEF AskedOK

\* It neither has nor gets a file to work on, and no file changes.
LEMMA QuietStep ==
  ASSUME IInv, UNCHANGED <<files, heir>>,
         \A d \in Compactors : comp'[d] = comp[d] \/
           (Phase(d) \notin WorkPhases /\ Phase(d)' \notin WorkPhases),
         \A f \in Folders : holder'[f] = "delivery" =>
           holder[f] = "delivery" \/ (Valid(f) /\ mbox[f] # NoMailbox)
  PROVE  TempsOK' /\ HeirsOK' /\ SummaryOK' /\ MailboxOK' /\ WorkOK'
  <1> USE DEF Phase, Folder, files
  <1>1. \A d \in Compactors : Phase(d)' \in WorkPhases \/ Phase(d) \in WorkPhases => comp'[d] = comp[d]
    OBVIOUS
  <1>2. /\ Separate \subseteq WorkPhases
        /\ {"copying", "finish", "removeSummary", "removeMailbox", "moveMailbox",
            "moveSummary", "reopen"} \subseteq WorkPhases
    BY DEF WorkPhases, Locking, Separate, Old
  <1>3. TempsOK'
    BY <1>1, <1>2 DEF IInv, TempsOK
  <1>4. HeirsOK'
    BY <1>1, <1>2 DEF IInv, HeirsOK, Disjoint, Size
  <1>5. SummaryOK'
    BY DEF IInv, SummaryOK, Valid, Size, Describes
  <1>6. MailboxOK'
    <2>1. ASSUME NEW f \in Folders, mbox'[f] = NoMailbox
          PROVE  \E c \in Compactors : Phase(c)' = "moveMailbox" /\ Folder(c)' = f
      BY <1>1, <1>2, <2>1 DEF IInv, MailboxOK
    <2>2. QED
      BY <2>1 DEF IInv, MailboxOK, Valid
  <1>7. WorkOK'
    <2>1. \A d \in Compactors : Phase(d)' \in WorkPhases =>
            comp'[d] = comp[d] /\ mbox' = mbox /\ summary' = summary /\ heir' = heir
      BY <1>1
    <2>2. QED
      BY <1>2, <2>1 DEF IInv, WorkOK, Copying, Replacing
  <1>8. QED BY <1>3, <1>4, <1>5, <1>6, <1>7

\* The only files that change are those of t, which is nobody's heir.
LEMMA TempStep ==
  ASSUME IInv, NEW c \in Compactors, NEW t \in Temps,
         \A f \in Folders : t \notin heir[f],
         \A n \in Names : n # t => mbox'[n] = mbox[n] /\ summary'[n] = summary[n],
         heir' = heir,
         \A d \in Compactors : d # c => comp'[d] = comp[d],
         Phase(c) # "moveMailbox", Phase(c)' \in Separate => comp'[c].temp = t,
         \A f \in Folders : holder'[f] = "delivery" => holder[f] = "delivery"
  PROVE  HeirsOK' /\ SummaryOK' /\ MailboxOK'
  <1>1. \A f \in Folders : /\ f \in Names /\ f # t
                           /\ mbox'[f] = mbox[f] /\ summary'[f] = summary[f]
    BY NameFacts
  <1>2. \A f \in Folders : heir[f] \subseteq Temps
    BY DEF IInv, TypeOK
  <1>3. \A n \in Names : n # t => Size(n)' = Size(n)
    BY DEF Size
  <1>4. \A f \in Folders : \A s \in heir[f] : s \in Names /\ s # t
    BY <1>2, NameFacts
  <1>5. HeirsOK'
    <2> SUFFICES ASSUME NEW f \in Folders, NEW s \in heir[f]
                 PROVE  /\ mbox'[s] # NoMailbox
                        /\ \A d \in Compactors : Phase(d)' \in Separate /\ comp'[d].temp = s =>
                             Phase(d)' = "moveMailbox" /\ Folder(d)' = f
                        /\ Disjoint(f, s)'
                        /\ \A u \in heir[f] : u # s => Disjoint(u, s)'
      BY DEF HeirsOK
    <2>1. s \in Names /\ s # t
      BY <1>4
    <2>2. mbox'[s] # NoMailbox
      BY <2>1 DEF IInv, HeirsOK
    <2>3. \A d \in Compactors : Phase(d)' \in Separate /\ comp'[d].temp = s =>
            Phase(d)' = "moveMailbox" /\ Folder(d)' = f
      BY <2>1 DEF IInv, HeirsOK, Phase, Folder
    <2>4. Disjoint(f, s)' /\ \A u \in heir[f] : u # s => Disjoint(u, s)'
      BY <1>1, <1>3, <1>4, <2>1 DEF IInv, HeirsOK, Disjoint
    <2>5. QED BY <2>2, <2>3, <2>4
  <1>6. SummaryOK'
    BY <1>1, <1>3 DEF IInv, SummaryOK, Valid
  <1>7. MailboxOK'
    BY <1>1 DEF IInv, MailboxOK, Phase, Folder
  <1>8. QED BY <1>5, <1>6, <1>7

\* The others are not on the main thread, and the files N that change are not
\* theirs.
LEMMA OthersKeep ==
  ASSUME IInv, NEW c \in Compactors, NEW N,
         \A n \in Names : n \notin N => mbox'[n] = mbox[n] /\ summary'[n] = summary[n],
         \A d \in Compactors : d # c => comp'[d] = comp[d] /\ Phase(d) \notin MainThread,
         \A d \in Compactors : d # c /\ Phase(d) = "copying" =>
           comp[d].temp \notin N /\ Folder(d) \notin N,
         NEW d \in Compactors, d # c
  PROVE  /\ Phase(d)' \in WorkPhases => Phase(d)' = "copying"
         /\ Phase(d)' = "copying" =>
              /\ CopyingOK(comp[d], mbox[Folder(d)], summary[Folder(d)], mbox[comp[d].temp])'
              /\ mbox'[comp'[d].temp] # NoMailbox /\ mbox'[comp'[d].temp].expunged = {}
  <1>1. comp'[d] = comp[d] /\ Phase(d)' = Phase(d) /\ Folder(d)' = Folder(d)
    BY DEF Phase, Folder
  <1>2. Phase(d)' \in WorkPhases => Phase(d)' = "copying"
    BY <1>1 DEF WorkPhases, Locking, Separate, Old, MainThread, FileOps
  <1>3. ASSUME Phase(d) = "copying"
        PROVE  /\ mbox'[Folder(d)] = mbox[Folder(d)] /\ summary'[Folder(d)] = summary[Folder(d)]
               /\ mbox'[comp[d].temp] = mbox[comp[d].temp]
    <2>1. Folder(d) \in Folders /\ comp[d].temp \in Temps
      BY <1>3, PhaseFacts DEF IInv, WorkPhases, Locking, Separate, Old
    <2>2. QED BY <1>3, <2>1, NameFacts
  <1>4. ASSUME Phase(d) = "copying"
        PROVE  /\ CopyingOK(comp[d], mbox[Folder(d)], summary[Folder(d)], mbox[comp[d].temp])
               /\ mbox[comp[d].temp] # NoMailbox /\ mbox[comp[d].temp].expunged = {}
    BY <1>4 DEF IInv, WorkOK, Copying, TempsOK, Separate, Old
  <1>5. QED BY <1>1, <1>2, <1>3, <1>4

\* It gives up its folder: its temporary files go, and nothing else.
LEMMA GiveUpOK ==
  ASSUME IInv, NEW c \in Compactors, Phase(c) \in Old \cup {"moveSummary"},
         Phase(c) \in MainThread \/ MainThreadFree,
         CleanupTempFiles(c), ReleaseFolderLock(c),
         UNCHANGED <<reparse, crashes, ghosts>>,
         NEW r, comp' = [comp EXCEPT ![c] = r],
         \/ r = Idle
         \/ /\ Phase(c) \in MainThread
            /\ \E f \in comp[c].rest : r = About(f, comp[c].rest \ {f}, "compact")
  PROVE  IInv'
  <1> DEFINE t == comp[c].temp
             g == Folder(c)
  <1>0. TypeOK
    BY DEF IInv
  <1>1. /\ Phase(c) # "idle" /\ Phase(c) \in WorkPhases
        /\ t \in Temps /\ t \in Names /\ t \notin Folders
        /\ g \in Folders /\ comp[c].rest \subseteq Folders
    BY <1>0, PhaseFacts, NameFacts DEF WorkPhases, Locking, Separate, Old
  <1>2. /\ mbox'[t] = NoMailbox /\ summary'[t] = NoSummary
        /\ \A n \in Names : n # t => mbox'[n] = mbox[n] /\ summary'[n] = summary[n]
        /\ mbox' \in [Names -> Mailbox \cup {NoMailbox}]
        /\ summary' \in [Names -> Summary \cup {NoSummary}]
    BY <1>0, <1>1 DEF CleanupTempFiles, TypeOK
  <1>3. r \in {Idle} \cup Waiting /\ (r # Idle => r.phase = "compact")
        /\ (r # Idle => \E f \in comp[c].rest : r.folder = f /\ r.rest = comp[c].rest \ {f})
    <2>1. ASSUME NEW f \in comp[c].rest, r = About(f, comp[c].rest \ {f}, "compact")
          PROVE  r \in Waiting /\ r.phase = "compact" /\ r.folder = f /\ r.rest = comp[c].rest \ {f}
      <3>1. f \in Folders /\ comp[c].rest \ {f} \subseteq Folders
        BY <1>1
      <3>2. QED BY <2>1, <3>1, AboutFacts
    <2>2. QED BY <2>1
  <1>4. /\ comp'[c] = r /\ \A d \in Compactors : d # c => comp'[d] = comp[d]
        /\ comp' \in [Compactors -> {Idle} \cup Waiting \cup Working]
    BY <1>0, <1>3, BecomeFacts
  <1>5. Phase(c)' \in {"idle", "compact"}
    BY <1>3, <1>4 DEF Phase, Idle
  <1>6. \A f \in Folders : mbox'[f] = mbox[f] /\ summary'[f] = summary[f]
    BY <1>1, <1>2, NameFacts
  <1>7. \A d \in Compactors : d # c => Phase(d) \notin MainThread /\ Phase(d)' = Phase(d)
    BY <1>4, OnlyOne DEF IInv, Phase
  <1>8. \A f \in Folders : t \notin heir[f]
    <2>1. Phase(c) = "moveSummary" => mbox[t] = NoMailbox
      BY DEF IInv, WorkOK, CopiedOK, Replacing
    <2>2. QED BY <2>1 DEF IInv, HeirsOK, Separate, Old
  <1>9. \A d \in Compactors : d # c /\ Phase(d) \in Separate => comp[d].temp # t
    <2>1. Phase(c) = "moveSummary" => mbox[t] = NoMailbox
      BY DEF IInv, WorkOK, CopiedOK, Replacing
    <2>2. QED BY <2>1 DEF IInv, TempsOK, Separate
  <1>10. TypeOK'
    <2>1. holder' \in [Folders -> Compactors \cup Others]
      BY <1>0 DEF ReleaseFolderLock, TypeOK, Others
    <2>2. \A n \in Names : mbox'[n] # NoMailbox => mbox'[n] = mbox[n]
      BY <1>2
    <2>3. QED
      BY <1>0, <1>2, <1>4, <2>1, <2>2 DEF TypeOK, ghosts
  <1>11. MainThreadOK' /\ AskedOK'
    <2>1. \A f \in Folders : HasExpunged(f) => HasExpunged(f)'
      BY <1>6 DEF HasExpunged
    <2>2. \A f \in comp[c].rest : HasExpunged(f) /\ f \in Asked(c)
      BY <1>1, PhaseFacts, <1>0 DEF IInv, AskedOK, Asked
    <2>3. r # Idle => /\ r.phase # "idle" /\ r.folder \in Asked(c)
                      /\ r.rest \subseteq comp[c].rest /\ r.folder \notin r.rest
                      /\ HasExpunged(r.folder)'
      BY <1>1, <1>3, <2>1, <2>2
    <2>4. Idle.phase \notin MainThread
      BY DEF Idle, MainThread, FileOps
    <2>5. r.phase \in MainThread => Phase(c) \in MainThread \/ MainThreadFree
      OBVIOUS
    <2>6. QED
      BY <1>0, <1>1, <1>3, <2>1, <2>3, <2>5, ControlOK DEF IInv
  <1>12. LocksOK'
    <2>1. ASSUME NEW d \in Compactors, Phase(d)' \in Locking
          PROVE  holder'[Folder(d)'] = d
      <3>1. d # c /\ comp'[d] = comp[d]
        BY <1>4, <1>5, <2>1 DEF Locking, Separate, Old
      <3>2. holder[Folder(d)] = d /\ Folder(d) \in Folders /\ Folder(d)' = Folder(d)
        BY <1>0, <2>1, <3>1, PhaseFacts DEF IInv, LocksOK, Phase, Folder, Locking, Separate, Old
      <3>3. QED
        BY <3>1, <3>2 DEF ReleaseFolderLock
    <2>2. QED BY <2>1 DEF LocksOK
  <1>13. \A d \in Compactors : d # c =>
           /\ Phase(d)' \in WorkPhases => Phase(d)' = "copying"
           /\ Phase(d)' = "copying" =>
                /\ CopyingOK(comp[d], mbox[Folder(d)], summary[Folder(d)], mbox[comp[d].temp])'
                /\ mbox'[comp'[d].temp] # NoMailbox /\ mbox'[comp'[d].temp].expunged = {}
    <2>1. \A d \in Compactors : d # c /\ Phase(d) = "copying" =>
            comp[d].temp \notin {t} /\ Folder(d) \notin {t}
      BY <1>0, <1>1, <1>9, PhaseFacts DEF Separate, Old
    <2>2. \A n \in Names : n \notin {t} => mbox'[n] = mbox[n] /\ summary'[n] = summary[n]
      BY <1>2
    <2>3. QED BY <1>4, <1>7, <2>1, <2>2, OthersKeep
  <1>14. TempsOK'
    <2>1. \A d \in Compactors : Phase(d)' \in Separate => d # c /\ Phase(d)' \in WorkPhases
      BY <1>5 DEF WorkPhases, Locking, Separate, Old
    <2>2. \A d, e \in Compactors : Phase(d)' \in Separate /\ Phase(e)' \in Separate =>
            d = e \/ comp'[d].temp # comp'[e].temp
      BY <1>4, <1>7, <2>1 DEF IInv, TempsOK, Phase
    <2>3. \A s \in Temps : summary'[s] # NoSummary => summary'[s].size = {}
      BY <1>2, NameFacts DEF IInv, TempsOK
    <2>4. QED BY <1>13, <2>1, <2>2, <2>3 DEF TempsOK
  <1>15. HeirsOK' /\ SummaryOK' /\ MailboxOK'
    <2>1. \A f \in Folders : holder'[f] = "delivery" => holder[f] = "delivery"
      BY DEF ReleaseFolderLock
    <2>2. Phase(c)' \notin Separate /\ Phase(c) # "moveMailbox"
      BY <1>5 DEF Separate, Old
    <2>3. QED BY <1>1, <1>2, <1>4, <1>8, <2>1, <2>2, TempStep DEF ghosts
  <1>16. WorkOK'
    BY <1>5, <1>13 DEF WorkOK, Copying, Replacing, WorkPhases, Locking, Separate, Old
  <1>17. QED
    BY <1>10, <1>11, <1>12, <1>13, <1>14, <1>15, <1>16 DEF IInv

\* It goes on to the next of its folders, if there is one.
LEMMA NextFolderOK ==
  ASSUME TypeOK, MainThreadOK, AskedOK,
         NEW c \in Compactors, Phase(c) # "idle", CompactNextFolder(c) \/ Become(c, Idle),
         Phase(c) \in MainThread \/ MainThreadFree,
         \A f \in Folders : HasExpunged(f) /\ f # Folder(c) => HasExpunged(f)'
  PROVE  /\ comp' \in [Compactors -> {Idle} \cup Waiting \cup Working]
         /\ MainThreadOK' /\ AskedOK'
         /\ Phase(c)' \in {"idle", "compact"}
         /\ \A d \in Compactors : d # c => comp'[d] = comp[d]
  <1>1. PICK r : /\ comp' = [comp EXCEPT ![c] = r]
                 /\ \/ r = Idle
                    \/ \E f \in comp[c].rest : r = About(f, comp[c].rest \ {f}, "compact")
    BY NextFacts
  <1>2. comp[c].rest \subseteq Folders /\ Asked(c) = {Folder(c)} \cup comp[c].rest
    BY PhaseFacts DEF Asked, Folder
  <1>3. r # Idle =>
          /\ r \in Waiting /\ r.phase = "compact"
          /\ \E f \in comp[c].rest : r.folder = f /\ r.rest = comp[c].rest \ {f}
    <2>1. ASSUME NEW f \in comp[c].rest, r = About(f, comp[c].rest \ {f}, "compact")
          PROVE  r \in Waiting /\ r.phase = "compact" /\ r.folder = f /\ r.rest = comp[c].rest \ {f}
      <3>1. f \in Folders /\ comp[c].rest \ {f} \subseteq Folders
        BY <1>2
      <3>2. QED BY <2>1, <3>1, AboutFacts
    <2>2. QED BY <1>1, <2>1
  <1>4. \A f \in comp[c].rest : HasExpunged(f)'
    BY <1>2 DEF AskedOK
  <1>5. r # Idle => /\ r.phase # "idle" /\ r.folder \in Asked(c)
                    /\ r.rest \subseteq comp[c].rest /\ r.folder \notin r.rest
                    /\ HasExpunged(r.folder)'
    BY <1>2, <1>3, <1>4
  <1>6. MainThreadOK' /\ AskedOK'
    <2>1. r \in {Idle} \cup Waiting \cup Working
      BY <1>3
    <2>2. QED BY <1>1, <1>5, <2>1, ControlOK
  <1>7. /\ comp'[c] = r /\ \A d \in Compactors : d # c => comp'[d] = comp[d]
        /\ comp' \in [Compactors -> {Idle} \cup Waiting \cup Working]
    BY <1>1, <1>3, BecomeFacts
  <1>8. Phase(c)' \in {"idle", "compact"}
    BY <1>3, <1>7 DEF Phase, Idle
  <1>9. QED BY <1>6, <1>7, <1>8

\* Nobody is denied or given a semaphore.
LEMMA SameLocks ==
  ASSUME TypeOK, LocksOK,
         \A d \in Compactors : comp'[d] = comp[d] \/ Phase(d)' \notin Locking
                                 \/ (Phase(d) \in Locking /\ Folder(d)' = Folder(d)),
         \A f \in Folders : holder[f] \in Compactors => holder'[f] = holder[f]
  PROVE  LocksOK'
  <1> SUFFICES ASSUME NEW d \in Compactors, Phase(d)' \in Locking
               PROVE  holder'[Folder(d)'] = d
    BY DEF LocksOK
  <1>1. Phase(d) \in Locking /\ Folder(d)' = Folder(d)
    BY DEF Phase, Folder
  <1>2. Folder(d) \in Folders
    BY <1>1, PhaseFacts DEF Locking, Separate, Old
  <1>3. QED BY <1>1, <1>2 DEF LocksOK
------------------------------------------------------------------------------
(***************************************************************************)
(* Compact.                                                                *)
(***************************************************************************)
LEMMA CompactFoldersOK ==
  ASSUME Tame, IInv, NEW c \in Compactors, NEW S, S \subseteq Folders, CompactFolders(c, S)
  PROVE  IInv'
  <1>0. TypeOK /\ MainThreadOK /\ AskedOK /\ LocksOK
    BY DEF IInv
  <1>1. PICK f \in S : comp' = [comp EXCEPT ![c] = About(f, S \ {f}, "compact")]
    BY DEF CompactFolders, Become
  <1> DEFINE r == About(f, S \ {f}, "compact")
  <1>2. /\ r \in Waiting /\ r # Idle
        /\ r.phase = "compact" /\ r.folder = f /\ r.rest = S \ {f}
    BY AboutFacts
  <1> HIDE DEF r
  <1>3. /\ comp'[c] = r /\ \A d \in Compactors : d # c => comp'[d] = comp[d]
        /\ comp' \in [Compactors -> {Idle} \cup Waiting \cup Working]
    BY <1>0, <1>1, <1>2, BecomeFacts DEF r
  <1>4. /\ MainThreadFree /\ comp[c] = Idle /\ Phase(c) = "idle"
        /\ \A g \in S : HasExpunged(g)
        /\ \A d \in Compactors : S \cap Asked(d) = {}
        /\ UNCHANGED <<files, locks, crashes, ghosts>>
    BY <1>0, PhaseFacts DEF CompactFolders, Tame
  <1>5. TypeOK'
    BY <1>0, <1>3, <1>4 DEF TypeOK, files, locks, ghosts
  <1>6. MainThreadOK'
    BY <1>3, <1>4 DEF MainThreadOK, MainThreadFree, Phase
  <1>7. AskedOK'
    <2>1. Asked(c)' = S /\ \A d \in Compactors : d # c => Asked(d)' = Asked(d)
      BY <1>2, <1>3 DEF Asked
    <2>2. \A g \in Folders : HasExpunged(g)' <=> HasExpunged(g)
      BY <1>4 DEF HasExpunged, files
    <2>3. \A a, d \in Compactors : a # d => Asked(a)' \cap Asked(d)' = {}
      BY <1>4, <2>1, <1>0 DEF AskedOK
    <2>4. \A d \in Compactors : d # c /\ Phase(d)' # "idle" =>
            /\ Folder(d)' = Folder(d) /\ Phase(d)' = Phase(d) /\ comp'[d].rest = comp[d].rest
            /\ Folder(d) \in Folders /\ comp[d].rest \subseteq Folders
      BY <1>0, <1>3, PhaseFacts DEF Phase, Folder
    <2>5. Folder(c)' \in S /\ Folder(c)' \notin comp'[c].rest /\ comp'[c].rest \subseteq S
      BY <1>2, <1>3 DEF Folder
    <2>6. \A g \in S : HasExpunged(g)'
      BY <1>4, <2>2
    <2>7. QED
      BY <1>0, <2>2, <2>3, <2>4, <2>5, <2>6 DEF AskedOK
  <1>8. Phase(c)' = "compact"
    BY <1>2, <1>3 DEF Phase
  <1>9. LocksOK'
    BY <1>0, <1>3, <1>4, <1>8, SameLocks DEF locks, Locking, Separate, Old
  <1>10. TempsOK' /\ HeirsOK' /\ SummaryOK' /\ MailboxOK' /\ WorkOK'
    <2>1. \A d \in Compactors : comp'[d] = comp[d] \/
            (Phase(d) \notin WorkPhases /\ Phase(d)' \notin WorkPhases)
      BY <1>3, <1>4, <1>8 DEF WorkPhases, Locking, Separate, Old
    <2>2. QED BY <1>4, <2>1, QuietStep DEF locks, ghosts
  <1>11. QED BY <1>5, <1>6, <1>7, <1>9, <1>10 DEF IInv

LEMMA ParseFirstOK ==
  ASSUME IInv, NEW c \in Compactors, ParseFirst(c)
  PROVE  IInv'
  <1> DEFINE f == Folder(c)
  <1>0. TypeOK /\ MainThreadOK /\ AskedOK /\ LocksOK
    BY DEF IInv
  <1> PICK r : r = [comp[c] EXCEPT !.phase = "parsing"]
    OBVIOUS
  <1>1. /\ Phase(c) = "compact" /\ comp' = [comp EXCEPT ![c] = r]
        /\ reparse' = [reparse EXCEPT ![f] = c]
        /\ holder' = [holder EXCEPT ![f] = IF @ = "nobody" THEN "parser" ELSE @]
        /\ UNCHANGED <<files, crashes, ghosts>>
    BY DEF ParseFirst, Phase, Folder, Enter, Become
  <1>2. comp[c] \in Waiting /\ f \in Folders /\ comp[c].rest \subseteq Folders
    BY <1>0, <1>1, PhaseFacts
  <1>3. /\ r \in Waiting
        /\ r.phase = "parsing" /\ r.folder = Folder(c) /\ r.rest = comp[c].rest
    BY <1>2 DEF Waiting, Folder
  <1>4. /\ comp'[c] = r /\ \A d \in Compactors : d # c => comp'[d] = comp[d]
        /\ comp' \in [Compactors -> {Idle} \cup Waiting \cup Working]
    BY <1>0, <1>1, <1>3, BecomeFacts
  <1>5. TypeOK'
    <2>1. holder' \in [Folders -> Compactors \cup Others]
      BY <1>0, <1>1 DEF TypeOK, Others
    <2>2. reparse' \in [Folders -> Compactors \cup {"nobody"}]
      BY <1>0, <1>1 DEF TypeOK
    <2>3. QED BY <1>0, <1>1, <1>4, <2>1, <2>2 DEF TypeOK, files, ghosts
  <1>6. \A g \in Folders : HasExpunged(g) => HasExpunged(g)'
    BY <1>1 DEF HasExpunged, files
  <1>7. MainThreadOK' /\ AskedOK'
    <2>1. r.phase \notin MainThread
      BY <1>3 DEF MainThread, FileOps
    <2>2. r.folder \notin r.rest /\ HasExpunged(r.folder)' /\ r.folder \in Asked(c)
      BY <1>0, <1>1, <1>2, <1>3, <1>6, PhaseFacts DEF AskedOK, Asked, Folder
    <2>3. QED
      BY <1>0, <1>1, <1>3, <1>6, <2>1, <2>2, ControlOK
  <1>8. Phase(c)' = "parsing"
    BY <1>3, <1>4 DEF Phase
  <1>9. LocksOK'
    <2>1. \A g \in Folders : holder[g] \in Compactors => holder'[g] = holder[g]
      BY <1>0, <1>1, NameFacts DEF TypeOK
    <2>2. QED BY <1>0, <1>4, <1>8, <2>1, SameLocks DEF Locking, Separate, Old
  <1>10. TempsOK' /\ HeirsOK' /\ SummaryOK' /\ MailboxOK' /\ WorkOK'
    <2>1. \A d \in Compactors : comp'[d] = comp[d] \/
            (Phase(d) \notin WorkPhases /\ Phase(d)' \notin WorkPhases)
      BY <1>1, <1>4, <1>8 DEF WorkPhases, Locking, Separate, Old
    <2>2. \A g \in Folders : holder'[g] = "delivery" => holder[g] = "delivery"
      BY <1>0, <1>1 DEF TypeOK
    <2>3. QED BY <1>1, <2>1, <2>2, QuietStep DEF ghosts
  <1>11. QED BY <1>5, <1>7, <1>9, <1>10 DEF IInv

\* The compactor leaves its folder as it is.
LEMMA LeaveOK ==
  ASSUME IInv, NEW c \in Compactors, Phase(c) = "compact",
         CompactNextFolder(c) \/ Become(c, Idle),
         UNCHANGED <<files, locks, crashes, ghosts>>
  PROVE  IInv'
  <1>0. TypeOK /\ MainThreadOK /\ AskedOK /\ LocksOK
    BY DEF IInv
  <1>1. /\ Phase(c) = "compact" /\ (CompactNextFolder(c) \/ Become(c, Idle))
        /\ UNCHANGED <<files, locks, crashes, ghosts>>
    OBVIOUS
  <1>2. \A g \in Folders : HasExpunged(g) => HasExpunged(g)'
    BY <1>1 DEF HasExpunged, files
  <1>3. /\ comp' \in [Compactors -> {Idle} \cup Waiting \cup Working]
        /\ MainThreadOK' /\ AskedOK' /\ Phase(c)' \in {"idle", "compact"}
        /\ \A d \in Compactors : d # c => comp'[d] = comp[d]
    BY <1>0, <1>1, <1>2, NextFolderOK DEF MainThread
  <1>4. TypeOK'
    BY <1>0, <1>1, <1>3 DEF TypeOK, files, locks, ghosts
  <1>5. LocksOK'
    BY <1>0, <1>1, <1>3, SameLocks DEF locks, Locking, Separate, Old
  <1>6. TempsOK' /\ HeirsOK' /\ SummaryOK' /\ MailboxOK' /\ WorkOK'
    <2>1. \A d \in Compactors : comp'[d] = comp[d] \/
            (Phase(d) \notin WorkPhases /\ Phase(d)' \notin WorkPhases)
      BY <1>1, <1>3 DEF WorkPhases, Locking, Separate, Old
    <2>2. QED BY <1>1, <2>1, QuietStep DEF locks, ghosts
  <1>7. QED BY <1>3, <1>4, <1>5, <1>6 DEF IInv

LEMMA SkipFolderOK ==
  ASSUME IInv, NEW c \in Compactors, SkipFolder(c)
  PROVE  IInv'
  BY LeaveOK DEF SkipFolder, Phase

\* A temporary file without a mailbox is in use by nobody that copies.
LEMMA UnusedTemp ==
  ASSUME IInv, NEW c \in Compactors, Phase(c) = "compact", NEW t \in Temps, mbox[t] = NoMailbox
  PROVE  /\ \A f \in Folders : t \notin heir[f]
         /\ \A d \in Compactors : d # c => Phase(d) \notin MainThread
         /\ \A d \in Compactors : d # c /\ Phase(d) \in Separate => comp[d].temp # t
         /\ \A d \in Compactors : d # c /\ Phase(d) = "copying" =>
              comp[d].temp \notin {t} /\ Folder(d) \notin {t}
  <1>1. \A f \in Folders : t \notin heir[f]
    BY DEF IInv, HeirsOK
  <1>2. \A d \in Compactors : d # c => Phase(d) \notin MainThread
    BY OnlyOne DEF IInv, MainThread
  <1>3. \A d \in Compactors : d # c /\ Phase(d) \in Separate => comp[d].temp # t
    BY DEF IInv, TempsOK
  <1>4. \A d \in Compactors : Phase(d) = "copying" => Folder(d) # t
    BY PhaseFacts, NameFacts DEF IInv
  <1>5. QED BY <1>1, <1>2, <1>3, <1>4 DEF Separate, Old

\* It leaves it with temporary files that were made and removed again.
LEMMA DropTempsOK ==
  ASSUME IInv, NEW c \in Compactors, NEW t \in Temps, Phase(c) = "compact",
         CompactNextFolder(c) \/ Become(c, Idle),
         mbox[t] = NoMailbox, mbox' = [mbox EXCEPT ![t] = NoMailbox],
         summary' = [summary EXCEPT ![t] = NoSummary],
         UNCHANGED <<locks, crashes, ghosts>>
  PROVE  IInv'
  <1>0. TypeOK /\ MainThreadOK /\ AskedOK /\ LocksOK
    BY DEF IInv
  <1>1. /\ mbox[t] = NoMailbox
        /\ mbox' = [mbox EXCEPT ![t] = NoMailbox]
        /\ summary' = [summary EXCEPT ![t] = NoSummary]
    OBVIOUS
  <1>2. /\ Phase(c) = "compact" /\ (CompactNextFolder(c) \/ Become(c, Idle))
        /\ UNCHANGED <<locks, crashes, ghosts>>
    OBVIOUS
  <1>3. /\ t \in Names /\ \A n \in Names : mbox'[n] = mbox[n]
        /\ \A n \in Names : n # t => summary'[n] = summary[n]
        /\ summary'[t] = NoSummary
        /\ mbox' \in [Names -> Mailbox \cup {NoMailbox}]
        /\ summary' \in [Names -> Summary \cup {NoSummary}]
    BY <1>0, <1>1, NameFacts DEF TypeOK
  <1>4. \A g \in Folders : HasExpunged(g) => HasExpunged(g)'
    BY <1>3, NameFacts DEF HasExpunged
  <1>5. /\ comp' \in [Compactors -> {Idle} \cup Waiting \cup Working]
        /\ MainThreadOK' /\ AskedOK' /\ Phase(c)' \in {"idle", "compact"}
        /\ \A d \in Compactors : d # c => comp'[d] = comp[d]
    BY <1>0, <1>2, <1>4, NextFolderOK DEF MainThread
  <1>6. TypeOK'
    BY <1>0, <1>2, <1>3, <1>5 DEF TypeOK, locks, ghosts
  <1>7. LocksOK'
    BY <1>0, <1>2, <1>5, SameLocks DEF locks, Locking, Separate, Old
  <1>8. /\ \A f \in Folders : t \notin heir[f]
        /\ \A d \in Compactors : d # c => Phase(d) \notin MainThread
        /\ \A d \in Compactors : d # c /\ Phase(d) = "copying" =>
             comp[d].temp \notin {t} /\ Folder(d) \notin {t}
    BY <1>1, <1>2, UnusedTemp
  <1>9. \A d \in Compactors : d # c =>
           /\ Phase(d)' \in WorkPhases => Phase(d)' = "copying"
           /\ Phase(d)' = "copying" =>
                /\ CopyingOK(comp[d], mbox[Folder(d)], summary[Folder(d)], mbox[comp[d].temp])'
                /\ mbox'[comp'[d].temp] # NoMailbox /\ mbox'[comp'[d].temp].expunged = {}
    <2>1. \A n \in Names : n \notin {t} => mbox'[n] = mbox[n] /\ summary'[n] = summary[n]
      BY <1>3
    <2>2. QED BY <1>5, <1>8, <2>1, OthersKeep
  <1>10. \A d \in Compactors : Phase(d)' \in WorkPhases => d # c /\ Phase(d)' = "copying"
    BY <1>5, <1>9 DEF WorkPhases, Locking, Separate, Old
  <1>11. TempsOK'
    <2>1. \A d \in Compactors : Phase(d)' \in Separate => d # c /\ Phase(d)' = "copying" /\ comp'[d] = comp[d]
      BY <1>5, <1>10 DEF WorkPhases, Locking, Separate, Old
    <2>2. \A d, e \in Compactors : Phase(d)' \in Separate /\ Phase(e)' \in Separate =>
            d = e \/ comp'[d].temp # comp'[e].temp
      BY <2>1 DEF IInv, TempsOK, Phase
    <2>3. \A s \in Temps : summary'[s] # NoSummary => summary'[s].size = {}
      BY <1>3, NameFacts DEF IInv, TempsOK
    <2>4. QED BY <1>9, <2>1, <2>2, <2>3 DEF TempsOK
  <1>12. HeirsOK' /\ SummaryOK' /\ MailboxOK'
    <2>1. Phase(c) # "moveMailbox" /\ Phase(c)' \notin Separate
      BY <1>2, <1>5 DEF Separate, Old
    <2>2. QED BY <1>2, <1>3, <1>5, <1>8, <2>1, TempStep DEF locks, ghosts
  <1>13. WorkOK'
    BY <1>9, <1>10 DEF WorkOK, Copying, Replacing, WorkPhases, Locking, Separate, Old
  <1>14. QED BY <1>5, <1>6, <1>7, <1>11, <1>12, <1>13 DEF IInv

LEMMA DeniedLockOK ==
  ASSUME IInv, NEW c \in Compactors, DeniedLock(c)
  PROVE  IInv'
  <1>1. PICK t \in Temps : /\ mbox[t] = NoMailbox
                           /\ mbox' = [mbox EXCEPT ![t] = NoMailbox]
                           /\ summary' = [summary EXCEPT ![t] = NoSummary]
    BY DEF DeniedLock, CreateUnique
  <1>2. Phase(c) = "compact" /\ CompactNextFolder(c) /\ UNCHANGED <<locks, crashes, ghosts>>
    BY DEF DeniedLock, Phase
  <1>3. QED BY <1>1, <1>2, DropTempsOK

\* What a database found under a temporary name may have in it.
LEMMA StrayRows ==
  ASSUME TypeOK, NEW t \in Temps
  PROVE  InitDB(t) \subseteq SUBSET Offsets
  <1>1. t \in Names
    BY NameFacts
  <1>2. summary[t] # NoSummary =>
          Rows(summary[t].at) \in SUBSET Offsets /\ summary[t].stray \in SUBSET Offsets
    BY <1>1 DEF TypeOK, Summary, Rows, Keys, Offsets
  <1>3. QED BY <1>2 DEF InitDB

\* The database cannot be opened, or the temporary files cannot be made.
LEMMA CompactFailsOK ==
  ASSUME IInv, NEW c \in Compactors, CompactFails(c)
  PROVE  IInv'
  <1>1. CASE UNCHANGED files
    BY <1>1, LeaveOK DEF CompactFails, Phase
  <1>2. CASE ~UNCHANGED files
    <2>1. PICK t \in Temps : mbox[t] = NoMailbox /\ summary' = [summary EXCEPT ![t] = NoSummary]
      BY <1>2 DEF CompactFails, CreateUnique
    <2>2. mbox' = [mbox EXCEPT ![t] = NoMailbox]
      <3>1. mbox' = mbox
        BY <1>2 DEF CompactFails
      <3>2. mbox \in [Names -> Mailbox \cup {NoMailbox}]
        BY DEF IInv, TypeOK
      <3>3. QED BY <2>1, <3>1, <3>2
    <2>3. Phase(c) = "compact" /\ Become(c, Idle) /\ UNCHANGED <<locks, crashes, ghosts>>
      BY DEF CompactFails, Phase
    <2>4. QED BY <2>1, <2>2, <2>3, DropTempsOK
  <1>3. QED BY <1>1, <1>2

\* The compactor has its semaphore and new temporary files, and is at r.
LEMMA AcquireFacts ==
  ASSUME IInv, NEW c \in Compactors, NEW t \in Temps,
         NEW old \in SUBSET Offsets, Acquire(c, t, old)
  PROVE  LET f == Folder(c) IN
         /\ Phase(c) = "compact" /\ f \in Folders /\ comp[c].rest \subseteq Folders
         /\ mbox[t] = NoMailbox /\ mbox[f] # NoMailbox /\ summary[f] # NoSummary
         /\ holder[f] = "nobody" /\ holder' = [holder EXCEPT ![f] = c]
         /\ Describes(summary[f].at, mbox[f])
         /\ mbox' = [mbox EXCEPT ![t] = EmptyMailbox]
         /\ summary' = [summary EXCEPT ![t] = [at |-> NoHeaders, size |-> {}, stray |-> old]]
         /\ UNCHANGED <<reparse, crashes, ghosts>>
  <1> DEFINE f == Folder(c)
  <1>1. /\ Phase(c) = "compact" /\ Valid(f) /\ mbox[t] = NoMailbox
        /\ holder[f] = "nobody" /\ holder' = [holder EXCEPT ![f] = c]
        /\ mbox' = [mbox EXCEPT ![t] = EmptyMailbox]
        /\ summary' = [summary EXCEPT ![t] = [at |-> NoHeaders, size |-> {}, stray |-> old]]
        /\ UNCHANGED <<reparse, crashes, ghosts>>
    BY DEF Acquire, CreateUnique, Phase, Folder
  <1>2. f \in Folders /\ f \in Names /\ t \in Names /\ comp[c].rest \subseteq Folders
    BY <1>1, PhaseFacts, NameFacts DEF IInv
  <1>3. HasExpunged(f)
    BY <1>1 DEF IInv, AskedOK
  <1>4. mbox[f] # NoMailbox /\ summary[f] # NoSummary /\ Describes(summary[f].at, mbox[f])
    BY <1>1, <1>2, <1>3 DEF HasExpunged, Valid, IInv, SummaryOK
  <1>5. QED BY <1>1, <1>2, <1>4

LEMMA EmptyFacts ==
  /\ NoHeaders \in Headers /\ EmptyMailbox \in Mailboxes /\ EmptyMailbox # NoMailbox
  /\ \A old \in SUBSET Offsets : [at |-> NoHeaders, size |-> {}, stray |-> old] \in Summary
  /\ Range(EmptyMailbox.msgs) = {} /\ EmptyMailbox.expunged = {}
  /\ Describes(NoHeaders, EmptyMailbox) /\ Keys(NoHeaders) = {}
  <1>1. /\ NoHeaders \in Headers /\ Keys(NoHeaders) = {}
        /\ \A old \in SUBSET Offsets : [at |-> NoHeaders, size |-> {}, stray |-> old] \in Summary
    BY DEF NoHeaders, Headers, Summary, Keys
  <1>2. <<>> \in Seq(Msgs) /\ Range(<<>>) = {} /\ IsInjective(<<>>)
    BY DEF Range, IsInjective
  <1>3. EmptyMailbox \in Mailbox /\ EmptyMailbox.msgs = <<>> /\ EmptyMailbox.expunged = {}
    BY <1>2 DEF EmptyMailbox, Mailbox
  <1>4. EmptyMailbox \in Mailboxes /\ EmptyMailbox # NoMailbox
    BY <1>2, <1>3, CompactionAssumption DEF Mailboxes
  <1>5. Describes(NoHeaders, EmptyMailbox)
    BY <1>2, <1>3 DEF Describes, NoHeaders
  <1>6. QED BY <1>1, <1>2, <1>3, <1>4, <1>5

\* The files and locks when the compactor has become r with the new file t.
LEMMA AcquireOK ==
  ASSUME IInv, NEW c \in Compactors, NEW t \in Temps,
         NEW old \in SUBSET Offsets, Acquire(c, t, old),
         NEW r \in Waiting \cup Working, comp' = [comp EXCEPT ![c] = r],
         r.folder = Folder(c), r.rest = comp[c].rest,
         r.phase \in Copying \cup {"stuck"},
         r.phase \in Copying =>
           r.temp = t /\ CopyingOK(r, mbox[Folder(c)], summary[Folder(c)], EmptyMailbox)
  PROVE  IInv'
  <1> DEFINE f == Folder(c)
  <1>0. TypeOK /\ MainThreadOK /\ AskedOK /\ LocksOK
    BY DEF IInv
  <1>1. /\ Phase(c) = "compact" /\ f \in Folders /\ comp[c].rest \subseteq Folders
        /\ mbox[t] = NoMailbox
        /\ holder[f] = "nobody" /\ holder' = [holder EXCEPT ![f] = c]
        /\ mbox' = [mbox EXCEPT ![t] = EmptyMailbox]
        /\ summary' = [summary EXCEPT ![t] = [at |-> NoHeaders, size |-> {}, stray |-> old]]
        /\ UNCHANGED <<reparse, crashes, ghosts>>
    BY AcquireFacts
  <1>2. /\ t \in Names /\ f \in Names /\ f # t
        /\ \A n \in Names : n # t => mbox'[n] = mbox[n] /\ summary'[n] = summary[n]
        /\ mbox'[t] = EmptyMailbox /\ summary'[t] = [at |-> NoHeaders, size |-> {}, stray |-> old]
        /\ mbox' \in [Names -> Mailbox \cup {NoMailbox}]
        /\ summary' \in [Names -> Summary \cup {NoSummary}]
    BY <1>0, <1>1, NameFacts, EmptyFacts DEF TypeOK, Mailboxes
  <1>3. /\ comp'[c] = r /\ \A d \in Compactors : d # c => comp'[d] = comp[d]
        /\ comp' \in [Compactors -> {Idle} \cup Waiting \cup Working]
    BY <1>0, BecomeFacts
  <1>4. Phase(c)' = r.phase /\ Folder(c)' = f
    BY <1>3 DEF Phase, Folder
  <1>5. /\ \A g \in Folders : t \notin heir[g]
        /\ \A d \in Compactors : d # c => Phase(d) \notin MainThread
        /\ \A d \in Compactors : d # c /\ Phase(d) \in Separate => comp[d].temp # t
        /\ \A d \in Compactors : d # c /\ Phase(d) = "copying" =>
             comp[d].temp \notin {t} /\ Folder(d) \notin {t}
    BY <1>1, UnusedTemp
  <1>6. TypeOK'
    <2>1. holder' \in [Folders -> Compactors \cup Others]
      BY <1>0, <1>1 DEF TypeOK
    <2>2. \A n \in Names : mbox'[n] # NoMailbox =>
            IsInjective(mbox'[n].msgs) /\ mbox'[n].expunged \subseteq Range(mbox'[n].msgs)
      BY <1>0, <1>2, EmptyFacts DEF TypeOK, Mailboxes
    <2>3. QED BY <1>0, <1>1, <1>2, <1>3, <2>1, <2>2 DEF TypeOK, ghosts
  <1>7. MainThreadOK' /\ AskedOK'
    <2>1. \A g \in Folders : HasExpunged(g) => HasExpunged(g)'
      BY <1>2, NameFacts DEF HasExpunged
    <2>2. Idle.phase = "idle" /\ r.phase # "idle" /\ r.phase \notin {"compact", "parsing"}
      BY DEF Idle, Copying
    <2>3. r.folder \in Asked(c) /\ r.folder \notin r.rest
      BY <1>0, <1>1, PhaseFacts DEF AskedOK, Asked, Folder
    <2>4. Phase(c) \in MainThread
      BY <1>1 DEF MainThread
    <2>5. QED BY <1>0, <1>1, <2>1, <2>2, <2>3, <2>4, ControlOK
  <1>8. LocksOK'
    <2> SUFFICES ASSUME NEW d \in Compactors, Phase(d)' \in Locking
                 PROVE  holder'[Folder(d)'] = d
      BY DEF LocksOK
    <2>1. CASE d = c
      BY <1>0, <1>1, <1>4, <2>1 DEF TypeOK
    <2>2. CASE d # c
      <3>1. Phase(d) \in Locking /\ Folder(d)' = Folder(d)
        BY <1>3, <2>2 DEF Phase, Folder
      <3>2. Folder(d) \in Folders /\ holder[Folder(d)] = d
        BY <1>0, <3>1, PhaseFacts DEF LocksOK, Locking, Separate, Old
      <3>3. QED BY <1>0, <1>1, <3>1, <3>2, NameFacts DEF TypeOK
    <2>3. QED BY <2>1, <2>2
  <1>9. \A d \in Compactors : d # c =>
           /\ Phase(d)' \in WorkPhases => Phase(d)' = "copying"
           /\ Phase(d)' = "copying" =>
                /\ CopyingOK(comp[d], mbox[Folder(d)], summary[Folder(d)], mbox[comp[d].temp])'
                /\ mbox'[comp'[d].temp] # NoMailbox /\ mbox'[comp'[d].temp].expunged = {}
    <2>1. \A n \in Names : n \notin {t} => mbox'[n] = mbox[n] /\ summary'[n] = summary[n]
      BY <1>2
    <2>2. QED BY <1>3, <1>5, <2>1, OthersKeep
  <1>10. /\ Separate \subseteq WorkPhases /\ Copying \subseteq Separate
         /\ "stuck" \notin WorkPhases
         /\ Replacing \cap (Copying \cup {"stuck"}) = {} /\ Replacing \subseteq WorkPhases
         /\ "reopen" \in WorkPhases \ (Copying \cup {"stuck"})
         /\ "moveMailbox" \in Replacing
         /\ "copying" \in Copying
    BY DEF WorkPhases, Locking, Separate, Old, Copying, Replacing
  <1>11. TempsOK'
    <2>1. \A d \in Compactors : Phase(d)' \in Separate =>
            mbox'[comp'[d].temp] # NoMailbox /\ mbox'[comp'[d].temp].expunged = {}
      <3>1. Phase(c)' \in Separate =>
              mbox'[comp'[c].temp] # NoMailbox /\ mbox'[comp'[c].temp].expunged = {}
        BY <1>2, <1>3, <1>4, <1>10, EmptyFacts
      <3>2. QED BY <1>9, <1>10, <3>1
    <2>2. \A d, e \in Compactors : Phase(d)' \in Separate /\ Phase(e)' \in Separate =>
            d = e \/ comp'[d].temp # comp'[e].temp
      BY <1>3, <1>4, <1>5, <1>10 DEF IInv, TempsOK, Phase
    <2>3. \A s \in Temps : summary'[s] # NoSummary => summary'[s].size = {}
      BY <1>2, NameFacts DEF IInv, TempsOK
    <2>4. QED BY <2>1, <2>2, <2>3 DEF TempsOK
  <1>12. HeirsOK' /\ SummaryOK' /\ MailboxOK'
    <2>1. Phase(c) # "moveMailbox" /\ (Phase(c)' \in Separate => comp'[c].temp = t)
      BY <1>1, <1>3, <1>4, <1>10
    <2>2. \A g \in Folders : holder'[g] = "delivery" => holder[g] = "delivery"
      BY <1>0, <1>1, NameFacts DEF TypeOK
    <2>3. QED BY <1>1, <1>2, <1>3, <1>5, <2>1, <2>2, TempStep DEF ghosts
  <1>13. WorkOK'
    <2>1. Phase(c)' \in Copying =>
            CopyingOK(comp[c], mbox[Folder(c)], summary[Folder(c)], mbox[comp[c].temp])'
      <3>1. mbox'[f] = mbox[f] /\ summary'[f] = summary[f]
        BY <1>2
      <3>2. QED BY <1>2, <1>3, <1>4, <3>1
    <2>2. QED
      BY <1>4, <1>9, <1>10, <2>1 DEF WorkOK, Copying, Replacing
  <1>14. QED BY <1>6, <1>7, <1>8, <1>11, <1>12, <1>13 DEF IInv

LEMMA StartCompactingOK ==
  ASSUME IInv, NEW c \in Compactors, StartCompacting(c)
  PROVE  IInv'
  <1> DEFINE f == Folder(c)
  <1>1. PICK t \in Temps, old \in SUBSET Offsets :
          /\ Acquire(c, t, old)
          /\ Become(c, [phase |-> IF summary[f].at = NoHeaders THEN "finish" ELSE "copying",
                        folder |-> f, rest |-> comp[c].rest, temp |-> t,
                        keys |-> summary[f].at, todo |-> Keys(summary[f].at),
                        headers |-> NoHeaders, stray |-> old, counted |-> {}])
    BY StrayRows DEF StartCompacting, Folder, IInv
  <1>2. /\ f \in Folders /\ comp[c].rest \subseteq Folders
        /\ mbox[f] # NoMailbox /\ summary[f] # NoSummary
        /\ Describes(summary[f].at, mbox[f])
    BY <1>1, AcquireFacts
  <1> PICK r : r = [phase |-> IF summary[f].at = NoHeaders THEN "finish" ELSE "copying",
                    folder |-> f, rest |-> comp[c].rest, temp |-> t,
                    keys |-> summary[f].at, todo |-> Keys(summary[f].at),
                    headers |-> NoHeaders, stray |-> old, counted |-> {}]
    OBVIOUS
  <1>3. comp' = [comp EXCEPT ![c] = r]
    BY <1>1, <1>2 DEF Become
  <1>4. summary[f].at \in Headers /\ Keys(summary[f].at) \subseteq Msgs
    BY <1>2, FileFacts, NameFacts DEF IInv, Keys
  <1>5. r \in Working
    BY <1>2, <1>4, EmptyFacts DEF Working
  <1>6. CopyingOK(r, mbox[f], summary[f], EmptyMailbox)
    <2>1. r.phase = "finish" => r.todo = {}
      BY EmptyFacts
    <2>2. /\ r.keys = summary[f].at /\ r.todo = Keys(summary[f].at)
          /\ r.counted = {} /\ r.headers = NoHeaders
      OBVIOUS
    <2>3. QED
      BY <1>2, <2>1, <2>2, EmptyFacts DEF CopyingOK
  <1>7. r.temp = t /\ r.folder = f /\ r.rest = comp[c].rest /\ r.phase \in Copying
    BY DEF Copying
  <1>8. QED BY <1>1, <1>3, <1>5, <1>6, <1>7, AcquireOK

LEMMA StartFailsOK ==
  ASSUME IInv, NEW c \in Compactors, StartFails(c)
  PROVE  IInv'
  <1>1. PICK t \in Temps, old \in SUBSET Offsets : Acquire(c, t, old)
    BY StrayRows DEF StartFails, IInv
  <1> PICK r : r = [comp[c] EXCEPT !.phase = "stuck"]
    OBVIOUS
  <1>2. comp' = [comp EXCEPT ![c] = r]
    BY DEF StartFails, Enter, Become
  <1>3. comp[c] \in Waiting
    BY <1>1, PhaseFacts DEF IInv, Acquire, Phase
  <1>4. r \in Waiting /\ r.phase = "stuck" /\ r.folder = Folder(c) /\ r.rest = comp[c].rest
    BY <1>3 DEF Waiting, Folder
  <1>5. QED BY <1>1, <1>2, <1>4, AcquireOK DEF Copying
------------------------------------------------------------------------------
(***************************************************************************)
(* Copying, and FinishCompact.                                             *)
(***************************************************************************)
\* What a compactor works on is nobody else's.
LEMMA OwnFiles ==
  ASSUME IInv, NEW c \in Compactors, Phase(c) \in WorkPhases,
         Phase(c) \in MainThread \/ MainThreadFree
  PROVE  LET t == comp[c].temp  f == Folder(c) IN
         /\ t \in Temps /\ t \in Names /\ f \in Folders /\ f \in Names /\ f # t
         /\ \A d \in Compactors : d # c => Phase(d) \notin MainThread
         /\ Phase(c) \in Old \cup {"moveSummary"} => \A g \in Folders : t \notin heir[g]
         /\ Phase(c) # "reopen" =>
              \A d \in Compactors : d # c /\ Phase(d) \in Separate => comp[d].temp # t
         /\ \A d \in Compactors : d # c /\ Phase(d) \in WorkPhases => Folder(d) # f
  <1> DEFINE t == comp[c].temp
             f == Folder(c)
  <1>1. t \in Temps /\ t \in Names /\ f \in Folders /\ f \in Names /\ f # t
    BY PhaseFacts, NameFacts DEF IInv, WorkPhases, Locking, Separate, Old
  <1>2. \A d \in Compactors : d # c => Phase(d) \notin MainThread
    BY OnlyOne DEF IInv
  <1>3. Phase(c) = "moveSummary" => mbox[t] = NoMailbox
    BY DEF IInv, WorkOK, CopiedOK, Replacing
  <1>4. Phase(c) \in Old \cup {"moveSummary"} => \A g \in Folders : t \notin heir[g]
    BY <1>3 DEF IInv, HeirsOK, Separate, Old
  <1>5. Phase(c) # "reopen" =>
          \A d \in Compactors : d # c /\ Phase(d) \in Separate => comp[d].temp # t
    BY <1>3 DEF IInv, TempsOK, WorkPhases, Locking
  <1>6. \A d \in Compactors : d # c /\ Phase(d) \in WorkPhases => Folder(d) # f
    BY DEF IInv, LocksOK, WorkPhases
  <1>7. QED BY <1>1, <1>2, <1>4, <1>5, <1>6

\* It goes on to a phase in which it keeps the semaphore.
LEMMA EnterStep ==
  ASSUME IInv, NEW c \in Compactors, Phase(c) \in WorkPhases,
         Phase(c) \in MainThread \/ MainThreadFree,
         NEW r \in Working, comp' = [comp EXCEPT ![c] = r],
         r.folder = Folder(c), r.rest = comp[c].rest,
         UNCHANGED locks,
         \A f \in Folders : HasExpunged(f) /\ f # Folder(c) => HasExpunged(f)'
  PROVE  /\ comp' \in [Compactors -> {Idle} \cup Waiting \cup Working]
         /\ MainThreadOK' /\ AskedOK' /\ LocksOK'
  <1>0. TypeOK /\ MainThreadOK /\ AskedOK /\ LocksOK
    BY DEF IInv
  <1>1. /\ comp'[c] = r /\ \A d \in Compactors : d # c => comp'[d] = comp[d]
        /\ comp' \in [Compactors -> {Idle} \cup Waiting \cup Working]
    BY <1>0, BecomeFacts
  <1>2. Phase(c) # "idle" /\ r.phase \notin {"idle", "compact", "parsing"}
    BY DEF WorkPhases, Locking, Separate, Old, Working, FileOps
  <1>3. r.folder \in Asked(c) /\ r.folder \notin r.rest
    BY <1>0, <1>2, PhaseFacts DEF AskedOK, Asked, Folder
  <1>4. MainThreadOK' /\ AskedOK'
    BY <1>0, <1>2, <1>3, ControlOK
  <1>5. LocksOK'
    <2>1. Phase(c) \in Locking /\ Folder(c)' = Folder(c)
      BY <1>1 DEF WorkPhases, Folder
    <2>2. QED BY <1>0, <1>1, <2>1, SameLocks DEF locks
  <1>6. QED BY <1>1, <1>4, <1>5

\* Its files are right in its new phase, and only they have changed.
LEMMA WorkStep ==
  ASSUME IInv, NEW c \in Compactors, Phase(c) \in WorkPhases,
         Phase(c) \in MainThread \/ MainThreadFree,
         NEW t, t = comp[c].temp, NEW f, f = Folder(c),
         \A d \in Compactors : d # c => comp'[d] = comp[d],
         \A n \in Names : n # t /\ n # f => mbox'[n] = mbox[n] /\ summary'[n] = summary[n],
         Phase(c) = "reopen" => mbox'[t] = mbox[t] /\ summary'[t] = summary[t],
         summary'[t] # NoSummary => summary'[t].size = {},
         Phase(c)' \in WorkPhases => comp'[c].temp = t /\ comp'[c].folder = f,
         Phase(c)' \in Separate => mbox'[t] # NoMailbox /\ mbox'[t].expunged = {},
         Phase(c)' \in Copying => CopyingOK(comp'[c], mbox'[f], summary'[f], mbox'[t]),
         Phase(c)' \in Replacing =>
           CopiedOK(Phase(c)', mbox'[f], summary'[f], mbox'[t], summary'[t]),
         Phase(c)' = "moveMailbox" => t \in heir'[f],
         Phase(c)' = "reopen" =>
           mbox'[f] # NoMailbox /\ summary'[f] # NoSummary /\ Describes(summary'[f].at, mbox'[f]),
         Phase(c) = "reopen" => Phase(c)' \notin WorkPhases
  PROVE  TempsOK' /\ WorkOK'
  <1>1. /\ t \in Temps /\ t \in Names /\ f \in Folders /\ f \in Names /\ f # t
        /\ \A d \in Compactors : d # c => Phase(d) \notin MainThread
        /\ Phase(c) # "reopen" =>
             \A d \in Compactors : d # c /\ Phase(d) \in Separate => comp[d].temp # t
        /\ \A d \in Compactors : d # c /\ Phase(d) \in WorkPhases => Folder(d) # f
    BY OwnFiles
  <1> DEFINE N == IF Phase(c) = "reopen" THEN {f} ELSE {t, f}
  <1>2. \A d \in Compactors : d # c /\ Phase(d) = "copying" =>
          comp[d].temp \notin N /\ Folder(d) \notin N
    <2>1. \A d \in Compactors : Phase(d) = "copying" =>
            comp[d].temp \in Temps /\ Folder(d) \in Folders /\ Phase(d) \in Separate
            /\ Phase(d) \in WorkPhases
      BY PhaseFacts DEF IInv, WorkPhases, Locking, Separate, Old
    <2>2. QED BY <1>1, <2>1, NameFacts
  <1>3. \A n \in Names : n \notin N => mbox'[n] = mbox[n] /\ summary'[n] = summary[n]
    OBVIOUS
  <1> HIDE DEF N
  <1>4. \A d \in Compactors : d # c =>
           /\ Phase(d)' \in WorkPhases => Phase(d)' = "copying"
           /\ Phase(d)' = "copying" =>
                /\ CopyingOK(comp[d], mbox[Folder(d)], summary[Folder(d)], mbox[comp[d].temp])'
                /\ mbox'[comp'[d].temp] # NoMailbox /\ mbox'[comp'[d].temp].expunged = {}
    BY <1>1, <1>2, <1>3, OthersKeep
  <1>5. /\ Separate \subseteq WorkPhases /\ Copying \subseteq WorkPhases
        /\ Replacing \subseteq WorkPhases /\ "moveMailbox" \in WorkPhases
        /\ "reopen" \in WorkPhases /\ "copying" \notin Replacing
    BY DEF WorkPhases, Locking, Separate, Old, Copying, Replacing
  <1>6. TempsOK'
    <2>1. \A d \in Compactors : Phase(d)' \in Separate =>
            mbox'[comp'[d].temp] # NoMailbox /\ mbox'[comp'[d].temp].expunged = {}
      BY <1>4, <1>5
    <2>2. \A d, e \in Compactors : Phase(d)' \in Separate /\ Phase(e)' \in Separate =>
            d = e \/ comp'[d].temp # comp'[e].temp
      BY <1>1, <1>5 DEF IInv, TempsOK, Phase
    <2>3. \A s \in Temps : summary'[s] # NoSummary => summary'[s].size = {}
      BY <1>1, NameFacts DEF IInv, TempsOK
    <2>4. QED BY <2>1, <2>2, <2>3 DEF TempsOK
  <1>7. WorkOK'
    BY <1>4, <1>5 DEF WorkOK, Folder, Copying
  <1>8. QED BY <1>6, <1>7

LEMMA EndCopyOK ==
  ASSUME IInv, NEW c \in Compactors, EndCopy(c)
  PROVE  IInv'
  <1> PICK t, f : t = comp[c].temp /\ f = Folder(c)
    OBVIOUS
  <1> DEFINE b == mbox[t]
  <1>0. TypeOK
    BY DEF IInv
  <1>1. Phase(c) = "copying" /\ MainThreadFree /\ UNCHANGED <<summary, locks, crashes, ghosts>>
    BY DEF EndCopy, Phase
  <1>2. PICK m \in comp[c].todo :
          LET left == comp[c].todo \ {m} IN
          /\ AppendToTemp(c, m)
          /\ Become(c, Copied(c, m, left, IF left = {} THEN "finish" ELSE "copying"))
    BY DEF EndCopy
  <1> DEFINE left == comp[c].todo \ {m}
  <1>3. /\ Phase(c) \in WorkPhases /\ Phase(c) \in Copying /\ Phase(c) \in Old
        /\ comp[c] \in Working
        /\ comp[c].todo \subseteq Msgs /\ comp[c].counted \subseteq Msgs
        /\ comp[c].headers \in Headers
    BY <1>0, <1>1, PhaseFacts DEF WorkPhases, Locking, Separate, Old, Copying
  <1>4. /\ t \in Temps /\ t \in Names /\ f \in Folders /\ f \in Names /\ f # t
        /\ \A g \in Folders : t \notin heir[g]
    BY <1>1, <1>3, OwnFiles
  <1>5. CopyingOK(comp[c], mbox[f], summary[f], b)
    BY <1>3 DEF IInv, WorkOK
  <1>6. /\ summary[f].at \in Headers /\ mbox[f] \in Mailboxes
        /\ b \in Mailboxes /\ b # NoMailbox /\ b.expunged = {}
    BY <1>0, <1>3, <1>4, <1>5, FileFacts DEF IInv, TempsOK, CopyingOK, Separate
  <1>7. /\ m \in Msgs /\ m \in Keys(summary[f].at) /\ m \notin Range(b.msgs)
        /\ ~HeaderGone(c, m) /\ Streamed(c, m) = m
    <2>1. m \in Msgs /\ m \in Keys(summary[f].at) /\ m \notin Range(b.msgs)
      BY <1>3, <1>5 DEF CopyingOK
    <2>2. mbox[f].msgs[summary[f].at[m]] = m
      BY <1>5, <1>6, <2>1, DescribedKeys DEF CopyingOK
    <2>3. QED
      BY <1>5, <2>1, <2>2 DEF CopyingOK, Keys, HeaderGone, Streamed, Folder
  <1> DEFINE e == [b EXCEPT !.msgs = Append(@, m)]
             h == [comp[c].headers EXCEPT ![m] = Len(b.msgs) + 1]
  <1>8. /\ e \in Mailboxes /\ Range(e.msgs) = Range(b.msgs) \cup {m} /\ e.expunged = {}
        /\ h \in Headers /\ Describes(h, e)
    <2>1. Describes(comp[c].headers, b)
      BY <1>5 DEF CopyingOK
    <2>2. e.msgs = Append(b.msgs, m) /\ e.expunged = {}
      BY <1>6 DEF Mailboxes, Mailbox
    <2>3. QED
      BY <1>3, <1>6, <1>7, <2>1, <2>2, AppendNew, AppendDescribes
  <1> PICK r : r = [comp[c] EXCEPT !.phase = IF left = {} THEN "finish" ELSE "copying",
                      !.todo = left, !.headers = h, !.stray = @ \ {Size(t)},
                      !.counted = @ \cup {m}]
    OBVIOUS
  <1>9. comp' = [comp EXCEPT ![c] = r]
    <2>1. [comp[c] EXCEPT !.phase = IF left = {} THEN "finish" ELSE "copying",
             !.todo = left, !.headers[m] = Len(b.msgs) + 1, !.stray = @ \ {Size(t)},
             !.counted = @ \cup {m}] = r
      BY <1>3 DEF Working
    <2>2. QED BY <1>2, <1>7, <2>1 DEF Become, Copied
  <1>10. /\ mbox' = [mbox EXCEPT ![t] = e]
         /\ mbox'[t] = e /\ \A n \in Names : n # t => mbox'[n] = mbox[n]
    <2>1. mbox' = [mbox EXCEPT ![t] = e]
      BY <1>2, <1>7 DEF AppendToTemp
    <2>2. QED BY <1>0, <1>4, <2>1 DEF TypeOK
  <1>11. /\ r \in Working
         /\ r.phase \in Copying /\ r.folder = f /\ r.rest = comp[c].rest /\ r.temp = t
         /\ r.keys = comp[c].keys /\ r.todo = left /\ r.headers = h
         /\ r.counted = comp[c].counted \cup {m}
         /\ (r.phase = "finish" => left = {})
    BY <1>3, <1>7, <1>8 DEF Working, Copying, Folder
  <1>12. comp'[c] = r /\ \A d \in Compactors : d # c => comp'[d] = comp[d]
    BY <1>0, <1>9, BecomeFacts
  <1>13. CopyingOK(r, mbox[f], summary[f], e)
    BY <1>5, <1>7, <1>8, <1>11 DEF CopyingOK
  <1>14. /\ comp' \in [Compactors -> {Idle} \cup Waiting \cup Working]
         /\ MainThreadOK' /\ AskedOK' /\ LocksOK'
    <2>1. \A g \in Folders : HasExpunged(g) => HasExpunged(g)'
      BY <1>4, <1>10, NameFacts DEF HasExpunged
    <2>2. QED BY <1>1, <1>3, <1>9, <1>11, <2>1, EnterStep
  <1>15. TypeOK'
    <2>1. mbox' \in [Names -> Mailbox \cup {NoMailbox}]
      BY <1>0, <1>4, <1>8, <1>10 DEF TypeOK, Mailboxes
    <2>2. \A n \in Names : mbox'[n] # NoMailbox =>
            IsInjective(mbox'[n].msgs) /\ mbox'[n].expunged \subseteq Range(mbox'[n].msgs)
      BY <1>0, <1>8, <1>10 DEF TypeOK, Mailboxes
    <2>3. QED BY <1>0, <1>1, <1>14, <2>1, <2>2 DEF TypeOK, locks, ghosts
  <1>16. Phase(c)' = r.phase /\ comp'[c].temp = t /\ comp'[c].folder = f
    BY <1>11, <1>12 DEF Phase
  <1>17. HeirsOK' /\ SummaryOK' /\ MailboxOK'
    <2>1. \A g \in Folders : holder'[g] = "delivery" => holder[g] = "delivery"
      BY <1>1 DEF locks
    <2>2. \A n \in Names : n # t => mbox'[n] = mbox[n] /\ summary'[n] = summary[n]
      BY <1>1, <1>10
    <2>3. heir' = heir /\ Phase(c) # "moveMailbox"
      BY <1>1 DEF ghosts
    <2>4. t \in Temps /\ \A g \in Folders : t \notin heir[g]
      BY <1>4
    <2>5. \A d \in Compactors : d # c => comp'[d] = comp[d]
      BY <1>12
    <2>6. comp'[c].temp = t
      BY <1>16
    <2> HIDE DEF b, e, h, left
    <2>7. QED BY <2>1, <2>2, <2>3, <2>4, <2>5, <2>6, TempStep
  <1>18. TempsOK' /\ WorkOK'
    <2>1. CopyingOK(comp'[c], mbox'[f], summary'[f], mbox'[t])
      BY <1>1, <1>4, <1>10, <1>12, <1>13
    <2>2. mbox'[t] # NoMailbox /\ mbox'[t].expunged = {}
      BY <1>8, <1>10, CompactionAssumption DEF Mailboxes
    <2>3. summary'[t] # NoSummary => summary'[t].size = {}
      BY <1>1, <1>4 DEF IInv, TempsOK
    <2>4. Phase(c)' \notin Replacing /\ Phase(c)' \notin {"moveMailbox", "reopen"} /\ Phase(c) # "reopen"
      BY <1>1, <1>11, <1>16 DEF Copying, Replacing
    <2>5. \A n \in Names : n # t /\ n # f => mbox'[n] = mbox[n] /\ summary'[n] = summary[n]
      BY <1>1, <1>10
    <2>6. /\ MainThreadFree /\ Phase(c) \in WorkPhases
          /\ t = comp[c].temp /\ f = Folder(c)
          /\ comp'[c].temp = t /\ comp'[c].folder = f
          /\ \A d \in Compactors : d # c => comp'[d] = comp[d]
      BY <1>1, <1>3, <1>12, <1>16
    <2> HIDE DEF b, e, h, left
    <2>7. QED BY <2>1, <2>2, <2>3, <2>4, <2>5, <2>6, WorkStep
  <1>19. QED BY <1>14, <1>15, <1>17, <1>18 DEF IInv

\* No header goes while its message is being copied.
LEMMA NextIsNotGone ==
  ASSUME IInv, NEW c \in Compactors, NextIsGone(c)
  PROVE  FALSE
  <1>1. Phase(c) \in Copying
    BY DEF NextIsGone, Phase, Copying
  <1>2. comp[c].todo \subseteq Keys(summary[Folder(c)].at)
    BY <1>1 DEF IInv, WorkOK, CopyingOK
  <1>3. PICK n \in comp[c].todo : HeaderGone(c, n)
    BY DEF NextIsGone
  <1>4. QED
    BY <1>2, <1>3 DEF Keys, HeaderGone, Folder

LEMMA StreamFailsOK ==
  ASSUME IInv, NEW c \in Compactors, StreamFails(c)
  PROVE  IInv'
  <1>1. Phase(c) \in Old /\ MainThreadFree
    BY DEF StreamFails, Phase, Old
  <1> PICK r : r = Idle
    OBVIOUS
  <1>2. comp' = [comp EXCEPT ![c] = r]
    BY DEF StreamFails, Become
  <1>3. CleanupTempFiles(c) /\ ReleaseFolderLock(c) /\ UNCHANGED <<reparse, crashes, ghosts>>
    BY DEF StreamFails
  <1>4. QED BY <1>1, <1>2, <1>3, GiveUpOK

\* An operation of FinishCompact fails.
LEMMA GiveUpFolderOK ==
  ASSUME IInv, NEW c \in Compactors, Phase(c) \in MainThread,
         Phase(c) \in Old \cup {"moveSummary"},
         GiveUpFolder(c), UNCHANGED ghosts
  PROVE  IInv'
  <1>1. TypeOK /\ Phase(c) # "idle"
    BY DEF IInv, Old
  <1>2. CleanupTempFiles(c) /\ ReleaseFolderLock(c) /\ CompactNextFolder(c)
        /\ UNCHANGED <<reparse, crashes, ghosts>>
    BY DEF GiveUpFolder
  <1>3. PICK r : /\ comp' = [comp EXCEPT ![c] = r]
                 /\ \/ r = Idle
                    \/ \E f \in comp[c].rest : r = About(f, comp[c].rest \ {f}, "compact")
    BY <1>1, <1>2, NextFacts
  <1>4. QED BY <1>2, <1>3, GiveUpOK

\* It is on the main thread, and goes on to the next operation.
LEMMA OperationFacts ==
  ASSUME IInv, NEW c \in Compactors, Phase(c) \in {"finish"} \cup FileOps,
         NEW p \in FileOps, Enter(c, p), UNCHANGED locks,
         \A g \in Folders : HasExpunged(g) /\ g # Folder(c) => HasExpunged(g)'
  PROVE  /\ Phase(c) \in WorkPhases /\ Phase(c) \in MainThread
         /\ Phase(c)' = p /\ comp'[c].temp = comp[c].temp /\ comp'[c].folder = Folder(c)
         /\ \A d \in Compactors : d # c => comp'[d] = comp[d]
         /\ comp' \in [Compactors -> {Idle} \cup Waiting \cup Working]
         /\ MainThreadOK' /\ AskedOK' /\ LocksOK'
  <1>1. Phase(c) \in WorkPhases /\ Phase(c) \in MainThread
    BY DEF WorkPhases, Locking, Separate, Old, FileOps, MainThread
  <1> PICK r : r = [comp[c] EXCEPT !.phase = p]
    OBVIOUS
  <1>2. comp' = [comp EXCEPT ![c] = r]
    BY DEF Enter, Become
  <1>3. /\ r \in Working /\ r.phase = p /\ r.temp = comp[c].temp
        /\ r.folder = comp[c].folder /\ r.rest = comp[c].rest
        /\ comp'[c] = r /\ \A d \in Compactors : d # c => comp'[d] = comp[d]
    BY <1>1, EnterFacts DEF IInv
  <1>4. /\ comp' \in [Compactors -> {Idle} \cup Waiting \cup Working]
        /\ MainThreadOK' /\ AskedOK' /\ LocksOK'
    BY <1>1, <1>2, <1>3, EnterStep DEF Folder
  <1>5. QED BY <1>1, <1>3, <1>4 DEF Phase, Folder

\* What Flush leaves has the right size only when nothing was lost.
LEMMA FinishCompactOK ==
  ASSUME IInv, NEW c \in Compactors, FinishCompact(c)
  PROVE  IInv'
  <1> PICK t, f : t = comp[c].temp /\ f = Folder(c)
    OBVIOUS
  <1>0. TypeOK
    BY DEF IInv
  <1>1. Phase(c) = "finish" /\ UNCHANGED ghosts
    BY DEF FinishCompact, Phase
  <1>2. PICK kept \in Flushed(mbox[t].msgs) :
          \/ /\ Range(kept) = comp[c].counted
             /\ mbox' = [mbox EXCEPT ![t].msgs = kept]
             /\ summary' = [summary EXCEPT ![t] = NewSummary(c)]
             /\ Enter(c, "removeSummary")
             /\ UNCHANGED <<locks, crashes>>
          \/ GiveUpFolder(c)
    BY DEF FinishCompact
  <1>3. /\ Phase(c) \in WorkPhases /\ Phase(c) \in Copying /\ Phase(c) \in Old
        /\ Phase(c) \in Separate /\ Phase(c) \in MainThread /\ Phase(c) \in {"finish"} \cup FileOps
    BY <1>1 DEF WorkPhases, Locking, Separate, Old, Copying, MainThread
  <1>4. CASE GiveUpFolder(c)
    BY <1>1, <1>3, <1>4, GiveUpFolderOK
  <1>5. CASE ~GiveUpFolder(c)
    <2>1. /\ Range(kept) = comp[c].counted
          /\ mbox' = [mbox EXCEPT ![t].msgs = kept]
          /\ summary' = [summary EXCEPT ![t] = NewSummary(c)]
          /\ Enter(c, "removeSummary")
          /\ UNCHANGED <<locks, crashes>>
      BY <1>2, <1>5
    <2>2. /\ t \in Temps /\ t \in Names /\ f \in Folders /\ f \in Names /\ f # t
          /\ \A g \in Folders : t \notin heir[g]
      BY <1>3, OwnFiles
    <2>3. /\ CopyingOK(comp[c], mbox[f], summary[f], mbox[t]) /\ comp[c].todo = {}
          /\ mbox[t] # NoMailbox /\ mbox[t].expunged = {}
      BY <1>1, <1>3 DEF IInv, WorkOK, TempsOK, CopyingOK, Phase
    <2>4. /\ mbox[t] \in Mailboxes /\ mbox[f] \in Mailboxes /\ mbox[f] # NoMailbox
          /\ summary[f].at \in Headers /\ comp[c].headers \in Headers
      BY <1>0, <1>3, <2>2, <2>3, FileFacts, PhaseFacts DEF CopyingOK
    <2>5. kept = mbox[t].msgs
      BY <2>1, <2>3, <2>4, LossIsSeen DEF CopyingOK, Mailboxes, Mailbox
    <2>6. mbox' = mbox
      BY <1>0, <2>1, <2>2, <2>4, <2>5 DEF TypeOK, Mailboxes, Mailbox
    <2>7. /\ summary'[t] = NewSummary(c)
          /\ summary'[t].at = comp[c].headers /\ summary'[t].size = {}
          /\ \A n \in Names : n # t => summary'[n] = summary[n]
          /\ summary'[t] \in Summary /\ summary'[t] # NoSummary
          /\ summary' \in [Names -> Summary \cup {NoSummary}]
      <3>1. comp[c].stray \in SUBSET Offsets
        BY <1>0, <1>3, PhaseFacts DEF Working
      <3>2. NewSummary(c) \in Summary
        BY <2>4, <3>1 DEF NewSummary, Summary
      <3>3. NewSummary(c).at = comp[c].headers /\ NewSummary(c).size = {}
        BY DEF NewSummary
      <3>4. QED BY <1>0, <2>1, <2>2, <3>2, <3>3, CompactionAssumption DEF TypeOK
    <2>8. \A g \in Folders : HasExpunged(g) => HasExpunged(g)'
      BY <2>6 DEF HasExpunged
    <2>9. /\ Phase(c)' = "removeSummary" /\ comp'[c].temp = t /\ comp'[c].folder = f
          /\ \A d \in Compactors : d # c => comp'[d] = comp[d]
          /\ comp' \in [Compactors -> {Idle} \cup Waiting \cup Working]
          /\ MainThreadOK' /\ AskedOK' /\ LocksOK'
      BY <1>3, <2>1, <2>8, OperationFacts DEF FileOps
    <2>10. TypeOK'
      BY <1>0, <1>1, <2>1, <2>6, <2>7, <2>9 DEF TypeOK, locks, ghosts
    <2>11. HeirsOK' /\ SummaryOK' /\ MailboxOK'
      <3>1. \A n \in Names : n # t => mbox'[n] = mbox[n] /\ summary'[n] = summary[n]
        BY <2>6, <2>7
      <3>2. heir' = heir /\ Phase(c) # "moveMailbox"
        BY <1>1 DEF ghosts
      <3>3. \A g \in Folders : holder'[g] = "delivery" => holder[g] = "delivery"
        BY <2>1 DEF locks
      <3>4. QED BY <2>2, <2>9, <3>1, <3>2, <3>3, TempStep
    <2>12. CopiedOK("removeSummary", mbox'[f], summary'[f], mbox'[t], summary'[t])
      <3>1. Keys(summary[f].at) = Range(mbox[f].msgs) \ mbox[f].expunged
        BY <2>3, <2>4, DescribedKeys DEF CopyingOK
      <3>2. Range(mbox[t].msgs) = Range(mbox[f].msgs) \ mbox[f].expunged
        BY <2>3, <3>1 DEF CopyingOK
      <3>3. Describes(comp[c].headers, mbox[t])
        BY <2>3 DEF CopyingOK
      <3>4. QED
        BY <2>4, <2>6, <2>7, <3>2, <3>3 DEF CopiedOK
    <2>13. TempsOK' /\ WorkOK'
      <3>1. summary'[t].size = {} /\ mbox'[t] # NoMailbox /\ mbox'[t].expunged = {}
        BY <2>3, <2>6, <2>7
      <3>2. \A n \in Names : n # t /\ n # f => mbox'[n] = mbox[n] /\ summary'[n] = summary[n]
        BY <2>6, <2>7
      <3>3. Phase(c)' \notin Copying /\ Phase(c)' \notin {"moveMailbox", "reopen"} /\ Phase(c) # "reopen"
        BY <1>1, <2>9 DEF Copying
      <3>4. CopiedOK(Phase(c)', mbox'[f], summary'[f], mbox'[t], summary'[t])
        BY <2>9, <2>12
      <3>5. QED BY <1>3, <2>9, <3>1, <3>2, <3>3, <3>4, WorkStep
    <2>14. QED BY <2>9, <2>10, <2>11, <2>13 DEF IInv
  <1>6. QED BY <1>4, <1>5

LEMMA RemoveSummaryOK ==
  ASSUME IInv, NEW c \in Compactors, RemoveSummary(c)
  PROVE  IInv'
  <1> PICK t, f : t = comp[c].temp /\ f = Folder(c)
    OBVIOUS
  <1>0. TypeOK
    BY DEF IInv
  <1>1. Phase(c) = "removeSummary" /\ UNCHANGED ghosts
    BY DEF RemoveSummary, Phase
  <1>2. /\ Phase(c) \in WorkPhases /\ Phase(c) \in Replacing /\ Phase(c) \in Old
        /\ Phase(c) \in Separate /\ Phase(c) \in MainThread /\ Phase(c) \in {"finish"} \cup FileOps
    BY <1>1 DEF WorkPhases, Locking, Separate, Old, Replacing, MainThread, FileOps
  <1>3. CASE GiveUpFolder(c)
    BY <1>1, <1>2, <1>3, GiveUpFolderOK
  <1>4. CASE /\ summary' = [summary EXCEPT ![comp[c].folder] = NoSummary]
             /\ Enter(c, "removeMailbox")
             /\ UNCHANGED <<mbox, locks, crashes>>
    <2>1. /\ t \in Temps /\ t \in Names /\ f \in Folders /\ f \in Names /\ f # t
          /\ \A g \in Folders : t \notin heir[g]
          /\ \A d \in Compactors : d # c => Phase(d) \notin MainThread
      BY <1>2, OwnFiles
    <2>2. /\ CopiedOK("removeSummary", mbox[f], summary[f], mbox[t], summary[t])
          /\ mbox[t] # NoMailbox /\ mbox[t].expunged = {}
      BY <1>1, <1>2 DEF IInv, WorkOK, TempsOK
    <2>3. /\ summary'[f] = NoSummary
          /\ \A n \in Names : n # f => summary'[n] = summary[n]
          /\ summary' \in [Names -> Summary \cup {NoSummary}]
      BY <1>0, <1>4, <2>1 DEF TypeOK, Folder
    <2>4. /\ Phase(c)' = "removeMailbox" /\ comp'[c].temp = t /\ comp'[c].folder = f
          /\ \A d \in Compactors : d # c => comp'[d] = comp[d]
          /\ comp' \in [Compactors -> {Idle} \cup Waiting \cup Working]
          /\ MainThreadOK' /\ AskedOK' /\ LocksOK'
      <3>1. \A g \in Folders : HasExpunged(g) => HasExpunged(g)'
        BY <1>4 DEF HasExpunged
      <3>2. QED BY <1>2, <1>4, <3>1, OperationFacts DEF FileOps
    <2>5. TypeOK'
      BY <1>0, <1>1, <1>4, <2>3, <2>4 DEF TypeOK, locks, ghosts
    <2>6. HeirsOK'
      <3>1. /\ mbox' = mbox /\ heir' = heir /\ \A n \in Names : Size(n)' = Size(n)
            /\ \A g \in Folders : \A s \in heir[g] : g \in Names /\ s \in Names /\ s # t
        BY <1>0, <1>1, <1>4, <2>1, NameFacts DEF ghosts, Size, TypeOK
      <3>2. \A d \in Compactors : comp'[d].temp # t => comp'[d] = comp[d]
        BY <2>4
      <3>3. QED BY <3>1, <3>2 DEF IInv, HeirsOK, Disjoint, Phase, Folder
    <2>7. SummaryOK'
      <3>1. mbox' = mbox /\ holder' = holder
        BY <1>4 DEF locks
      <3>2. holder[f] = c /\ c # "delivery"
        BY <1>2, NameFacts DEF IInv, LocksOK, WorkPhases
      <3>3. QED
        BY <2>3, <3>1, <3>2, NameFacts DEF IInv, SummaryOK, Valid, Size
    <2>8. MailboxOK'
      <3>1. mbox' = mbox /\ holder' = holder
        BY <1>4 DEF locks
      <3>2. holder[f] = c /\ c # "delivery"
        BY <1>2, NameFacts DEF IInv, LocksOK, WorkPhases
      <3>3. \A d \in Compactors : Phase(d) = "moveMailbox" => comp'[d] = comp[d]
        BY <1>1, <2>4
      <3>4. QED
        BY <2>3, <3>1, <3>2, <3>3, NameFacts DEF IInv, MailboxOK, Phase, Folder
    <2>9. TempsOK' /\ WorkOK'
      <3>1. summary'[t] # NoSummary => summary'[t].size = {}
        BY <2>1, <2>3 DEF IInv, TempsOK
      <3>2. \A n \in Names : n # t /\ n # f => mbox'[n] = mbox[n] /\ summary'[n] = summary[n]
        BY <1>4, <2>3
      <3>3. Phase(c)' \notin Copying /\ Phase(c)' \notin {"moveMailbox", "reopen"} /\ Phase(c) # "reopen"
        BY <1>1, <2>4 DEF Copying
      <3>4. CopiedOK(Phase(c)', mbox'[f], summary'[f], mbox'[t], summary'[t])
        BY <1>4, <2>1, <2>2, <2>3, <2>4 DEF CopiedOK
      <3>5. mbox'[t] # NoMailbox /\ mbox'[t].expunged = {}
        BY <1>4, <2>2
      <3>6. QED BY <1>2, <2>4, <3>1, <3>2, <3>3, <3>4, <3>5, WorkStep
    <2>10. QED BY <2>4, <2>5, <2>6, <2>7, <2>8, <2>9 DEF IInv
  <1>5. QED BY <1>3, <1>4 DEF RemoveSummary

\* From here the folder's mail is in the temporary file alone.
LEMMA RemoveMailboxOK ==
  ASSUME IInv, NEW c \in Compactors, RemoveMailbox(c)
  PROVE  IInv'
  <1> PICK t, f : t = comp[c].temp /\ f = Folder(c)
    OBVIOUS
  <1>0. TypeOK
    BY DEF IInv
  <1>1. Phase(c) = "removeMailbox"
    BY DEF RemoveMailbox, Phase
  <1>2. /\ Phase(c) \in WorkPhases /\ Phase(c) \in Replacing /\ Phase(c) \in Old
        /\ Phase(c) \in Separate /\ Phase(c) \in MainThread /\ Phase(c) \in {"finish"} \cup FileOps
    BY <1>1 DEF WorkPhases, Locking, Separate, Old, Replacing, MainThread, FileOps
  <1>3. CASE GiveUpFolder(c) /\ UNCHANGED ghosts
    BY <1>2, <1>3, GiveUpFolderOK
  <1>4. CASE /\ mbox' = [mbox EXCEPT ![comp[c].folder] = NoMailbox]
             /\ heir' = [heir EXCEPT ![comp[c].folder] = @ \cup {comp[c].temp}]
             /\ Enter(c, "moveMailbox")
             /\ UNCHANGED <<summary, locks, crashes, deleted, lost>>
    <2>1. /\ t \in Temps /\ t \in Names /\ f \in Folders /\ f \in Names /\ f # t
          /\ \A g \in Folders : t \notin heir[g]
          /\ \A d \in Compactors : d # c => Phase(d) \notin MainThread
          /\ \A d \in Compactors : d # c /\ Phase(d) \in Separate => comp[d].temp # t
      BY <1>1, <1>2, OwnFiles
    <2>2. /\ CopiedOK("removeMailbox", mbox[f], summary[f], mbox[t], summary[t])
          /\ mbox[t] # NoMailbox /\ mbox[t].expunged = {}
      BY <1>1, <1>2 DEF IInv, WorkOK, TempsOK
    <2>3. /\ mbox'[f] = NoMailbox
          /\ \A n \in Names : n # f => mbox'[n] = mbox[n]
          /\ mbox' \in [Names -> Mailbox \cup {NoMailbox}]
      BY <1>0, <1>4, <2>1 DEF TypeOK, Folder
    <2>4. /\ heir'[f] = heir[f] \cup {t}
          /\ \A g \in Folders : g # f => heir'[g] = heir[g]
          /\ heir' \in [Folders -> SUBSET Temps]
      BY <1>0, <1>4, <2>1 DEF TypeOK, Folder
    <2>5. /\ Phase(c)' = "moveMailbox" /\ comp'[c].temp = t /\ comp'[c].folder = f
          /\ \A d \in Compactors : d # c => comp'[d] = comp[d]
          /\ comp' \in [Compactors -> {Idle} \cup Waiting \cup Working]
          /\ MainThreadOK' /\ AskedOK' /\ LocksOK'
      <3>1. \A g \in Folders : HasExpunged(g) /\ g # Folder(c) => HasExpunged(g)'
        BY <2>3, NameFacts DEF HasExpunged
      <3>2. QED BY <1>2, <1>4, <3>1, OperationFacts DEF FileOps
    <2>6. TypeOK'
      <3>1. \A n \in Names : mbox'[n] # NoMailbox => mbox'[n] = mbox[n]
        BY <2>3
      <3>2. QED BY <1>0, <1>4, <2>3, <2>4, <2>5, <3>1 DEF TypeOK, locks
    <2>7. /\ Size(f)' = {} /\ \A n \in Names : n # f => Size(n)' = Size(n)
          /\ Size(t) \subseteq Size(f)
      BY <2>1, <2>2, <2>3 DEF Size, CopiedOK
    <2>8. HeirsOK'
      <3> SUFFICES ASSUME NEW g \in Folders, NEW s \in heir'[g]
                   PROVE  /\ mbox'[s] # NoMailbox
                          /\ \A d \in Compactors : Phase(d)' \in Separate /\ comp'[d].temp = s =>
                               Phase(d)' = "moveMailbox" /\ Folder(d)' = g
                          /\ Disjoint(g, s)'
                          /\ \A u \in heir'[g] : u # s => Disjoint(u, s)'
        BY DEF HeirsOK
      <3>1. /\ s \in Names /\ s # f /\ g \in Names
            /\ \A u \in heir'[g] : u \in Names /\ u # f
        BY <2>1, <2>4, NameFacts
      <3>2. CASE s = t
        <4>1. g = f
          BY <2>1, <2>4, <3>2
        <4>2. mbox'[s] # NoMailbox
          BY <2>1, <2>2, <2>3, <3>2
        <4>3. \A d \in Compactors : Phase(d)' \in Separate /\ comp'[d].temp = s =>
                 Phase(d)' = "moveMailbox" /\ Folder(d)' = g
          BY <2>1, <2>5, <3>2, <4>1 DEF Phase, Folder
        <4>4. \A u \in heir[f] : Disjoint(f, u)
          BY <2>1 DEF IInv, HeirsOK
        <4>5. Disjoint(g, s)' /\ \A u \in heir'[g] : u # s => Disjoint(u, s)'
          BY <2>1, <2>4, <2>7, <3>1, <3>2, <4>1, <4>4 DEF Disjoint
        <4>6. QED BY <4>2, <4>3, <4>5
      <3>3. CASE s # t
        <4>1. s \in heir[g]
          BY <2>4, <3>3
        <4>2. mbox'[s] # NoMailbox
          BY <2>3, <3>1, <4>1 DEF IInv, HeirsOK
        <4>3. \A d \in Compactors : Phase(d)' \in Separate /\ comp'[d].temp = s =>
                 Phase(d)' = "moveMailbox" /\ Folder(d)' = g
          BY <2>5, <3>3, <4>1 DEF IInv, HeirsOK, Phase, Folder
        <4>4. Disjoint(g, s)'
          BY <2>7, <3>1, <4>1 DEF IInv, HeirsOK, Disjoint
        <4>5. ASSUME NEW u \in heir'[g], u # s
              PROVE  Disjoint(u, s)'
          <5>1. CASE u = t
            <6>1. g = f /\ Disjoint(f, s)
              BY <2>1, <2>4, <4>1, <5>1 DEF IInv, HeirsOK
            <6>2. QED BY <2>1, <2>7, <3>1, <5>1, <6>1 DEF Disjoint
          <5>2. CASE u # t
            <6>1. u \in heir[g]
              BY <2>4, <5>2
            <6>2. QED BY <2>7, <3>1, <4>1, <4>5, <6>1 DEF IInv, HeirsOK, Disjoint
          <5>3. QED BY <5>1, <5>2
        <4>6. QED BY <4>2, <4>3, <4>4, <4>5
      <3>4. QED BY <3>2, <3>3
    <2>9. SummaryOK'
      <3>1. summary' = summary /\ holder' = holder
        BY <1>4 DEF locks
      <3>2. QED
        BY <2>3, <2>7, <3>1, NameFacts DEF IInv, SummaryOK, Valid
    <2>10. MailboxOK'
      <3>1. summary' = summary /\ holder' = holder
        BY <1>4 DEF locks
      <3>2. holder[f] = c /\ c # "delivery"
        BY <1>2, NameFacts DEF IInv, LocksOK, WorkPhases
      <3>3. Phase(c)' = "moveMailbox" /\ Folder(c)' = f
        BY <2>5 DEF Folder
      <3>4. \A d \in Compactors : Phase(d) = "moveMailbox" => Phase(d)' = Phase(d) /\ Folder(d)' = Folder(d)
        BY <1>1, <2>5 DEF Phase, Folder
      <3>5. QED
        BY <2>3, <3>1, <3>2, <3>3, <3>4, NameFacts DEF IInv, MailboxOK
    <2>11. TempsOK' /\ WorkOK'
      <3>1. summary'[t] # NoSummary => summary'[t].size = {}
        BY <1>4, <2>1 DEF IInv, TempsOK
      <3>2. \A n \in Names : n # t /\ n # f => mbox'[n] = mbox[n] /\ summary'[n] = summary[n]
        BY <1>4, <2>3
      <3>3. Phase(c)' \notin Copying /\ Phase(c)' # "reopen" /\ Phase(c) # "reopen"
        BY <1>1, <2>5 DEF Copying
      <3>4. CopiedOK(Phase(c)', mbox'[f], summary'[f], mbox'[t], summary'[t])
        BY <1>4, <2>1, <2>2, <2>3, <2>5 DEF CopiedOK
      <3>5. mbox'[t] # NoMailbox /\ mbox'[t].expunged = {} /\ t \in heir'[f]
        BY <2>1, <2>2, <2>3, <2>4
      <3>6. QED BY <1>2, <2>5, <3>1, <3>2, <3>3, <3>4, <3>5, WorkStep
    <2>12. QED BY <2>5, <2>6, <2>8, <2>9, <2>10, <2>11 DEF IInv
  <1>5. QED BY <1>3, <1>4 DEF RemoveMailbox

LEMMA MoveMailboxOK ==
  ASSUME IInv, Tame, NEW c \in Compactors, MoveMailbox(c)
  PROVE  IInv'
  <1> PICK t, f : t = comp[c].temp /\ f = Folder(c)
    OBVIOUS
  <1>0. TypeOK
    BY DEF IInv
  <1>1. Phase(c) = "moveMailbox"
    BY DEF MoveMailbox, Phase
  <1>2. /\ Phase(c) \in WorkPhases /\ Phase(c) \in Replacing
        /\ Phase(c) \in Separate /\ Phase(c) \in MainThread /\ Phase(c) \in {"finish"} \cup FileOps
    BY <1>1 DEF WorkPhases, Locking, Separate, Old, Replacing, MainThread, FileOps
  <1>3. /\ heir' = [heir EXCEPT ![f] = @ \ {t}]
        /\ mbox' = [mbox EXCEPT ![f] = mbox[t], ![t] = NoMailbox]
        /\ Enter(c, "moveSummary")
        /\ UNCHANGED <<summary, locks, crashes, deleted, lost>>
    BY DEF MoveMailbox, Tame, Folder
  <1>4. /\ t \in Temps /\ t \in Names /\ f \in Folders /\ f \in Names /\ f # t
        /\ \A d \in Compactors : d # c => Phase(d) \notin MainThread
        /\ \A d \in Compactors : d # c /\ Phase(d) \in Separate => comp[d].temp # t
    BY <1>1, <1>2, OwnFiles
  <1>5. /\ CopiedOK("moveMailbox", mbox[f], summary[f], mbox[t], summary[t])
        /\ mbox[t] # NoMailbox /\ mbox[t].expunged = {} /\ t \in heir[f]
    BY <1>1, <1>2 DEF IInv, WorkOK, TempsOK
  <1>6. \A g \in Folders : g # f => t \notin heir[g]
    BY <1>2 DEF IInv, HeirsOK
  <1>7. /\ mbox'[f] = mbox[t] /\ mbox'[t] = NoMailbox
        /\ \A n \in Names : n # f /\ n # t => mbox'[n] = mbox[n]
        /\ mbox' \in [Names -> Mailbox \cup {NoMailbox}]
    BY <1>0, <1>3, <1>4 DEF TypeOK
  <1>8. /\ heir'[f] = heir[f] \ {t}
        /\ \A g \in Folders : g # f => heir'[g] = heir[g]
        /\ heir' \in [Folders -> SUBSET Temps]
    BY <1>0, <1>3, <1>4 DEF TypeOK
  <1>9. /\ Phase(c)' = "moveSummary" /\ comp'[c].temp = t /\ comp'[c].folder = f
        /\ \A d \in Compactors : d # c => comp'[d] = comp[d]
        /\ comp' \in [Compactors -> {Idle} \cup Waiting \cup Working]
        /\ MainThreadOK' /\ AskedOK' /\ LocksOK'
    <2>1. \A g \in Folders : HasExpunged(g) /\ g # Folder(c) => HasExpunged(g)'
      BY <1>4, <1>7, NameFacts DEF HasExpunged
    <2>2. QED BY <1>2, <1>3, <2>1, OperationFacts DEF FileOps
  <1>10. TypeOK'
    <2>1. \A n \in Names : mbox'[n] # NoMailbox =>
            IsInjective(mbox'[n].msgs) /\ mbox'[n].expunged \subseteq Range(mbox'[n].msgs)
      BY <1>0, <1>4, <1>5, <1>7 DEF TypeOK
    <2>2. QED BY <1>0, <1>3, <1>7, <1>8, <1>9, <2>1 DEF TypeOK, locks
  <1>11. /\ Size(f)' = Size(t) /\ \A n \in Names : n # f /\ n # t => Size(n)' = Size(n)
    BY <1>4, <1>7 DEF Size
  <1>12. HeirsOK'
    <2> SUFFICES ASSUME NEW g \in Folders, NEW s \in heir'[g]
                 PROVE  /\ mbox'[s] # NoMailbox
                        /\ \A d \in Compactors : Phase(d)' \in Separate /\ comp'[d].temp = s =>
                             Phase(d)' = "moveMailbox" /\ Folder(d)' = g
                        /\ Disjoint(g, s)'
                        /\ \A u \in heir'[g] : u # s => Disjoint(u, s)'
      BY DEF HeirsOK
    <2>1. /\ s \in Names /\ s # f /\ s # t /\ s \in heir[g] /\ g \in Names /\ g # t
          /\ \A u \in heir'[g] : u \in Names /\ u # f /\ u # t /\ u \in heir[g]
      BY <1>4, <1>6, <1>8, NameFacts
    <2>2. mbox'[s] # NoMailbox
      BY <1>7, <2>1 DEF IInv, HeirsOK
    <2>3. \A d \in Compactors : Phase(d)' \in Separate /\ comp'[d].temp = s =>
             Phase(d)' = "moveMailbox" /\ Folder(d)' = g
      BY <1>9, <2>1 DEF IInv, HeirsOK, Phase, Folder
    <2>4. Disjoint(g, s)'
      <3>1. CASE g = f
        <4>1. Disjoint(t, s)
          BY <1>5, <2>1, <3>1 DEF IInv, HeirsOK, Disjoint
        <4>2. QED BY <1>11, <2>1, <3>1, <4>1 DEF Disjoint
      <3>2. CASE g # f
        BY <1>11, <2>1, <3>2 DEF IInv, HeirsOK, Disjoint
      <3>3. QED BY <3>1, <3>2
    <2>5. \A u \in heir'[g] : u # s => Disjoint(u, s)'
      BY <1>11, <2>1 DEF IInv, HeirsOK, Disjoint
    <2>6. QED BY <2>2, <2>3, <2>4, <2>5
  <1>13. holder[f] = c /\ c # "delivery" /\ holder' = holder /\ summary' = summary
         /\ summary[f] = NoSummary
    BY <1>2, <1>3, <1>5, NameFacts DEF IInv, LocksOK, WorkPhases, locks, CopiedOK
  <1>14. SummaryOK'
    BY <1>4, <1>7, <1>11, <1>13, NameFacts DEF IInv, SummaryOK, Valid
  <1>15. MailboxOK'
    <2>1. \A d \in Compactors : Phase(d) = "moveMailbox" => d = c
      BY <1>4 DEF MainThread, FileOps
    <2>2. \A g \in Folders : mbox'[g] # NoMailbox
      BY <1>4, <1>5, <1>7, <2>1, NameFacts DEF IInv, MailboxOK
    <2>3. QED BY <1>4, <1>7, <1>13, <2>2 DEF IInv, MailboxOK
  <1>16. TempsOK' /\ WorkOK'
    <2>1. summary'[t] # NoSummary => summary'[t].size = {}
      BY <1>3, <1>4 DEF IInv, TempsOK
    <2>2. \A n \in Names : n # t /\ n # f => mbox'[n] = mbox[n] /\ summary'[n] = summary[n]
      BY <1>3, <1>7
    <2>3. /\ Phase(c)' \notin Copying /\ Phase(c)' \notin Separate
          /\ Phase(c)' \notin {"moveMailbox", "reopen"} /\ Phase(c) # "reopen"
      BY <1>1, <1>9 DEF Copying, Separate, Old
    <2>4. CopiedOK(Phase(c)', mbox'[f], summary'[f], mbox'[t], summary'[t])
      BY <1>3, <1>5, <1>7, <1>9, <1>13 DEF CopiedOK
    <2>5. QED BY <1>2, <1>9, <2>1, <2>2, <2>3, <2>4, WorkStep
  <1>17. QED BY <1>9, <1>10, <1>12, <1>14, <1>15, <1>16 DEF IInv

LEMMA MoveSummaryOK ==
  ASSUME IInv, NEW c \in Compactors, MoveSummary(c)
  PROVE  IInv'
  <1> PICK t, f : t = comp[c].temp /\ f = Folder(c)
    OBVIOUS
  <1>0. TypeOK
    BY DEF IInv
  <1>1. Phase(c) = "moveSummary" /\ UNCHANGED ghosts
    BY DEF MoveSummary, Phase
  <1>2. /\ Phase(c) \in WorkPhases /\ Phase(c) \in Replacing /\ Phase(c) \in Old \cup {"moveSummary"}
        /\ Phase(c) \in MainThread /\ Phase(c) \in {"finish"} \cup FileOps
    BY <1>1 DEF WorkPhases, Locking, Replacing, MainThread, FileOps
  <1>3. CASE GiveUpFolder(c)
    BY <1>1, <1>2, <1>3, GiveUpFolderOK
  <1>4. CASE /\ summary' = [summary EXCEPT ![comp[c].folder] = summary[comp[c].temp],
                                           ![comp[c].temp] = NoSummary]
             /\ Enter(c, "reopen")
             /\ UNCHANGED <<mbox, locks, crashes>>
    <2>1. /\ t \in Temps /\ t \in Names /\ f \in Folders /\ f \in Names /\ f # t
          /\ \A d \in Compactors : d # c => Phase(d) \notin MainThread
      BY <1>2, OwnFiles
    <2>2. CopiedOK("moveSummary", mbox[f], summary[f], mbox[t], summary[t])
      BY <1>1, <1>2 DEF IInv, WorkOK
    <2>3. /\ summary'[f] = summary[t] /\ summary'[t] = NoSummary
          /\ \A n \in Names : n # f /\ n # t => summary'[n] = summary[n]
          /\ summary' \in [Names -> Summary \cup {NoSummary}]
      BY <1>0, <1>4, <2>1 DEF TypeOK, Folder
    <2>4. /\ Phase(c)' = "reopen" /\ comp'[c].temp = t /\ comp'[c].folder = f
          /\ \A d \in Compactors : d # c => comp'[d] = comp[d]
          /\ comp' \in [Compactors -> {Idle} \cup Waiting \cup Working]
          /\ MainThreadOK' /\ AskedOK' /\ LocksOK'
      <3>1. \A g \in Folders : HasExpunged(g) => HasExpunged(g)'
        BY <1>4 DEF HasExpunged
      <3>2. QED BY <1>2, <1>4, <3>1, OperationFacts DEF FileOps
    <2>5. TypeOK'
      BY <1>0, <1>1, <1>4, <2>3, <2>4 DEF TypeOK, locks, ghosts
    <2>6. mbox' = mbox /\ heir' = heir /\ holder' = holder /\ holder[f] = c /\ c # "delivery"
      BY <1>1, <1>2, <1>4, NameFacts DEF IInv, LocksOK, WorkPhases, ghosts, locks
    <2>7. HeirsOK'
      <3>1. \A n \in Names : Size(n)' = Size(n)
        BY <2>6 DEF Size
      <3>2. \A g \in Folders : \A s \in heir[g] : g \in Names /\ s \in Names
        BY <1>0, NameFacts DEF TypeOK
      <3>3. \A d \in Compactors : Phase(d)' \in Separate => comp'[d] = comp[d]
        BY <2>4 DEF Separate, Old
      <3>4. QED BY <2>6, <3>1, <3>2, <3>3 DEF IInv, HeirsOK, Disjoint, Phase, Folder
    <2>8. SummaryOK'
      BY <2>1, <2>2, <2>3, <2>6, NameFacts
         DEF IInv, SummaryOK, Valid, Size, CopiedOK
    <2>9. MailboxOK'
      <3>1. \A d \in Compactors : Phase(d) = "moveMailbox" => comp'[d] = comp[d]
        BY <1>1, <2>4
      <3>2. QED
        BY <2>1, <2>3, <2>6, <3>1, NameFacts DEF IInv, MailboxOK, Phase, Folder
    <2>10. TempsOK' /\ WorkOK'
      <3>1. \A n \in Names : n # t /\ n # f => mbox'[n] = mbox[n] /\ summary'[n] = summary[n]
        BY <2>3, <2>6
      <3>2. /\ Phase(c)' \notin Copying /\ Phase(c)' \notin Separate
            /\ Phase(c)' \notin Replacing /\ Phase(c)' # "moveMailbox" /\ Phase(c) # "reopen"
        BY <1>1, <2>4 DEF Copying, Separate, Old, Replacing
      <3>3. mbox'[f] # NoMailbox /\ summary'[f] # NoSummary /\ Describes(summary'[f].at, mbox'[f])
        BY <2>2, <2>3, <2>6 DEF CopiedOK
      <3>4. QED BY <1>2, <2>3, <2>4, <3>1, <3>2, <3>3, WorkStep
    <2>11. QED BY <2>4, <2>5, <2>7, <2>8, <2>9, <2>10 DEF IInv
  <1>5. QED BY <1>3, <1>4 DEF MoveSummary

LEMMA ReopenOK ==
  ASSUME IInv, NEW c \in Compactors, Reopen(c)
  PROVE  IInv'
  <1> PICK t, f : t = comp[c].temp /\ f = Folder(c)
    OBVIOUS
  <1>0. TypeOK /\ MainThreadOK /\ AskedOK /\ LocksOK
    BY DEF IInv
  <1>1. /\ Phase(c) = "reopen" /\ ReleaseFolderLock(c) /\ CompactNextFolder(c)
        /\ summary' = [summary EXCEPT ![f].size = Size(f)]
        /\ UNCHANGED <<mbox, reparse, crashes, ghosts>>
    BY DEF Reopen, Phase, Folder
  <1>2. Phase(c) \in WorkPhases /\ Phase(c) \in MainThread /\ Phase(c) # "idle"
    BY <1>1 DEF WorkPhases, Locking, MainThread, FileOps
  <1>3. /\ t \in Temps /\ t \in Names /\ f \in Folders /\ f \in Names /\ f # t
        /\ \A d \in Compactors : d # c => Phase(d) \notin MainThread
    BY <1>2, OwnFiles
  <1>4. mbox[f] # NoMailbox /\ summary[f] # NoSummary /\ Describes(summary[f].at, mbox[f])
    BY <1>1 DEF IInv, WorkOK
  <1>5. Size(f) \subseteq Msgs /\ summary[f] \in Summary
    BY <1>0, <1>3, <1>4, FileFacts
  <1>6. /\ summary'[f].at = summary[f].at /\ summary'[f] \in Summary
        /\ \A n \in Names : n # f => summary'[n] = summary[n]
        /\ summary' \in [Names -> Summary \cup {NoSummary}]
    BY <1>0, <1>1, <1>3, <1>5 DEF TypeOK, Summary
  <1>7. /\ comp' \in [Compactors -> {Idle} \cup Waiting \cup Working]
        /\ MainThreadOK' /\ AskedOK' /\ Phase(c)' \in {"idle", "compact"}
        /\ \A d \in Compactors : d # c => comp'[d] = comp[d]
    <2>1. \A g \in Folders : HasExpunged(g) => HasExpunged(g)'
      BY <1>1 DEF HasExpunged
    <2>2. QED BY <1>0, <1>1, <1>2, <2>1, NextFolderOK
  <1>8. holder' \in [Folders -> Compactors \cup Others]
    BY <1>0, <1>1 DEF ReleaseFolderLock, TypeOK, Others
  <1>9. TypeOK'
    BY <1>0, <1>1, <1>6, <1>7, <1>8 DEF TypeOK, ghosts
  <1>10. LocksOK'
    <2> SUFFICES ASSUME NEW d \in Compactors, Phase(d)' \in Locking
                 PROVE  holder'[Folder(d)'] = d
      BY DEF LocksOK
    <2>1. d # c /\ comp'[d] = comp[d]
      BY <1>7 DEF Locking, Separate, Old
    <2>2. holder[Folder(d)] = d /\ Folder(d) \in Folders /\ Folder(d)' = Folder(d)
      BY <1>0, <2>1, PhaseFacts DEF LocksOK, Phase, Folder, Locking, Separate, Old
    <2>3. QED BY <1>1, <2>1, <2>2 DEF ReleaseFolderLock
  <1>11. mbox' = mbox /\ heir' = heir
    BY <1>1 DEF ghosts
  <1>12. HeirsOK'
    <2>1. \A n \in Names : Size(n)' = Size(n)
      BY <1>11 DEF Size
    <2>2. \A g \in Folders : \A s \in heir[g] : g \in Names /\ s \in Names
      BY <1>0, NameFacts DEF TypeOK
    <2>3. \A d \in Compactors : Phase(d)' \in Separate => comp'[d] = comp[d]
      BY <1>7 DEF Separate, Old
    <2>4. QED BY <1>11, <2>1, <2>2, <2>3 DEF IInv, HeirsOK, Disjoint, Phase, Folder
  <1>13. \A g \in Folders : holder'[g] = "delivery" => holder[g] = "delivery"
    BY <1>1 DEF ReleaseFolderLock
  <1>14. SummaryOK'
    BY <1>3, <1>4, <1>6, <1>11, <1>13, NameFacts
       DEF IInv, SummaryOK, Valid, Size
  <1>15. MailboxOK'
    <2>1. \A d \in Compactors : Phase(d) = "moveMailbox" => comp'[d] = comp[d]
      BY <1>1, <1>7
    <2>2. NoSummary \notin Summary
      BY CompactionAssumption
    <2>3. QED
      BY <1>3, <1>6, <1>11, <1>13, <2>1, <2>2, NameFacts DEF IInv, MailboxOK, Phase, Folder
  <1>16. TempsOK' /\ WorkOK'
    <2>1. \A n \in Names : n # t /\ n # f => mbox'[n] = mbox[n] /\ summary'[n] = summary[n]
      BY <1>6, <1>11
    <2>2. /\ Phase(c)' \notin WorkPhases /\ Phase(c)' \notin Copying /\ Phase(c)' \notin Separate
          /\ Phase(c)' \notin Replacing /\ Phase(c)' \notin {"moveMailbox", "reopen"}
      BY <1>7 DEF WorkPhases, Locking, Copying, Separate, Old, Replacing
    <2>3. summary'[t] # NoSummary => summary'[t].size = {}
      BY <1>3, <1>6 DEF IInv, TempsOK
    <2>4. mbox'[t] = mbox[t] /\ summary'[t] = summary[t]
      BY <1>3, <1>6, <1>11
    <2>5. QED BY <1>2, <1>7, <2>1, <2>2, <2>3, <2>4, WorkStep
  <1>17. QED BY <1>7, <1>9, <1>10, <1>12, <1>14, <1>15, <1>16 DEF IInv
------------------------------------------------------------------------------
(***************************************************************************)
(* The parser, delivery and deletion, in a folder that no compactor holds. *)
(***************************************************************************)
LEMMA FreeFolder ==
  ASSUME IInv, NEW f \in Folders, holder[f] \notin Compactors
  PROVE  /\ mbox[f] # NoMailbox /\ mbox[f] \in Mailboxes
         /\ \A c \in Compactors : Phase(c) \in Locking => Folder(c) # f
  <1>1. \A c \in Compactors : Phase(c) \in Locking => Folder(c) # f
    BY DEF IInv, LocksOK
  <1>2. mbox[f] # NoMailbox
    BY <1>1 DEF IInv, MailboxOK, Locking, Separate
  <1>3. QED BY <1>1, <1>2, FileFacts, NameFacts DEF IInv

LEMMA FolderFilesOK ==
  ASSUME IInv, NEW f \in Folders, holder[f] \notin Compactors,
         \A n \in Names : n # f => mbox'[n] = mbox[n] /\ summary'[n] = summary[n],
         heir' = heir,
         \A d \in Compactors : comp'[d] = comp[d] \/
           (Phase(d) \notin WorkPhases /\ Phase(d)' \notin Locking),
         \A g \in Folders : g # f => holder'[g] = holder[g],
         mbox'[f] # NoMailbox,
         \A s \in heir[f] : Disjoint(f, s)',
         holder'[f] = "delivery" => summary'[f] # NoSummary,
         Valid(f)' \/ holder'[f] = "delivery" => Describes(summary'[f].at, mbox'[f])
  PROVE  LocksOK' /\ TempsOK' /\ HeirsOK' /\ SummaryOK' /\ MailboxOK' /\ WorkOK'
  <1>0. TypeOK
    BY DEF IInv
  <1>1. \A c \in Compactors : Phase(c) \in Locking => Folder(c) # f
    BY FreeFolder
  <1>2. \A d \in Compactors : Phase(d)' \in Locking =>
          /\ comp'[d] = comp[d] /\ Phase(d)' = Phase(d) /\ Folder(d)' = Folder(d)
          /\ Folder(d) \in Folders /\ Folder(d) # f
    <2>1. WorkPhases \subseteq Locking
      BY DEF WorkPhases
    <2>2. \A d \in Compactors : Phase(d)' \in Locking =>
            comp'[d] = comp[d] /\ Phase(d)' = Phase(d) /\ Folder(d)' = Folder(d)
      BY DEF Phase, Folder
    <2>3. \A d \in Compactors : Phase(d) \in Locking => Folder(d) \in Folders
      BY <1>0, PhaseFacts DEF Locking, Separate, Old
    <2>4. QED BY <1>1, <2>2, <2>3
  <1>3. \A d \in Compactors : Phase(d)' \in WorkPhases =>
          /\ Phase(d)' \in Locking /\ comp[d].temp \in Temps
          /\ mbox'[comp[d].temp] = mbox[comp[d].temp]
          /\ summary'[comp[d].temp] = summary[comp[d].temp]
          /\ mbox'[Folder(d)] = mbox[Folder(d)] /\ summary'[Folder(d)] = summary[Folder(d)]
    <2>1. ASSUME NEW d \in Compactors, Phase(d)' \in WorkPhases
          PROVE  Phase(d)' \in Locking /\ Phase(d) \in WorkPhases /\ comp[d].temp \in Temps
      BY <1>0, <1>2, <2>1, PhaseFacts DEF WorkPhases
    <2>2. QED BY <1>2, <2>1, NameFacts
  <1>4. /\ Separate \subseteq WorkPhases /\ Copying \subseteq WorkPhases
        /\ Replacing \subseteq WorkPhases /\ WorkPhases \subseteq Locking
        /\ "moveMailbox" \in WorkPhases /\ "reopen" \in WorkPhases
    BY DEF WorkPhases, Locking, Separate, Old, Copying, Replacing
  <1>5. LocksOK'
    BY <1>2 DEF IInv, LocksOK
  <1>6. TempsOK'
    <2>1. \A d \in Compactors : Phase(d)' \in Separate =>
            /\ comp'[d] = comp[d] /\ Phase(d) \in Separate
            /\ mbox'[comp[d].temp] = mbox[comp[d].temp]
      BY <1>2, <1>3, <1>4
    <2>2. \A s \in Temps : summary'[s] = summary[s]
      BY NameFacts
    <2>3. QED BY <2>1, <2>2 DEF IInv, TempsOK
  <1>7. HeirsOK'
    <2> SUFFICES ASSUME NEW g \in Folders, NEW s \in heir[g]
                 PROVE  /\ mbox'[s] # NoMailbox
                        /\ \A d \in Compactors : Phase(d)' \in Separate /\ comp'[d].temp = s =>
                             Phase(d)' = "moveMailbox" /\ Folder(d)' = g
                        /\ Disjoint(g, s)'
                        /\ \A u \in heir[g] : u # s => Disjoint(u, s)'
      BY DEF HeirsOK
    <2>1. \A u \in heir[g] : u \in Names /\ u # f /\ Size(u)' = Size(u) /\ mbox'[u] = mbox[u]
      BY <1>0, NameFacts DEF TypeOK, Size
    <2>2. \A d \in Compactors : Phase(d)' \in Separate /\ comp'[d].temp = s =>
            Phase(d)' = "moveMailbox" /\ Folder(d)' = g
      BY <1>2, <1>4 DEF IInv, HeirsOK
    <2>3. g # f => Size(g)' = Size(g)
      BY NameFacts DEF Size
    <2>4. QED BY <2>1, <2>2, <2>3 DEF IInv, HeirsOK, Disjoint
  <1>8. SummaryOK'
    <2>1. ASSUME NEW g \in Folders, g # f
          PROVE  /\ mbox'[g] = mbox[g] /\ summary'[g] = summary[g] /\ holder'[g] = holder[g]
                 /\ Valid(g)' = Valid(g)
      BY <2>1, NameFacts DEF Valid, Size
    <2>2. QED BY <2>1 DEF IInv, SummaryOK
  <1>9. MailboxOK'
    <2>1. \A g \in Folders : g # f =>
            mbox'[g] = mbox[g] /\ summary'[g] = summary[g] /\ holder'[g] = holder[g]
      BY NameFacts
    <2>2. \A d \in Compactors : Phase(d) = "moveMailbox" => Phase(d)' = Phase(d) /\ Folder(d)' = Folder(d)
      BY <1>4 DEF Phase, Folder
    <2>3. QED BY <2>1, <2>2 DEF IInv, MailboxOK
  <1>10. WorkOK'
    <2>1. \A d \in Compactors : Phase(d)' \in WorkPhases =>
            /\ comp'[d] = comp[d] /\ Phase(d)' = Phase(d) /\ Folder(d)' = Folder(d)
            /\ mbox'[comp[d].temp] = mbox[comp[d].temp]
            /\ summary'[comp[d].temp] = summary[comp[d].temp]
            /\ mbox'[Folder(d)] = mbox[Folder(d)] /\ summary'[Folder(d)] = summary[Folder(d)]
      BY <1>2, <1>3
    <2>2. QED BY <1>4, <2>1 DEF IInv, WorkOK
  <1>11. QED BY <1>5, <1>6, <1>7, <1>8, <1>9, <1>10

\* Where the compactors do not change.
LEMMA CompactorsStay ==
  ASSUME IInv, comp' = comp, \A f \in Folders : HasExpunged(f) => HasExpunged(f)'
  PROVE  MainThreadOK' /\ AskedOK'
  <1>1. MainThreadOK'
    BY DEF IInv, MainThreadOK, Phase
  <1>2. \A c \in Compactors : Phase(c) # "idle" =>
          Folder(c) \in Folders /\ comp[c].rest \subseteq Folders
    BY PhaseFacts DEF IInv
  <1>3. AskedOK'
    BY <1>2 DEF IInv, AskedOK, Asked, Phase, Folder
  <1>4. QED BY <1>1, <1>3

LEMMA OpenFolderOK ==
  ASSUME IInv, NEW f \in Folders, OpenFolder(f)
  PROVE  IInv'
  <1>1. /\ holder[f] = "nobody" /\ holder[f] \notin Compactors /\ ~Valid(f)
        /\ holder' = [holder EXCEPT ![f] = "parser"]
        /\ reparse' = [reparse EXCEPT ![f] = "nobody"]
        /\ mbox' = mbox /\ summary' = summary /\ comp' = comp /\ heir' = heir
        /\ UNCHANGED <<crashes, deleted, lost>>
    BY NameFacts DEF OpenFolder, files, ghosts
  <1>2. holder'[f] = "parser" /\ \A g \in Folders : g # f => holder'[g] = holder[g]
    BY <1>1 DEF IInv, TypeOK
  <1>3. TypeOK'
    BY <1>1 DEF IInv, TypeOK, Others
  <1>4. MainThreadOK' /\ AskedOK'
    <2>1. \A g \in Folders : HasExpunged(g) => HasExpunged(g)'
      BY <1>1 DEF HasExpunged
    <2>2. QED BY <1>1, <2>1, CompactorsStay
  <1>5. LocksOK' /\ TempsOK' /\ HeirsOK' /\ SummaryOK' /\ MailboxOK' /\ WorkOK'
    <2>1. ~Valid(f)'
      BY <1>1 DEF Valid, Size
    <2>2. \A s \in heir[f] : Disjoint(f, s)'
      BY <1>1 DEF IInv, HeirsOK, Disjoint, Size
    <2>3. mbox[f] # NoMailbox
      BY <1>1, FreeFolder
    <2>4. QED BY <1>1, <1>2, <2>1, <2>2, <2>3, FolderFilesOK
  <1>6. QED BY <1>3, <1>4, <1>5 DEF IInv

LEMMA BeginMailDeliveryOK ==
  ASSUME IInv, NEW f \in Folders, BeginMailDelivery(f)
  PROVE  IInv'
  <1>1. /\ holder[f] = "nobody" /\ holder[f] \notin Compactors /\ Valid(f)
        /\ holder' = [holder EXCEPT ![f] = "delivery"]
        /\ mbox' = mbox /\ summary' = summary /\ comp' = comp /\ heir' = heir
        /\ UNCHANGED <<reparse, crashes, deleted, lost>>
    BY NameFacts DEF BeginMailDelivery, files, ghosts
  <1>2. holder'[f] = "delivery" /\ \A g \in Folders : g # f => holder'[g] = holder[g]
    BY <1>1 DEF IInv, TypeOK
  <1>3. TypeOK'
    BY <1>1 DEF IInv, TypeOK, Others
  <1>4. MainThreadOK' /\ AskedOK'
    <2>1. \A g \in Folders : HasExpunged(g) => HasExpunged(g)'
      BY <1>1 DEF HasExpunged
    <2>2. QED BY <1>1, <2>1, CompactorsStay
  <1>5. LocksOK' /\ TempsOK' /\ HeirsOK' /\ SummaryOK' /\ MailboxOK' /\ WorkOK'
    <2>1. mbox[f] # NoMailbox
      BY <1>1, FreeFolder
    <2>2. Describes(summary[f].at, mbox[f]) /\ summary[f] # NoSummary
      BY <1>1, <2>1 DEF IInv, SummaryOK, Valid
    <2>3. \A s \in heir[f] : Disjoint(f, s)'
      BY <1>1 DEF IInv, HeirsOK, Disjoint, Size
    <2>4. QED BY <1>1, <1>2, <2>1, <2>2, <2>3, FolderFilesOK
  <1>6. QED BY <1>3, <1>4, <1>5 DEF IInv

LEMMA IncorporateMessageOK ==
  ASSUME IInv, NEW f \in Folders, NEW m \in Msgs, IncorporateMessage(f, m)
  PROVE  IInv'
  <1>0. TypeOK
    BY DEF IInv
  <1>1. /\ holder[f] = "delivery" /\ holder[f] \notin Compactors
        /\ \A n \in Names : m \notin Size(n)
        /\ mbox' = [mbox EXCEPT ![f].msgs = Append(@, m)]
        /\ summary' = [summary EXCEPT ![f].at[m] = Len(mbox[f].msgs) + 1]
        /\ UNCHANGED <<locks, comp, crashes, ghosts>>
    BY NameFacts DEF IncorporateMessage
  <1> DEFINE b == mbox[f]
             e == [b EXCEPT !.msgs = Append(@, m)]
             h == [summary[f].at EXCEPT ![m] = Len(b.msgs) + 1]
  <1>2. /\ f \in Names /\ b # NoMailbox /\ b \in Mailboxes /\ summary[f] # NoSummary
        /\ summary[f] \in Summary /\ summary[f].at \in Headers
        /\ Describes(summary[f].at, b) /\ m \notin Range(b.msgs)
    <2>1. f \in Names /\ b # NoMailbox /\ b \in Mailboxes /\ summary[f] # NoSummary
      BY <1>1, FreeFolder, NameFacts DEF IInv, MailboxOK
    <2>2. QED
      BY <1>0, <1>1, <2>1, FileFacts DEF IInv, SummaryOK, Size
  <1>3. /\ e \in Mailboxes /\ Range(e.msgs) = Range(b.msgs) \cup {m} /\ e # NoMailbox
        /\ e.expunged = b.expunged
        /\ h \in Headers /\ Describes(h, e)
    <2>1. e.msgs = Append(b.msgs, m) /\ e.expunged = b.expunged
      BY <1>2 DEF Mailboxes, Mailbox
    <2>2. e \in Mailboxes /\ Range(e.msgs) = Range(b.msgs) \cup {m}
      BY <1>2, <2>1, AppendNew
    <2>3. h \in Headers /\ Describes(h, e)
      BY <1>2, AppendDescribes
    <2>4. QED BY <2>1, <2>2, <2>3, CompactionAssumption DEF Mailboxes
  <1>4. /\ mbox'[f] = e /\ \A n \in Names : n # f => mbox'[n] = mbox[n]
        /\ mbox' \in [Names -> Mailbox \cup {NoMailbox}]
    BY <1>0, <1>1, <1>2, <1>3 DEF TypeOK, Mailboxes
  <1>5. /\ summary'[f].at = h /\ summary'[f] \in Summary /\ summary'[f] # NoSummary
        /\ \A n \in Names : n # f => summary'[n] = summary[n]
        /\ summary' \in [Names -> Summary \cup {NoSummary}]
    <2>1. summary' = [summary EXCEPT ![f] = [summary[f] EXCEPT !.at = h]]
      BY <1>0, <1>1, <1>2 DEF TypeOK, Summary
    <2>2. [summary[f] EXCEPT !.at = h] \in Summary /\ [summary[f] EXCEPT !.at = h].at = h
      BY <1>2, <1>3 DEF Summary
    <2>3. QED BY <1>0, <1>2, <2>1, <2>2, CompactionAssumption DEF TypeOK
  <1> HIDE DEF b, e, h
  <1>6. TypeOK'
    <2>1. \A n \in Names : mbox'[n] # NoMailbox =>
            IsInjective(mbox'[n].msgs) /\ mbox'[n].expunged \subseteq Range(mbox'[n].msgs)
      BY <1>0, <1>3, <1>4 DEF TypeOK, Mailboxes
    <2>2. QED BY <1>0, <1>1, <1>4, <1>5, <2>1 DEF TypeOK, locks, ghosts
  <1>7. MainThreadOK' /\ AskedOK'
    <2>1. \A g \in Folders : HasExpunged(g) => HasExpunged(g)'
      BY <1>2, <1>3, <1>4, NameFacts DEF HasExpunged, b
    <2>2. QED BY <1>1, <2>1, CompactorsStay
  <1>8. LocksOK' /\ TempsOK' /\ HeirsOK' /\ SummaryOK' /\ MailboxOK' /\ WorkOK'
    <2>1. Size(f)' = Size(f) \cup {m} /\ \A n \in Names : n # f => Size(n)' = Size(n)
      BY <1>2, <1>3, <1>4 DEF Size, b
    <2>2. \A s \in heir[f] : s \in Names /\ s # f
      BY <1>0, NameFacts DEF TypeOK
    <2>3. \A s \in heir[f] : Disjoint(f, s)'
      BY <1>1, <2>1, <2>2 DEF IInv, HeirsOK, Disjoint
    <2>4. Describes(summary'[f].at, mbox'[f]) /\ mbox'[f] # NoMailbox
      BY <1>3, <1>4, <1>5
    <2>5. comp' = comp /\ heir' = heir /\ holder' = holder
      BY <1>1 DEF locks, ghosts
    <2>6. QED BY <1>1, <1>4, <1>5, <2>3, <2>4, <2>5, FolderFilesOK
  <1>9. QED BY <1>6, <1>7, <1>8 DEF IInv

LEMMA EndMailDeliveryOK ==
  ASSUME IInv, NEW f \in Folders, EndMailDelivery(f)
  PROVE  IInv'
  <1>0. TypeOK
    BY DEF IInv
  <1>1. /\ holder[f] = "delivery" /\ holder[f] \notin Compactors
        /\ summary' = [summary EXCEPT ![f].size = Size(f)]
        /\ holder' = [holder EXCEPT ![f] = "nobody"]
        /\ mbox' = mbox /\ comp' = comp /\ heir' = heir
        /\ UNCHANGED <<reparse, crashes, deleted, lost>>
    BY NameFacts DEF EndMailDelivery, ghosts
  <1>2. /\ f \in Names /\ mbox[f] # NoMailbox /\ summary[f] # NoSummary
        /\ summary[f] \in Summary /\ Size(f) \subseteq Msgs
        /\ Describes(summary[f].at, mbox[f])
    <2>1. f \in Names /\ mbox[f] # NoMailbox /\ summary[f] # NoSummary
      BY <1>1, NameFacts DEF IInv, MailboxOK
    <2>2. QED BY <1>0, <1>1, <2>1, FileFacts DEF IInv, SummaryOK
  <1>3. /\ summary'[f].at = summary[f].at /\ summary'[f] \in Summary
        /\ \A n \in Names : n # f => summary'[n] = summary[n]
        /\ summary' \in [Names -> Summary \cup {NoSummary}]
    BY <1>0, <1>1, <1>2 DEF TypeOK, Summary
  <1>4. holder'[f] = "nobody" /\ \A g \in Folders : g # f => holder'[g] = holder[g]
    BY <1>0, <1>1 DEF TypeOK
  <1>5. TypeOK'
    BY <1>0, <1>1, <1>3 DEF TypeOK, Others
  <1>6. MainThreadOK' /\ AskedOK'
    <2>1. \A g \in Folders : HasExpunged(g) => HasExpunged(g)'
      BY <1>1 DEF HasExpunged
    <2>2. QED BY <1>1, <2>1, CompactorsStay
  <1>7. LocksOK' /\ TempsOK' /\ HeirsOK' /\ SummaryOK' /\ MailboxOK' /\ WorkOK'
    <2>1. \A s \in heir[f] : Disjoint(f, s)'
      BY <1>1 DEF IInv, HeirsOK, Disjoint, Size
    <2>2. Describes(summary'[f].at, mbox'[f]) /\ mbox'[f] # NoMailbox
      BY <1>1, <1>2, <1>3
    <2>3. \A n \in Names : n # f => mbox'[n] = mbox[n] /\ summary'[n] = summary[n]
      BY <1>1, <1>3
    <2>4. QED BY <1>1, <1>4, <2>1, <2>2, <2>3, FolderFilesOK
  <1>8. QED BY <1>5, <1>6, <1>7 DEF IInv

\* What DeleteMessage does to the files of a folder that opens.
LEMMA DeleteFacts ==
  ASSUME IInv, Tame, NEW f \in Folders, NEW m \in Msgs, DeleteMessage(f, m)
  PROVE  /\ f \in Names /\ holder[f] \notin Compactors
         /\ mbox[f] # NoMailbox /\ mbox'[f] \in Mailboxes /\ mbox'[f] # NoMailbox
         /\ m \in Range(mbox[f].msgs) \ mbox[f].expunged
         /\ mbox'[f].msgs = mbox[f].msgs /\ mbox'[f].expunged = mbox[f].expunged \cup {m}
         /\ \A n \in Names : n # f => mbox'[n] = mbox[n]
         /\ mbox' \in [Names -> Mailbox \cup {NoMailbox}]
         /\ Describes(summary'[f].at, mbox'[f]) /\ summary'[f] # NoSummary
         /\ \A n \in Names : n # f => summary'[n] = summary[n]
         /\ summary' \in [Names -> Summary \cup {NoSummary}]
         /\ deleted' = deleted \cup {m}
         /\ UNCHANGED <<locks, comp, crashes, heir, lost>>
  <1> DEFINE b == mbox[f]
             e == [b EXCEPT !.expunged = @ \cup {m}]
             h == [summary[f].at EXCEPT ![m] = 0]
  <1>0. TypeOK
    BY DEF IInv
  <1>1. /\ Opens(f) /\ holder[f] \notin Compactors /\ summary[f].at[m] # 0
        /\ mbox' = [mbox EXCEPT ![f].expunged = @ \cup {b.msgs[summary[f].at[m]]}]
        /\ summary' = [summary EXCEPT ![f].at[m] = 0, ![f].size = Size(f)]
        /\ deleted' = deleted \cup {m}
        /\ UNCHANGED <<locks, comp, crashes, heir, lost>>
    BY DEF DeleteMessage, Tame
  <1>2. f \in Names /\ b # NoMailbox /\ b \in Mailboxes
    BY <1>1, FreeFolder, NameFacts
  <1>3. Describes(summary[f].at, b) /\ summary[f] # NoSummary
    BY <1>1, <1>2 DEF IInv, SummaryOK, MailboxOK, Opens, Valid
  <1>4. summary[f] \in Summary /\ summary[f].at \in Headers /\ Size(f) \subseteq Msgs
    BY <1>0, <1>2, <1>3, FileFacts
  <1>5. m \in Keys(summary[f].at) /\ m \in Range(b.msgs) \ b.expunged
        /\ b.msgs[summary[f].at[m]] = m
    <2>1. m \in Keys(summary[f].at)
      BY <1>1 DEF Keys
    <2>2. QED BY <1>2, <1>3, <1>4, <2>1, DescribedKeys
  <1>6. /\ e \in Mailboxes /\ h \in Headers /\ Describes(h, e)
        /\ e.msgs = b.msgs /\ e.expunged = b.expunged \cup {m} /\ e # NoMailbox
    <2>1. e \in Mailboxes /\ h \in Headers /\ Describes(h, e)
      BY <1>2, <1>3, <1>4, <1>5, FlagDescribes
    <2>2. e.msgs = b.msgs /\ e.expunged = b.expunged \cup {m}
      BY <1>2 DEF Mailboxes, Mailbox
    <2>3. QED BY <2>1, <2>2, CompactionAssumption DEF Mailboxes
  <1>7. /\ mbox'[f] = e /\ \A n \in Names : n # f => mbox'[n] = mbox[n]
        /\ mbox' \in [Names -> Mailbox \cup {NoMailbox}]
    <2>1. mbox' = [mbox EXCEPT ![f] = e]
      BY <1>1, <1>5
    <2>2. QED BY <1>0, <1>2, <1>6, <2>1 DEF TypeOK, Mailboxes
  <1>8. /\ summary'[f].at = h /\ summary'[f] \in Summary /\ summary'[f] # NoSummary
        /\ \A n \in Names : n # f => summary'[n] = summary[n]
        /\ summary' \in [Names -> Summary \cup {NoSummary}]
    <2> DEFINE w == [summary[f] EXCEPT !.at = h, !.size = Size(f)]
    <2>1. summary' = [summary EXCEPT ![f] = w]
      BY <1>0, <1>1, <1>2, <1>4 DEF TypeOK, Summary, Headers
    <2>2. w \in Summary /\ w.at = h
      BY <1>4, <1>6 DEF Summary
    <2>3. QED BY <1>0, <1>2, <2>1, <2>2, CompactionAssumption DEF TypeOK
  <1>9. QED BY <1>1, <1>2, <1>3, <1>4, <1>5, <1>6, <1>7, <1>8

LEMMA DeleteMessageOK ==
  ASSUME IInv, Tame, NEW f \in Folders, NEW m \in Msgs, DeleteMessage(f, m)
  PROVE  IInv'
  <1>0. TypeOK
    BY DEF IInv
  <1>1. /\ f \in Names /\ holder[f] \notin Compactors
        /\ mbox[f] # NoMailbox /\ mbox'[f] \in Mailboxes /\ mbox'[f] # NoMailbox
        /\ mbox'[f].msgs = mbox[f].msgs /\ mbox'[f].expunged = mbox[f].expunged \cup {m}
        /\ \A n \in Names : n # f => mbox'[n] = mbox[n]
        /\ mbox' \in [Names -> Mailbox \cup {NoMailbox}]
        /\ Describes(summary'[f].at, mbox'[f]) /\ summary'[f] # NoSummary
        /\ \A n \in Names : n # f => summary'[n] = summary[n]
        /\ summary' \in [Names -> Summary \cup {NoSummary}]
        /\ deleted' = deleted \cup {m}
        /\ UNCHANGED <<locks, comp, crashes, heir, lost>>
    BY DeleteFacts
  <1>2. TypeOK'
    <2>1. \A n \in Names : mbox'[n] # NoMailbox =>
            IsInjective(mbox'[n].msgs) /\ mbox'[n].expunged \subseteq Range(mbox'[n].msgs)
      BY <1>0, <1>1 DEF TypeOK, Mailboxes
    <2>2. QED BY <1>0, <1>1, <2>1 DEF TypeOK, locks
  <1>3. MainThreadOK' /\ AskedOK'
    <2>1. \A g \in Folders : HasExpunged(g) => HasExpunged(g)'
      BY <1>1, NameFacts DEF HasExpunged
    <2>2. QED BY <1>1, <2>1, CompactorsStay
  <1>4. LocksOK' /\ TempsOK' /\ HeirsOK' /\ SummaryOK' /\ MailboxOK' /\ WorkOK'
    <2>1. \A n \in Names : Size(n)' = Size(n)
      BY <1>1 DEF Size
    <2>2. \A s \in heir[f] : s \in Names
      BY <1>0, NameFacts DEF TypeOK
    <2>3. \A s \in heir[f] : Disjoint(f, s)'
      BY <1>1, <2>1, <2>2 DEF IInv, HeirsOK, Disjoint
    <2>4. comp' = comp /\ heir' = heir /\ holder' = holder
      BY <1>1 DEF locks
    <2>5. QED BY <1>1, <2>3, <2>4, FolderFilesOK
  <1>5. QED BY <1>2, <1>3, <1>4 DEF IInv

\* A listener of the parser waits for the folder that is parsed.
ListenersOK ==
  \A f \in Folders : reparse[f] # "nobody" =>
    Phase(reparse[f]) = "parsing" /\ Folder(reparse[f]) = f

LEMMA ParseDoneOK ==
  ASSUME IInv, ListenersOK, NEW f \in Folders, NEW ok \in BOOLEAN, ParseDone(f, ok)
  PROVE  IInv'
  <1>0. TypeOK /\ MainThreadOK /\ AskedOK
    BY DEF IInv
  <1>1. /\ MainThreadFree /\ holder[f] = "parser" /\ holder[f] \notin Compactors
        /\ summary' = [summary EXCEPT ![f] =
                         IF ok THEN [at |-> TrueHeaders(mbox[f]), size |-> Size(f), stray |-> {}]
                               ELSE NoSummary]
        /\ holder' = [holder EXCEPT ![f] = "nobody"]
        /\ reparse' = [reparse EXCEPT ![f] = "nobody"]
        /\ mbox' = mbox /\ heir' = heir
        /\ UNCHANGED <<crashes, deleted, lost>>
    BY NameFacts DEF ParseDone, ghosts
  <1>2. f \in Names /\ mbox[f] # NoMailbox /\ mbox[f] \in Mailboxes /\ Size(f) \subseteq Msgs
    BY <1>0, <1>1, FreeFolder, FileFacts, NameFacts
  <1>3. TrueHeaders(mbox[f]) \in Headers /\ Describes(TrueHeaders(mbox[f]), mbox[f])
    BY <1>2, TrueHeadersDescribe
  <1>4. /\ summary' \in [Names -> Summary \cup {NoSummary}]
        /\ summary'[f] = IF ok THEN [at |-> TrueHeaders(mbox[f]), size |-> Size(f), stray |-> {}] ELSE NoSummary
        /\ \A n \in Names : n # f => summary'[n] = summary[n]
    BY <1>0, <1>1, <1>2, <1>3 DEF TypeOK, Summary
  <1>5. holder'[f] = "nobody" /\ \A g \in Folders : g # f => holder'[g] = holder[g]
    BY <1>0, <1>1 DEF TypeOK
  <1>6. \A g \in Folders : HasExpunged(g) => HasExpunged(g)'
    BY <1>1 DEF HasExpunged
  <1>7. /\ MainThreadOK' /\ AskedOK'
        /\ comp' \in [Compactors -> {Idle} \cup Waiting \cup Working]
        /\ \A d \in Compactors : comp'[d] = comp[d] \/
             (Phase(d) = "parsing" /\ Phase(d)' \in {"idle", "compact"})
    <2>1. CASE comp' = comp
      BY <1>0, <1>6, <2>1, CompactorsStay DEF TypeOK
    <2>2. CASE comp' # comp
      <3>1. PICK c \in Compactors : /\ reparse[f] = c
                                    /\ IF ok THEN Enter(c, "compact") ELSE CompactNextFolder(c)
        BY <2>2 DEF ParseDone
      <3>2. Phase(c) = "parsing" /\ Folder(c) = f /\ Phase(c) # "idle"
        BY <3>1, NameFacts DEF ListenersOK
      <3>3. CASE ok
        <4> PICK r : r = [comp[c] EXCEPT !.phase = "compact"]
          OBVIOUS
        <4>1. comp' = [comp EXCEPT ![c] = r]
          BY <3>1, <3>3 DEF Enter, Become
        <4>2. comp[c] \in Waiting
          BY <1>0, <3>2, PhaseFacts
        <4>3. /\ r \in Waiting /\ r.phase = "compact"
              /\ r.folder = Folder(c) /\ r.rest = comp[c].rest
          BY <4>2 DEF Waiting, Folder
        <4>4. /\ comp'[c] = r /\ \A d \in Compactors : d # c => comp'[d] = comp[d]
              /\ comp' \in [Compactors -> {Idle} \cup Waiting \cup Working]
          BY <1>0, <4>1, <4>3, BecomeFacts
        <4>5. r.folder \in Asked(c) /\ r.folder \notin r.rest /\ HasExpunged(r.folder)'
          BY <1>0, <1>6, <3>2, <4>3, PhaseFacts DEF AskedOK, Asked, Folder
        <4>6. MainThreadOK' /\ AskedOK'
          BY <1>0, <1>1, <1>6, <3>2, <4>1, <4>3, <4>5, ControlOK
        <4>7. Phase(c)' = "compact"
          BY <4>3, <4>4 DEF Phase
        <4>8. QED BY <3>2, <4>4, <4>6, <4>7
      <3>4. CASE ~ok
        <4>1. CompactNextFolder(c)
          BY <3>1, <3>4
        <4>2. QED BY <1>0, <1>1, <1>6, <3>2, <4>1, NextFolderOK
      <3>5. QED BY <3>3, <3>4
    <2>3. QED BY <2>1, <2>2
  <1>8. TypeOK'
    BY <1>0, <1>1, <1>4, <1>7 DEF TypeOK, Others
  <1>9. LocksOK' /\ TempsOK' /\ HeirsOK' /\ SummaryOK' /\ MailboxOK' /\ WorkOK'
    <2>1. \A d \in Compactors : comp'[d] = comp[d] \/
            (Phase(d) \notin WorkPhases /\ Phase(d)' \notin Locking)
      BY <1>7 DEF WorkPhases, Locking, Separate, Old
    <2>2. \A s \in heir[f] : Disjoint(f, s)'
      BY <1>1 DEF IInv, HeirsOK, Disjoint, Size
    <2>3. Valid(f)' => Describes(summary'[f].at, mbox'[f])
      BY <1>1, <1>3, <1>4 DEF Valid
    <2>4. \A n \in Names : n # f => mbox'[n] = mbox[n] /\ summary'[n] = summary[n]
      BY <1>1, <1>4
    <2>5. QED BY <1>1, <1>2, <1>5, <2>1, <2>2, <2>3, <2>4, FolderFilesOK
  <1>10. QED BY <1>7, <1>8, <1>9 DEF IInv
------------------------------------------------------------------------------
(***************************************************************************)
(* The start, and a crash.                                                 *)
(***************************************************************************)
LEMMA InitOK ==
  ASSUME Init
  PROVE  IInv /\ ListenersOK
  <1>1. /\ \A c \in Compactors : comp[c] = Idle /\ Phase(c) = "idle" /\ Asked(c) = {}
        /\ \A f \in Folders : heir[f] = {} /\ holder[f] = "nobody" /\ reparse[f] = "nobody"
        /\ \A t \in Temps : mbox[t] = NoMailbox /\ summary[t] = NoSummary
    BY NameFacts DEF Init, Asked, Phase, Idle
  <1>2. \A f \in Folders : IsInjective(FirstMail[f]) /\ FirstMail[f] \in Seq(Msgs)
    BY CompactionAssumption DEF IsInjective
  <1>3. ASSUME NEW f \in Folders
        PROVE  /\ mbox[f] = [msgs |-> FirstMail[f], expunged |-> {}] /\ mbox[f] \in Mailboxes
               /\ mbox[f] # NoMailbox
               /\ summary[f] = [at |-> TrueHeaders(mbox[f]), size |-> Range(FirstMail[f]),
                               stray |-> {}]
               /\ summary[f] \in Summary
               /\ Describes(summary[f].at, mbox[f])
    <2>1. /\ mbox[f] = [msgs |-> FirstMail[f], expunged |-> {}]
          /\ summary[f] = [at |-> TrueHeaders(mbox[f]), size |-> Range(FirstMail[f]),
                               stray |-> {}]
      BY NameFacts DEF Init
    <2>2. mbox[f] \in Mailboxes /\ mbox[f] # NoMailbox
      BY <1>2, <2>1, CompactionAssumption DEF Mailboxes, Mailbox
    <2>3. TrueHeaders(mbox[f]) \in Headers /\ Describes(TrueHeaders(mbox[f]), mbox[f])
      BY <2>2, TrueHeadersDescribe
    <2>4. Range(FirstMail[f]) \subseteq Msgs
      BY <1>2, RangeOfFile
    <2>5. QED BY <2>1, <2>2, <2>3, <2>4 DEF Summary
  <1>4. TypeOK
    <2>1. mbox \in [Names -> Mailbox \cup {NoMailbox}]
      <3>1. \A n \in Names : mbox[n] \in Mailbox \cup {NoMailbox}
        BY <1>1, <1>3 DEF Names, Mailboxes
      <3>2. QED BY <3>1 DEF Init
    <2>2. summary \in [Names -> Summary \cup {NoSummary}]
      <3>1. \A n \in Names : summary[n] \in Summary \cup {NoSummary}
        BY <1>1, <1>3 DEF Names
      <3>2. QED BY <3>1 DEF Init
    <2>3. \A n \in Names : mbox[n] # NoMailbox =>
            IsInjective(mbox[n].msgs) /\ mbox[n].expunged \subseteq Range(mbox[n].msgs)
      BY <1>1, <1>3 DEF Names, Mailboxes
    <2>4. /\ holder \in [Folders -> Compactors \cup Others]
          /\ reparse \in [Folders -> Compactors \cup {"nobody"}]
          /\ comp \in [Compactors -> {Idle} \cup Waiting \cup Working]
          /\ heir \in [Folders -> SUBSET Temps]
      BY DEF Init, Others
    <2>5. crashes \in 0..MaxCrashes /\ deleted \subseteq Msgs /\ lost \subseteq Msgs
      BY CompactionAssumption DEF Init
    <2>6. QED BY <2>1, <2>2, <2>3, <2>4, <2>5 DEF TypeOK
  <1>5. MainThreadOK /\ LocksOK /\ AskedOK /\ TempsOK /\ HeirsOK /\ WorkOK
    <2>1. "idle" \notin Copying \cup Replacing \cup {"moveMailbox", "reopen"} \cup Locking
                         \cup Separate \cup MainThread
      BY DEF Copying, Replacing, Locking, Separate, Old, MainThread, FileOps
    <2>2. QED
      BY <1>1, <2>1 DEF MainThreadOK, LocksOK, AskedOK, TempsOK, HeirsOK, WorkOK
  <1>6. SummaryOK /\ MailboxOK
    BY <1>1, <1>3 DEF SummaryOK, MailboxOK
  <1>7. ListenersOK
    BY <1>1 DEF ListenersOK
  <1>8. QED BY <1>4, <1>5, <1>6, <1>7 DEF IInv

\* No summary is left by the time a mailbox is missing.
LEMMA CrashOK ==
  ASSUME IInv, Crash
  PROVE  IInv' /\ ListenersOK'
  <1>0. TypeOK
    BY DEF IInv
  <1>1. /\ \A c \in Compactors : comp'[c] = Idle /\ Phase(c)' = "idle" /\ Asked(c)' = {}
        /\ \A f \in Folders : holder'[f] = "nobody" /\ reparse'[f] = "nobody"
        /\ \A f \in Folders : heir'[f] = {}
        /\ summary' = summary
    BY DEF Crash, Asked, Phase, Idle
  <1>2. /\ \A t \in Temps : mbox'[t] = mbox[t]
        /\ \A f \in Folders : mbox'[f] = IF mbox[f] = NoMailbox THEN EmptyMailbox ELSE mbox[f]
        /\ mbox' = [n \in Names |-> mbox'[n]]
    BY NameFacts DEF Crash
  <1>3. /\ EmptyMailbox \in Mailboxes /\ EmptyMailbox # NoMailbox
        /\ EmptyMailbox.msgs = <<>> /\ EmptyMailbox.expunged = {} /\ Range(EmptyMailbox.msgs) = {}
    BY EmptyFacts, CompactionAssumption DEF Mailboxes, Mailbox, EmptyMailbox, Range, IsInjective
  <1>4. TypeOK'
    <2>1. \A n \in Names : mbox'[n] # NoMailbox => mbox'[n] \in Mailboxes
      BY <1>0, <1>2, <1>3, FileFacts DEF Names
    <2>2. mbox' \in [Names -> Mailbox \cup {NoMailbox}]
      BY <1>2, <2>1 DEF Mailboxes
    <2>3. crashes' \in 0..MaxCrashes
      BY <1>0, CompactionAssumption DEF Crash, TypeOK
    <2>4. lost' \subseteq Msgs
      <3>1. \A t \in UNION Range(heir) : t \in Names /\ Live(t) \subseteq Msgs
        BY <1>0, FileFacts, NameFacts DEF TypeOK, Range
      <3>2. QED BY <1>0, <3>1 DEF Crash, TypeOK
    <2>5. heir' \in [Folders -> SUBSET Temps] /\ deleted' = deleted
      BY DEF Crash
    <2>6. QED BY <1>0, <1>1, <2>1, <2>2, <2>3, <2>4, <2>5 DEF TypeOK, Crash, Others, Mailboxes
  <1>5. MainThreadOK' /\ LocksOK' /\ AskedOK' /\ TempsOK' /\ WorkOK'
    <2>1. "idle" \notin Copying \cup Replacing \cup {"moveMailbox", "reopen"} \cup Locking
                         \cup Separate \cup MainThread
      BY DEF Copying, Replacing, Locking, Separate, Old, MainThread, FileOps
    <2>2. \A t \in Temps : summary'[t] # NoSummary => summary'[t].size = {}
      BY <1>1 DEF IInv, TempsOK
    <2>3. QED
      BY <1>1, <2>1, <2>2 DEF MainThreadOK, LocksOK, AskedOK, TempsOK, WorkOK
  <1>6. \A n \in Names : Size(n)' = Size(n)
    BY <1>2, <1>3 DEF Size, Names
  <1>7. HeirsOK'
    BY <1>1 DEF HeirsOK
  <1>8. SummaryOK'
    <2>1. ASSUME NEW f \in Folders, mbox[f] = NoMailbox
          PROVE  summary[f] = NoSummary
      <3>1. PICK c \in Compactors : Phase(c) = "moveMailbox" /\ Folder(c) = f
        BY <2>1 DEF IInv, MailboxOK
      <3>2. QED BY <3>1 DEF IInv, WorkOK, CopiedOK, Replacing
    <2>2. \A f \in Folders : Valid(f)' => Valid(f) /\ summary[f] # NoSummary
      BY <1>1, <1>6, NameFacts DEF Valid
    <2>3. QED BY <1>1, <1>2, <2>1, <2>2 DEF IInv, SummaryOK
  <1>9. MailboxOK'
    BY <1>1, <1>2, <1>3 DEF MailboxOK
  <1>10. ListenersOK'
    BY <1>1 DEF ListenersOK
  <1>11. QED BY <1>4, <1>5, <1>7, <1>8, <1>9, <1>10 DEF IInv
------------------------------------------------------------------------------
(***************************************************************************)
(* All steps.                                                              *)
(***************************************************************************)
Inv == IInv /\ ListenersOK

\* Steps of a compactor that waits for no parser.
LEMMA OwnStep ==
  ASSUME NEW c \in Compactors,
         \/ CompactFails(c) \/ SkipFolder(c) \/ DeniedLock(c)
         \/ StartCompacting(c) \/ StartFails(c)
         \/ FinishCompact(c) \/ RemoveSummary(c) \/ RemoveMailbox(c) \/ MoveMailbox(c)
         \/ MoveSummary(c) \/ Reopen(c) \/ EndCopy(c) \/ StreamFails(c)
         \/ \E S : CompactFolders(c, S)
  PROVE  /\ Phase(c) # "parsing" /\ reparse' = reparse
         /\ \E r : comp' = [comp EXCEPT ![c] = r]
  <1>1. CASE \E S : CompactFolders(c, S)
    <2>1. PICK S : CompactFolders(c, S)
      BY <1>1
    <2>2. comp[c] = Idle /\ reparse' = reparse
      BY <2>1 DEF CompactFolders, locks
    <2>3. \E r : comp' = [comp EXCEPT ![c] = r]
      BY <2>1 DEF CompactFolders, Become
    <2>4. Phase(c) # "parsing"
      <3>1. Idle.phase = "idle"
        BY DEF Idle
      <3>2. QED BY <2>2, <3>1 DEF Phase
    <2>5. QED BY <2>2, <2>3, <2>4
  <1>2. CASE CompactFails(c) \/ SkipFolder(c) \/ DeniedLock(c) \/ Reopen(c)
    BY <1>2 DEF CompactFails, SkipFolder, DeniedLock, Reopen, CompactNextFolder, Become, locks, Phase
  <1>3. CASE StartCompacting(c) \/ StartFails(c)
    BY <1>3 DEF StartCompacting, StartFails, Acquire, Enter, Become, Phase
  <1>4. CASE EndCopy(c) \/ StreamFails(c)
    BY <1>4 DEF EndCopy, StreamFails, Become, locks, Phase
  <1>5. CASE FinishCompact(c) \/ RemoveSummary(c) \/ RemoveMailbox(c) \/ MoveMailbox(c) \/ MoveSummary(c)
    <2>1. Phase(c) # "parsing"
      BY <1>5 DEF FinishCompact, RemoveSummary, RemoveMailbox, MoveMailbox, MoveSummary, Phase
    <2>2. GiveUpFolder(c) \/ (UNCHANGED locks /\ \E p : Enter(c, p))
      BY <1>5 DEF FinishCompact, RemoveSummary, RemoveMailbox, MoveMailbox, MoveSummary
    <2>3. QED
      BY <2>1, <2>2 DEF GiveUpFolder, CompactNextFolder, Enter, Become, locks
  <1>6. QED BY <1>1, <1>2, <1>3, <1>4, <1>5

LEMMA ListenersStay ==
  ASSUME TypeOK, ListenersOK, reparse' = reparse,
         \A c \in Compactors : Phase(c) = "parsing" => comp'[c] = comp[c]
  PROVE  ListenersOK'
  BY DEF ListenersOK, TypeOK, Phase, Folder

LEMMA CompactorsOK ==
  ASSUME Tame, Inv, NEW c \in Compactors,
         \/ CompactorStep(c) \/ StreamStep(c)
         \/ \E S \in SUBSET Folders : CompactFolders(c, S)
  PROVE  Inv'
  <1>0. IInv /\ TypeOK /\ ListenersOK
    BY DEF Inv, IInv
  <1>1. IInv'
    BY <1>0, CompactFoldersOK, ParseFirstOK, CompactFailsOK, SkipFolderOK, DeniedLockOK,
       StartCompactingOK,
       StartFailsOK, FinishCompactOK, RemoveSummaryOK, RemoveMailboxOK, MoveMailboxOK,
       MoveSummaryOK, ReopenOK, EndCopyOK, NextIsNotGone, StreamFailsOK
       DEF CompactorStep, StreamStep
  <1>2. CASE ParseFirst(c)
    <2>1. /\ Phase(c) = "compact" /\ reparse' = [reparse EXCEPT ![Folder(c)] = c]
          /\ comp' = [comp EXCEPT ![c] = [comp[c] EXCEPT !.phase = "parsing"]]
      BY <1>2 DEF ParseFirst, Phase, Folder, Enter, Become
    <2>2. comp[c] \in Waiting /\ Folder(c) \in Folders
      BY <1>0, <2>1, PhaseFacts
    <2>3. /\ \A d \in Compactors : d # c => comp'[d] = comp[d]
          /\ Phase(c)' = "parsing" /\ Folder(c)' = Folder(c)
      BY <1>0, <2>1, <2>2 DEF Phase, Folder, TypeOK, Waiting
    <2>4. \A f \in Folders : f # Folder(c) => reparse'[f] = reparse[f]
      BY <1>0, <2>1 DEF TypeOK
    <2>5. reparse'[Folder(c)] = c
      BY <1>0, <2>1, <2>2 DEF TypeOK
    <2>6. ASSUME NEW f \in Folders, reparse'[f] # "nobody"
          PROVE  comp'[reparse'[f]].phase = "parsing" /\ comp'[reparse'[f]].folder = f
      <3>1. CASE f = Folder(c)
        BY <2>3, <2>5, <3>1 DEF Phase, Folder
      <3>2. CASE f # Folder(c)
        <4>1. PICK d \in Compactors : d = reparse[f] /\ d = reparse'[f]
          BY <1>0, <2>4, <2>6, <3>2 DEF TypeOK
        <4>2. Phase(d) = "parsing" /\ Folder(d) = f /\ d # c
          BY <1>0, <2>1, <2>4, <2>6, <3>2, <4>1 DEF ListenersOK
        <4>3. QED BY <2>3, <4>1, <4>2 DEF Phase, Folder
      <3>3. QED BY <3>1, <3>2
    <2>7. ListenersOK'
      BY <2>6 DEF ListenersOK, Phase, Folder
    <2>8. QED BY <1>1, <2>7 DEF Inv
  <1>3. CASE ~ParseFirst(c)
    <2>1. Phase(c) # "parsing" /\ reparse' = reparse /\ \E r : comp' = [comp EXCEPT ![c] = r]
      BY <1>0, <1>3, NextIsNotGone, OwnStep DEF CompactorStep, StreamStep
    <2>2. \A d \in Compactors : Phase(d) = "parsing" => comp'[d] = comp[d]
      BY <1>0, <2>1 DEF TypeOK
    <2>3. QED BY <1>0, <1>1, <2>1, <2>2, ListenersStay DEF Inv
  <1>4. QED BY <1>2, <1>3

LEMMA FoldersOK ==
  ASSUME Tame, Inv, NEW f \in Folders, FolderStep(f)
  PROVE  Inv'
  <1>0. IInv /\ TypeOK /\ ListenersOK
    BY DEF Inv, IInv
  <1>1. CASE \E ok \in BOOLEAN : ParseDone(f, ok)
    <2>1. PICK ok \in BOOLEAN : ParseDone(f, ok)
      BY <1>1
    <2>2. IInv'
      BY <1>0, <2>1, ParseDoneOK
    <2>3. /\ reparse'[f] = "nobody" /\ \A g \in Folders : g # f => reparse'[g] = reparse[g]
          /\ \/ comp' = comp
             \/ \E c \in Compactors : \E r : reparse[f] = c /\ comp' = [comp EXCEPT ![c] = r]
      BY <1>0, <2>1 DEF ParseDone, TypeOK, Enter, CompactNextFolder, Become
    <2>4. ASSUME NEW g \in Folders, reparse'[g] # "nobody"
          PROVE  comp'[reparse'[g]].phase = "parsing" /\ comp'[reparse'[g]].folder = g
      <3>1. PICK d \in Compactors : d = reparse[g] /\ d = reparse'[g]
        BY <1>0, <2>3, <2>4 DEF TypeOK
      <3>2. Phase(d) = "parsing" /\ Folder(d) = g /\ g # f
        BY <1>0, <2>3, <2>4, <3>1 DEF ListenersOK
      <3>3. d # reparse[f]
        BY <1>0, <3>2, NameFacts DEF ListenersOK
      <3>4. comp'[d] = comp[d]
        BY <1>0, <2>3, <3>3 DEF TypeOK
      <3>5. QED BY <3>1, <3>2, <3>4 DEF Phase, Folder
    <2>5. ListenersOK'
      BY <2>4 DEF ListenersOK, Phase, Folder
    <2>6. QED BY <2>2, <2>5 DEF Inv
  <1>2. CASE OpenFolder(f)
    <2>1. IInv' /\ comp' = comp /\ reparse' = [reparse EXCEPT ![f] = "nobody"]
      BY <1>0, <1>2, OpenFolderOK DEF OpenFolder
    <2>2. ListenersOK'
      BY <1>0, <2>1 DEF ListenersOK, Phase, Folder, TypeOK
    <2>3. QED BY <2>1, <2>2 DEF Inv
  <1>3. CASE BeginMailDelivery(f) \/ EndMailDelivery(f)
             \/ \E m \in Msgs : IncorporateMessage(f, m) \/ DeleteMessage(f, m)
    <2>1. IInv'
      BY <1>0, <1>3, BeginMailDeliveryOK, EndMailDeliveryOK, IncorporateMessageOK, DeleteMessageOK
    <2>2. comp' = comp /\ reparse' = reparse
      BY <1>3 DEF BeginMailDelivery, EndMailDelivery, IncorporateMessage, DeleteMessage, locks
    <2>3. QED BY <1>0, <2>1, <2>2, ListenersStay DEF Inv
  <1>4. QED
    BY <1>1, <1>2, <1>3 DEF FolderStep, Parsed, ParseFails

LEMMA NextOK ==
  ASSUME Tame, Inv, [Next]_vars
  PROVE  Inv'
  <1>1. CASE Next
    <2>1. CASE \E c \in Compactors : CompactorStep(c) \/ StreamStep(c)
                 \/ \E S \in SUBSET Folders : CompactFolders(c, S)
      BY <2>1, CompactorsOK
    <2>2. CASE \E f \in Folders : FolderStep(f)
      BY <2>2, FoldersOK
    <2>3. CASE Crash
      BY <2>3, CrashOK DEF Inv
    <2>4. \A f \in Folders : {f} \in SUBSET Folders
      OBVIOUS
    <2>5. {f \in Folders : HasExpunged(f)} \in SUBSET Folders
      OBVIOUS
    <2>6. QED BY <1>1, <2>1, <2>2, <2>3, <2>4, <2>5, Zenon DEF Next
  <1>2. CASE UNCHANGED vars
    <2>1. /\ mbox' = mbox /\ summary' = summary /\ holder' = holder /\ reparse' = reparse
          /\ comp' = comp /\ crashes' = crashes /\ deleted' = deleted /\ heir' = heir
          /\ lost' = lost
      BY <1>2 DEF vars
    <2>2. TypeOK'
      BY <2>1 DEF Inv, IInv, TypeOK
    <2>3. MainThreadOK' /\ AskedOK'
      BY <2>1, CompactorsStay DEF Inv, HasExpunged
    <2>4. LocksOK'
      BY <2>1 DEF Inv, IInv, LocksOK, Phase, Folder
    <2>5. TempsOK' /\ HeirsOK' /\ SummaryOK' /\ MailboxOK' /\ WorkOK'
      BY <2>1, QuietStep DEF Inv, files
    <2>6. ListenersOK'
      BY <2>1 DEF Inv, ListenersOK, Phase, Folder
    <2>7. QED BY <2>2, <2>3, <2>4, <2>5, <2>6 DEF Inv, IInv
  <1>3. QED BY <1>1, <1>2
------------------------------------------------------------------------------
(***************************************************************************)
(* A temporary file is a folder's heir only for as long as a compactor is  *)
(* between removing the mailbox and moving the copy: a crash ends it.      *)
(***************************************************************************)
HeirsOwned ==
  \A f \in Folders : \A t \in heir[f] :
    \E c \in Compactors :
      Phase(c) = "moveMailbox" /\ Folder(c) = f /\ comp[c].temp = t

LEMMA HeirsKept ==
  ASSUME HeirsOwned, heir' = heir,
         \A c \in Compactors : Phase(c) = "moveMailbox" => comp'[c] = comp[c]
  PROVE  HeirsOwned'
  BY DEF HeirsOwned, Phase, Folder

LEMMA HeirsOwnedAfter ==
  ASSUME Tame, IInv, HeirsOwned, Next
  PROVE  HeirsOwned'
  <1>0. TypeOK
    BY DEF IInv
  <1>1. CASE Crash
    BY <1>1 DEF Crash, HeirsOwned
  <1>2. ASSUME NEW c \in Compactors, RemoveMailbox(c)
        PROVE  HeirsOwned'
    <2>1. Phase(c) = "removeMailbox" /\ Phase(c) \in MainThread
      BY <1>2 DEF RemoveMailbox, Phase, MainThread, FileOps
    <2>2. \A d \in Compactors : Phase(d) # "moveMailbox"
      BY <2>1 DEF IInv, MainThreadOK, MainThread, FileOps
    <2>3. \A f \in Folders : heir[f] = {}
      BY <2>2 DEF HeirsOwned
    <2>4. CASE UNCHANGED ghosts
      BY <2>3, <2>4 DEF HeirsOwned, ghosts
    <2>5. CASE ~UNCHANGED ghosts
      <3>1. /\ heir' = [heir EXCEPT ![Folder(c)] = @ \cup {comp[c].temp}]
            /\ Enter(c, "moveMailbox")
        BY <1>2, <2>5 DEF RemoveMailbox, Folder
      <3>2. Phase(c) \in WorkPhases
        BY <2>1 DEF WorkPhases, Locking, Separate, Old
      <3>3. Phase(c)' = "moveMailbox" /\ Folder(c)' = Folder(c) /\ comp'[c].temp = comp[c].temp
        BY <1>0, <3>1, <3>2, EnterFacts DEF Phase, Folder, FileOps
      <3>4. heir \in [Folders -> SUBSET Temps]
        BY <1>0 DEF TypeOK
      <3>5. \A f \in Folders : \A t \in heir'[f] : f = Folder(c) /\ t = comp[c].temp
        BY <2>3, <3>1, <3>4
      <3>6. QED BY <3>3, <3>5 DEF HeirsOwned
    <2>6. QED BY <2>4, <2>5
  <1>3. ASSUME NEW c \in Compactors, MoveMailbox(c)
        PROVE  HeirsOwned'
    <2>1. /\ Phase(c) = "moveMailbox" /\ Phase(c) \in MainThread
          /\ heir' = [heir EXCEPT ![Folder(c)] = @ \ {comp[c].temp}]
      BY <1>3 DEF MoveMailbox, Phase, Folder, MainThread, FileOps
    <2>2. \A d \in Compactors : Phase(d) = "moveMailbox" => d = c
      BY <2>1 DEF IInv, MainThreadOK
    <2>3. \A f \in Folders : \A t \in heir[f] : f = Folder(c) /\ t = comp[c].temp
      BY <2>2 DEF HeirsOwned
    <2>4. heir \in [Folders -> SUBSET Temps]
      BY <1>0 DEF TypeOK
    <2>5. \A f \in Folders : heir'[f] = {}
      BY <2>1, <2>3, <2>4
    <2>6. QED BY <2>5 DEF HeirsOwned
  <1>4. ASSUME NEW c \in Compactors,
               \/ CompactorStep(c) /\ ~RemoveMailbox(c) /\ ~MoveMailbox(c)
               \/ StreamStep(c) \/ \E S : CompactFolders(c, S)
        PROVE  HeirsOwned'
    <2>1. heir' = heir
      BY <1>4 DEF CompactorStep, StreamStep, CompactFolders, ParseFirst, CompactFails,
           SkipFolder, DeniedLock, StartCompacting, StartFails, Acquire, FinishCompact,
           RemoveSummary, MoveSummary, Reopen, EndCopy, NextIsGone, StreamFails, ghosts
    <2>2. Phase(c) # "moveMailbox"
      <3>1. CASE CompactorStep(c) /\ ~RemoveMailbox(c) /\ ~MoveMailbox(c)
        BY <3>1 DEF CompactorStep, ParseFirst, CompactFails,
             SkipFolder, DeniedLock, StartCompacting, StartFails, Acquire, FinishCompact,
             RemoveSummary, MoveSummary, Reopen, Phase
      <3>2. CASE StreamStep(c)
        BY <3>2 DEF StreamStep, EndCopy, NextIsGone, StreamFails, Phase
      <3>3. CASE \E S : CompactFolders(c, S)
        <4>1. comp[c] = Idle
          BY <3>3 DEF CompactFolders
        <4>2. QED BY <4>1 DEF Idle, Phase
      <3>4. QED BY <1>4, <3>1, <3>2, <3>3
    <2>3. \E r : comp' = [comp EXCEPT ![c] = r]
      <3>1. CASE ParseFirst(c)
        BY <3>1 DEF ParseFirst, Enter, Become
      <3>2. CASE ~ParseFirst(c)
        BY <1>4, <3>2, NextIsNotGone, OwnStep DEF CompactorStep, StreamStep
      <3>3. QED BY <3>1, <3>2
    <2>4. \A d \in Compactors : d # c => comp'[d] = comp[d]
      BY <1>0, <2>3 DEF TypeOK
    <2>5. QED BY <2>1, <2>2, <2>4, HeirsKept
  <1>5. ASSUME NEW f \in Folders, FolderStep(f)
        PROVE  HeirsOwned'
    <2>1. heir' = heir
      BY <1>5 DEF FolderStep, OpenFolder, Parsed, ParseFails, ParseDone, BeginMailDelivery,
           EndMailDelivery, IncorporateMessage, DeleteMessage, ghosts
    <2>2. \A c \in Compactors : Phase(c) = "moveMailbox" => comp'[c] = comp[c]
      <3>1. "moveMailbox" \in MainThread
        BY DEF MainThread, FileOps
      <3>2. MainThreadFree
        BY <1>5 DEF FolderStep, OpenFolder, Parsed, ParseFails, ParseDone, BeginMailDelivery,
             EndMailDelivery, IncorporateMessage, DeleteMessage
      <3>3. QED BY <3>1, <3>2 DEF MainThreadFree, Phase
    <2>3. QED BY <2>1, <2>2, HeirsKept
  <1>6. QED BY <1>1, <1>2, <1>3, <1>4, <1>5 DEF Next, CompactorStep
------------------------------------------------------------------------------
(***************************************************************************)
(* The mail of the folders: what compactors do to it, and the others.      *)
(***************************************************************************)
\* It stays where the only file that changes is nobody's.
LEMMA MailStays ==
  ASSUME TypeOK, NEW t \in Temps, \A f \in Folders : t \notin heir[f],
         \A n \in Names : n # t => mbox'[n] = mbox[n],
         heir' = heir
  PROVE  \A f \in Folders : MailOf(f)' = MailOf(f)
  <1>1. \A n \in Names : n # t => Live(n)' = Live(n)
    BY DEF Live
  <1>2. \A f \in Folders : f \in Names /\ f # t /\ \A s \in heir[f] : s \in Names /\ s # t
    BY NameFacts DEF TypeOK
  <1>3. ASSUME NEW f \in Folders
        PROVE  MailOf(f)' = MailOf(f)
    <2>1. Live(f)' = Live(f) /\ \A s \in heir[f] : Live(s)' = Live(s)
      BY <1>1, <1>2
    <2>2. {Live(s)' : s \in heir[f]} = {Live(s) : s \in heir[f]}
      BY <2>1
    <2>3. QED BY <2>1, <2>2 DEF MailOf
  <1>4. QED BY <1>3

LEMMA MailSame ==
  ASSUME TypeOK, \A n \in Names : mbox'[n] = mbox[n], heir' = heir
  PROVE  \A f \in Folders : MailOf(f)' = MailOf(f)
  <1>1. \A n \in Names : Live(n)' = Live(n)
    BY DEF Live
  <1>2. \A f \in Folders : f \in Names /\ \A s \in heir[f] : s \in Names
    BY NameFacts DEF TypeOK
  <1>3. ASSUME NEW f \in Folders
        PROVE  MailOf(f)' = MailOf(f)
    <2>1. Live(f)' = Live(f) /\ \A s \in heir[f] : Live(s)' = Live(s)
      BY <1>1, <1>2
    <2>2. {Live(s)' : s \in heir[f]} = {Live(s) : s \in heir[f]}
      BY <2>1
    <2>3. QED BY <2>1, <2>2 DEF MailOf
  <1>4. QED BY <1>3

\* Pointwise.
LEMMA InMail ==
  ASSUME NEW f \in Folders
  PROVE  \A m : m \in MailOf(f) <=> m \in Live(f) \/ \E t \in heir[f] : m \in Live(t)
  BY DEF MailOf

LEMMA MailMovesOut ==
  ASSUME IInv, NEW c \in Compactors, RemoveMailbox(c), ~GiveUpFolder(c)
  PROVE  \A f \in Folders : MailOf(f)' = MailOf(f)
  <1> PICK t, f : t = comp[c].temp /\ f = Folder(c)
    OBVIOUS
  <1>1. /\ Phase(c) = "removeMailbox" /\ Phase(c) \in WorkPhases /\ Phase(c) \in Old
        /\ Phase(c) \in MainThread /\ Phase(c) \in Replacing /\ Phase(c) \in Separate
    BY DEF RemoveMailbox, Phase, WorkPhases, Locking, Separate, Old, MainThread, FileOps, Replacing
  <1>2. /\ t \in Temps /\ t \in Names /\ f \in Folders /\ f \in Names /\ f # t
        /\ \A g \in Folders : t \notin heir[g]
    BY <1>1, OwnFiles
  <1>3. /\ mbox' = [mbox EXCEPT ![f] = NoMailbox]
        /\ heir' = [heir EXCEPT ![f] = @ \cup {t}]
    BY DEF RemoveMailbox, Folder
  <1>4. /\ mbox'[f] = NoMailbox /\ \A n \in Names : n # f => mbox'[n] = mbox[n]
        /\ heir'[f] = heir[f] \cup {t} /\ \A g \in Folders : g # f => heir'[g] = heir[g]
    BY <1>2, <1>3 DEF IInv, TypeOK
  <1>5. /\ mbox[t] # NoMailbox /\ mbox[t].expunged = {} /\ mbox[f] # NoMailbox
        /\ Range(mbox[t].msgs) = Range(mbox[f].msgs) \ mbox[f].expunged
    BY <1>1 DEF IInv, TempsOK, WorkOK, CopiedOK
  <1>6. /\ Live(f)' = {} /\ Live(t) = Live(f)
        /\ \A n \in Names : n # f => Live(n)' = Live(n)
    BY <1>4, <1>5 DEF Live
  <1>7. \A g \in Folders : g \in Names /\ \A s \in heir[g] : s \in Names /\ s # f
    BY <1>2, NameFacts DEF IInv, TypeOK
  <1>8. ASSUME NEW g \in Folders
        PROVE  MailOf(g)' = MailOf(g)
    <2>1. \A m : m \in MailOf(g)' <=> m \in Live(g)' \/ \E s \in heir'[g] : m \in Live(s)'
      BY DEF MailOf
    <2>2. \A m : m \in MailOf(g) <=> m \in Live(g) \/ \E s \in heir[g] : m \in Live(s)
      BY InMail
    <2>3. ASSUME g = f PROVE \A x : x \in MailOf(g)' <=> x \in MailOf(g)
      BY <1>2, <1>4, <1>6, <1>7, <2>1, <2>2, <2>3
    <2>4. ASSUME g # f PROVE \A x : x \in MailOf(g)' <=> x \in MailOf(g)
      BY <1>2, <1>4, <1>6, <1>7, <2>1, <2>2, <2>4
    <2>5. QED BY <2>3, <2>4 DEF MailOf
  <1>9. QED BY <1>8

LEMMA MailMovesIn ==
  ASSUME IInv, Tame, NEW c \in Compactors, MoveMailbox(c)
  PROVE  \A f \in Folders : MailOf(f)' = MailOf(f)
  <1> PICK t, f : t = comp[c].temp /\ f = Folder(c)
    OBVIOUS
  <1>1. /\ Phase(c) = "moveMailbox" /\ Phase(c) \in WorkPhases
        /\ Phase(c) \in MainThread /\ Phase(c) \in Replacing /\ Phase(c) \in Separate
    BY DEF MoveMailbox, Phase, WorkPhases, Locking, Separate, MainThread, FileOps, Replacing
  <1>2. t \in Temps /\ t \in Names /\ f \in Folders /\ f \in Names /\ f # t
    BY <1>1, OwnFiles
  <1>3. /\ mbox' = [mbox EXCEPT ![f] = mbox[t], ![t] = NoMailbox]
        /\ heir' = [heir EXCEPT ![f] = @ \ {t}]
    BY DEF MoveMailbox, Folder, Tame
  <1>4. /\ mbox'[f] = mbox[t] /\ mbox'[t] = NoMailbox
        /\ \A n \in Names : n # f /\ n # t => mbox'[n] = mbox[n]
        /\ heir'[f] = heir[f] \ {t} /\ \A g \in Folders : g # f => heir'[g] = heir[g]
    BY <1>2, <1>3 DEF IInv, TypeOK
  <1>5. mbox[f] = NoMailbox /\ t \in heir[f]
    BY <1>1 DEF IInv, WorkOK, CopiedOK
  <1>6. \A g \in Folders : t \in heir[g] => g = f
    BY <1>1 DEF IInv, HeirsOK
  <1>7. /\ Live(f)' = Live(t) /\ Live(f) = {}
        /\ \A n \in Names : n # f /\ n # t => Live(n)' = Live(n)
    BY <1>4, <1>5 DEF Live
  <1>8. \A g \in Folders : g \in Names /\ g # t /\ \A s \in heir[g] : s \in Names /\ s # f
    BY <1>2, NameFacts DEF IInv, TypeOK
  <1>9. ASSUME NEW g \in Folders
        PROVE  MailOf(g)' = MailOf(g)
    <2>1. \A m : m \in MailOf(g)' <=> m \in Live(g)' \/ \E s \in heir'[g] : m \in Live(s)'
      BY DEF MailOf
    <2>2. \A m : m \in MailOf(g) <=> m \in Live(g) \/ \E s \in heir[g] : m \in Live(s)
      BY InMail
    <2>3. ASSUME g = f PROVE \A x : x \in MailOf(g)' <=> x \in MailOf(g)
      BY <1>2, <1>4, <1>5, <1>7, <1>8, <2>1, <2>2, <2>3
    <2>4. ASSUME g # f PROVE \A x : x \in MailOf(g)' <=> x \in MailOf(g)
      BY <1>2, <1>4, <1>6, <1>7, <1>8, <2>1, <2>2, <2>4
    <2>5. QED BY <2>3, <2>4 DEF MailOf
  <1>10. QED BY <1>9

LEMMA MailDelivered ==
  ASSUME IInv, NEW f \in Folders, NEW m \in Msgs, IncorporateMessage(f, m)
  PROVE  /\ \A g \in Folders : m \notin MailOf(g)
         /\ m \notin deleted \cup lost /\ deleted' = deleted /\ lost' = lost
         /\ MailOf(f)' = MailOf(f) \cup {m}
         /\ \A g \in Folders : g # f => MailOf(g)' = MailOf(g)
  <1>0. TypeOK
    BY DEF IInv
  <1>1. /\ \A n \in Names : m \notin Size(n)
        /\ m \notin deleted \cup lost /\ deleted' = deleted /\ lost' = lost /\ heir' = heir
        /\ mbox' = [mbox EXCEPT ![f].msgs = Append(@, m)]
        /\ holder[f] = "delivery" /\ holder[f] \notin Compactors
    BY NameFacts DEF IncorporateMessage, ghosts
  <1>2. /\ f \in Names /\ mbox[f] # NoMailbox /\ mbox[f] \in Mailboxes /\ m \notin Range(mbox[f].msgs)
    BY <1>1, FreeFolder, NameFacts DEF Size
  <1>3. \A g \in Folders : g \in Names /\ \A s \in heir[g] : s \in Names /\ s # f
    BY <1>0, NameFacts DEF TypeOK
  <1>4. \A n \in Names : m \notin Live(n)
    BY <1>0, <1>1, FileFacts
  <1>5. \A g \in Folders : m \notin MailOf(g)
    BY <1>3, <1>4, InMail
  <1>6. /\ mbox'[f] = [mbox[f] EXCEPT !.msgs = Append(@, m)]
        /\ \A n \in Names : n # f => mbox'[n] = mbox[n]
    BY <1>0, <1>1, <1>2 DEF TypeOK
  <1>7. /\ mbox'[f].msgs = Append(mbox[f].msgs, m) /\ mbox'[f].expunged = mbox[f].expunged
        /\ m \notin mbox[f].expunged
        /\ mbox'[f] \in Mailboxes /\ mbox'[f] # NoMailbox
        /\ Range(mbox'[f].msgs) = Range(mbox[f].msgs) \cup {m}
    <2>1. mbox'[f].msgs = Append(mbox[f].msgs, m) /\ mbox'[f].expunged = mbox[f].expunged
          /\ m \notin mbox[f].expunged
      BY <1>2, <1>6 DEF Mailboxes, Mailbox
    <2>2. mbox'[f] \in Mailboxes /\ Range(mbox'[f].msgs) = Range(mbox[f].msgs) \cup {m}
      BY <1>2, <1>6, <2>1, AppendNew
    <2>3. QED BY <2>1, <2>2, CompactionAssumption DEF Mailboxes
  <1>8. /\ Live(f)' = Live(f) \cup {m} /\ \A n \in Names : n # f => Live(n)' = Live(n)
    BY <1>2, <1>6, <1>7 DEF Live
  <1>9. ASSUME NEW g \in Folders
        PROVE  MailOf(g)' = IF g = f THEN MailOf(g) \cup {m} ELSE MailOf(g)
    <2>1. \A x : x \in MailOf(g)' <=> x \in Live(g)' \/ \E s \in heir'[g] : x \in Live(s)'
      BY DEF MailOf
    <2>2. \A x : x \in MailOf(g) <=> x \in Live(g) \/ \E s \in heir[g] : x \in Live(s)
      BY InMail
    <2>3. ASSUME g = f PROVE \A x : x \in MailOf(g)' <=> x \in MailOf(g) \/ x = m
      BY <1>1, <1>3, <1>8, <2>1, <2>2, <2>3
    <2>4. ASSUME g # f PROVE \A x : x \in MailOf(g)' <=> x \in MailOf(g)
      BY <1>1, <1>3, <1>8, <2>1, <2>2, <2>4
    <2>5. QED BY <2>3, <2>4 DEF MailOf
  <1>10. QED BY <1>1, <1>5, <1>9

LEMMA MailDeleted ==
  ASSUME IInv, Tame, NEW f \in Folders, NEW m \in Msgs, DeleteMessage(f, m)
  PROVE  /\ m \in MailOf(f) /\ deleted' = deleted \cup {m} /\ lost' = lost
         /\ MailOf(f)' = MailOf(f) \ {m}
         /\ \A g \in Folders : g # f => MailOf(g)' = MailOf(g)
  <1>0. TypeOK
    BY DEF IInv
  <1>1. /\ f \in Names /\ mbox[f] # NoMailbox /\ mbox'[f] # NoMailbox
        /\ m \in Range(mbox[f].msgs) \ mbox[f].expunged
        /\ mbox'[f].msgs = mbox[f].msgs /\ mbox'[f].expunged = mbox[f].expunged \cup {m}
        /\ \A n \in Names : n # f => mbox'[n] = mbox[n]
        /\ deleted' = deleted \cup {m}
        /\ heir' = heir /\ lost' = lost
    BY DeleteFacts
  <1>2. /\ m \in Live(f) /\ m \in Size(f) /\ Live(f)' = Live(f) \ {m}
        /\ \A n \in Names : n # f => Live(n)' = Live(n)
    BY <1>1 DEF Live, Size
  <1>3. \A g \in Folders : g \in Names /\ \A s \in heir[g] : s \in Names /\ s # f
    BY <1>0, NameFacts DEF TypeOK
  <1>4. \A s \in heir[f] : m \notin Live(s)
    <2>1. \A s \in heir[f] : Disjoint(f, s)
      BY DEF IInv, HeirsOK
    <2>2. \A s \in heir[f] : Live(s) \subseteq Size(s)
      BY <1>0, <1>3, FileFacts
    <2>3. QED BY <1>2, <2>1, <2>2 DEF Disjoint
  <1>5. ASSUME NEW g \in Folders
        PROVE  MailOf(g)' = IF g = f THEN MailOf(g) \ {m} ELSE MailOf(g)
    <2>1. \A x : x \in MailOf(g)' <=> x \in Live(g)' \/ \E s \in heir'[g] : x \in Live(s)'
      BY DEF MailOf
    <2>2. \A x : x \in MailOf(g) <=> x \in Live(g) \/ \E s \in heir[g] : x \in Live(s)
      BY InMail
    <2>3. ASSUME g = f PROVE \A x : x \in MailOf(g)' <=> x \in MailOf(g) /\ x # m
      BY <1>1, <1>2, <1>3, <1>4, <2>1, <2>2, <2>3
    <2>4. ASSUME g # f PROVE \A x : x \in MailOf(g)' <=> x \in MailOf(g)
      BY <1>1, <1>2, <1>3, <2>1, <2>2, <2>4
    <2>5. QED BY <2>3, <2>4 DEF MailOf
  <1>6. m \in MailOf(f)
    BY <1>2, InMail
  <1>7. QED BY <1>1, <1>5, <1>6

\* While the mailbox is there, or has been replaced, only its own temporary
\* files are a compactor's.
LEMMA CopyKeepsMail ==
  ASSUME IInv, NEW c \in Compactors, Phase(c) \in Old \cup {"moveSummary"},
         Phase(c) \in MainThread \/ MainThreadFree,
         \A n \in Names : n # comp[c].temp => mbox'[n] = mbox[n],
         heir' = heir
  PROVE  \A f \in Folders : MailOf(f)' = MailOf(f)
  <1> PICK t : t = comp[c].temp
    OBVIOUS
  <1>1. Phase(c) \in WorkPhases
    BY DEF WorkPhases, Locking, Separate, Old
  <1>2. t \in Temps /\ \A g \in Folders : t \notin heir[g]
    BY <1>1, OwnFiles
  <1>3. QED BY <1>2, MailStays DEF IInv

LEMMA CompactorsKeepMail ==
  ASSUME Tame, IInv, NEW c \in Compactors,
         \/ CompactorStep(c) \/ StreamStep(c)
         \/ \E S \in SUBSET Folders : CompactFolders(c, S)
  PROVE  (\A f \in Folders : MailOf(f)' = MailOf(f)) /\ deleted' = deleted /\ lost' = lost
  <1>0. TypeOK
    BY DEF IInv
  <1>1. CASE \/ ParseFirst(c) \/ SkipFolder(c) \/ Reopen(c) \/ CompactFails(c)
             \/ \E S \in SUBSET Folders : CompactFolders(c, S)
    <2>1. mbox' = mbox /\ heir' = heir /\ deleted' = deleted /\ lost' = lost
      BY <1>1 DEF ParseFirst, SkipFolder, CompactFails, Reopen, CompactFolders, files, ghosts
    <2>2. QED BY <1>0, <2>1, MailSame
  <1>2. CASE DeniedLock(c)
    <2>1. PICK t \in Temps : mbox[t] = NoMailbox /\ mbox' = [mbox EXCEPT ![t] = NoMailbox]
      BY <1>2 DEF DeniedLock, CreateUnique
    <2>2. \A n \in Names : mbox'[n] = mbox[n]
      BY <1>0, <2>1 DEF TypeOK
    <2>3. heir' = heir /\ deleted' = deleted /\ lost' = lost
      BY <1>2 DEF DeniedLock, ghosts
    <2>4. QED BY <1>0, <2>2, <2>3, MailSame
  <1>3. CASE StartCompacting(c) \/ StartFails(c)
    <2>1. PICK t \in Temps, old \in SUBSET Offsets : Acquire(c, t, old)
      BY <1>3, StrayRows DEF StartCompacting, StartFails, IInv
    <2>2. /\ mbox[t] = NoMailbox /\ mbox' = [mbox EXCEPT ![t] = EmptyMailbox]
          /\ heir' = heir /\ deleted' = deleted /\ lost' = lost /\ Phase(c) = "compact"
      BY <2>1 DEF Acquire, CreateUnique, ghosts, Phase
    <2>3. \A f \in Folders : t \notin heir[f]
      BY <2>2, UnusedTemp
    <2>4. \A n \in Names : n # t => mbox'[n] = mbox[n]
      BY <1>0, <2>2 DEF TypeOK
    <2>5. QED BY <1>0, <2>2, <2>3, <2>4, MailStays
  <1>4. CASE EndCopy(c)
    <2>1. Phase(c) \in Old \cup {"moveSummary"} /\ MainThreadFree /\ heir' = heir /\ deleted' = deleted /\ lost' = lost
      BY <1>4 DEF EndCopy, Phase, Old, ghosts
    <2>2. \A n \in Names : n # comp[c].temp => mbox'[n] = mbox[n]
      BY <1>0, <1>4 DEF EndCopy, AppendToTemp, TypeOK
    <2>3. QED BY <2>1, <2>2, CopyKeepsMail
  <1>5. CASE NextIsGone(c)
    BY <1>5, NextIsNotGone
  <1>6. CASE StreamFails(c)
    <2>1. Phase(c) \in Old \cup {"moveSummary"} /\ MainThreadFree /\ heir' = heir /\ deleted' = deleted /\ lost' = lost
      BY <1>6 DEF StreamFails, Phase, Old, ghosts
    <2>2. \A n \in Names : n # comp[c].temp => mbox'[n] = mbox[n]
      BY <1>0, <1>6 DEF StreamFails, CleanupTempFiles, TypeOK
    <2>3. QED BY <2>1, <2>2, CopyKeepsMail
  <1>7. CASE FinishCompact(c) \/ RemoveSummary(c) \/ MoveSummary(c)
             \/ (RemoveMailbox(c) /\ GiveUpFolder(c))
    <2>1. /\ Phase(c) \in Old \cup {"moveSummary"} /\ Phase(c) \in MainThread
          /\ Phase(c) \in {"finish", "removeSummary", "removeMailbox", "moveSummary"}
      BY <1>7 DEF FinishCompact, RemoveSummary, RemoveMailbox, MoveSummary, Phase, Old,
           MainThread, FileOps
    <2>2. heir' = heir /\ deleted' = deleted /\ lost' = lost
      <3>1. CASE RemoveMailbox(c) /\ GiveUpFolder(c)
        <4>1. Phase(c) = "removeMailbox"
          BY <3>1 DEF RemoveMailbox, Phase
        <4>2. Enter(c, "moveMailbox") => Phase(c)' = "moveMailbox"
          BY <1>0, <4>1, EnterFacts DEF WorkPhases, Locking, Separate, Old, FileOps, Phase
        <4>3. Phase(c)' \in {"idle", "compact"}
          BY <1>0, <3>1, <4>1, NextFacts, BecomeFacts DEF GiveUpFolder, About, Idle, Phase
        <4>4. QED BY <3>1, <4>2, <4>3 DEF RemoveMailbox, ghosts
      <3>2. CASE FinishCompact(c) \/ RemoveSummary(c) \/ MoveSummary(c)
        BY <3>2 DEF FinishCompact, RemoveSummary, MoveSummary, ghosts
      <3>3. QED BY <1>7, <3>1, <3>2
    <2>3. \A n \in Names : n # comp[c].temp => mbox'[n] = mbox[n]
      <3>1. CASE GiveUpFolder(c)
        BY <1>0, <3>1 DEF GiveUpFolder, CleanupTempFiles, TypeOK
      <3>2. CASE FinishCompact(c) /\ ~GiveUpFolder(c)
        BY <1>0, <3>2 DEF FinishCompact, TypeOK
      <3>3. CASE (RemoveSummary(c) \/ MoveSummary(c)) /\ ~GiveUpFolder(c)
        BY <1>0, <3>3 DEF RemoveSummary, MoveSummary
      <3>4. QED BY <1>7, <3>1, <3>2, <3>3
    <2>4. QED BY <2>1, <2>2, <2>3, CopyKeepsMail
  <1>8. CASE RemoveMailbox(c) /\ ~GiveUpFolder(c)
    BY <1>8, MailMovesOut DEF RemoveMailbox
  <1>9. CASE MoveMailbox(c)
    BY <1>9, MailMovesIn DEF MoveMailbox
  <1>10. QED
    BY <1>1, <1>2, <1>3, <1>4, <1>5, <1>6, <1>7, <1>8, <1>9 DEF CompactorStep, StreamStep

\* A crash takes its mail from the folder whose mailbox is being replaced, which
\* is one at most.
LEMMA CrashStrands ==
  ASSUME IInv, HeirsOwned, Crash
  PROVE  /\ deleted' = deleted
         /\ \/ (\A f \in Folders : MailOf(f)' = MailOf(f)) /\ lost' = lost
            \/ \E f \in Folders :
                 /\ MailOf(f) # {} /\ MailOf(f)' = {} /\ lost' = lost \cup MailOf(f)
                 /\ \A g \in Folders : g # f => MailOf(g)' = MailOf(g)
  <1>0. TypeOK
    BY DEF IInv
  <1>1. /\ deleted' = deleted /\ \A f \in Folders : heir'[f] = {}
        /\ lost' = lost \cup UNION {Live(t) : t \in UNION Range(heir)}
        /\ \A n \in Names : mbox'[n] = IF n \in Folders /\ mbox[n] = NoMailbox
                                       THEN EmptyMailbox ELSE mbox[n]
    BY DEF Crash
  <1>2. EmptyMailbox # NoMailbox /\ Range(EmptyMailbox.msgs) \ EmptyMailbox.expunged = {}
    <2>1. EmptyMailbox \in Mailboxes /\ EmptyMailbox.msgs = <<>> /\ Range(EmptyMailbox.msgs) = {}
      BY EmptyFacts DEF Mailboxes, Mailbox, EmptyMailbox, Range, IsInjective
    <2>2. QED BY <2>1, CompactionAssumption DEF Mailboxes
  <1>3. \A n \in Names : Live(n)' = Live(n)
    BY <1>1, <1>2 DEF Live
  <1>4. \A f \in Folders : MailOf(f)' = Live(f)
    <2>1. \A f \in Folders : Live(f)' = Live(f)
      BY <1>3, NameFacts
    <2>2. QED BY <1>1, <2>1 DEF MailOf
  <1>5. DOMAIN heir = Folders
    BY <1>0 DEF TypeOK
  <1>6. CASE \A f \in Folders : heir[f] = {}
    <2>1. UNION Range(heir) = {}
      BY <1>5, <1>6 DEF Range
    <2>2. lost' = lost
      BY <1>1, <2>1
    <2>3. \A f \in Folders : MailOf(f) = Live(f)
      BY <1>6 DEF MailOf
    <2>4. QED BY <1>1, <1>4, <2>2, <2>3
  <1>7. CASE \E f \in Folders : heir[f] # {}
    <2>1. PICK f \in Folders : heir[f] # {}
      BY <1>7
    <2>2. PICK t : t \in heir[f]
      BY <2>1
    <2>3. PICK c \in Compactors : Phase(c) = "moveMailbox" /\ Folder(c) = f /\ comp[c].temp = t
      BY <2>1, <2>2 DEF HeirsOwned
    <2>4. \A g \in Folders : \A u \in heir[g] : g = f /\ u = t
      <3> SUFFICES ASSUME NEW g \in Folders, NEW u \in heir[g]
                   PROVE  g = f /\ u = t
        OBVIOUS
      <3>1. PICK d \in Compactors : Phase(d) = "moveMailbox" /\ Folder(d) = g /\ comp[d].temp = u
        BY DEF HeirsOwned
      <3>2. "moveMailbox" \in MainThread
        BY DEF MainThread, FileOps
      <3>3. c = d
        BY <2>3, <3>1, <3>2 DEF IInv, MainThreadOK
      <3>4. QED BY <2>3, <3>1, <3>3
    <2>5. heir[f] = {t} /\ \A g \in Folders : g # f => heir[g] = {}
      BY <2>2, <2>4
    <2>6. UNION Range(heir) = {t}
      BY <1>5, <2>5 DEF Range
    <2>7. lost' = lost \cup Live(t)
      BY <1>1, <2>6
    <2>8. Live(f) = {}
      <3>1. mbox[f] = NoMailbox
        BY <2>3 DEF IInv, WorkOK, CopiedOK, Replacing
      <3>2. QED BY <3>1 DEF Live
    <2>9. MailOf(f) = Live(t) /\ \A g \in Folders : g # f => MailOf(g) = Live(g)
      BY <2>5, <2>8 DEF MailOf
    <2>10. CASE Live(t) = {}
      BY <1>1, <1>4, <2>7, <2>8, <2>9, <2>10
    <2>11. CASE Live(t) # {}
      BY <1>1, <1>4, <2>7, <2>8, <2>9, <2>11
    <2>12. QED BY <2>10, <2>11
  <1>8. QED BY <1>6, <1>7

\* Every step of the program is a delivery, a deletion, or nothing, as the
\* user sees it.
LEMMA StepOfMailStore ==
  ASSUME Tame, IInv, HeirsOwned, [Next]_vars
  PROVE  [Store!Next]_(Store!vars)
  <1> DEFINE mail == [f \in Folders |-> MailOf(f)]
  <1>0. TypeOK
    BY DEF IInv
  <1>1. SUFFICES \/ Store!Next
                 \/ (\A f \in Folders : MailOf(f)' = MailOf(f)) /\ deleted' = deleted /\ lost' = lost
    BY DEF Store!vars
  <1>2. CASE \E c \in Compactors : CompactorStep(c) \/ StreamStep(c)
               \/ \E S \in SUBSET Folders : CompactFolders(c, S)
    BY <1>2, CompactorsKeepMail
  <1>3. CASE \E f \in Folders, m \in Msgs : IncorporateMessage(f, m)
    <2>1. PICK f \in Folders, m \in Msgs : IncorporateMessage(f, m)
      BY <1>3
    <2>2. /\ \A g \in Folders : m \notin MailOf(g)
          /\ m \notin deleted \cup lost /\ deleted' = deleted /\ lost' = lost
          /\ MailOf(f)' = MailOf(f) \cup {m}
          /\ \A g \in Folders : g # f => MailOf(g)' = MailOf(g)
      BY <2>1, MailDelivered
    <2>3. mail' = [mail EXCEPT ![f] = @ \cup {m}]
      BY <2>2
    <2>4. Store!Deliver(f, m)
      BY <2>2, <2>3 DEF Store!Deliver
    <2>5. QED BY <2>4 DEF Store!Next
  <1>4. CASE \E f \in Folders, m \in Msgs : DeleteMessage(f, m)
    <2>1. PICK f \in Folders, m \in Msgs : DeleteMessage(f, m)
      BY <1>4
    <2>2. /\ m \in MailOf(f) /\ deleted' = deleted \cup {m} /\ lost' = lost
          /\ MailOf(f)' = MailOf(f) \ {m}
          /\ \A g \in Folders : g # f => MailOf(g)' = MailOf(g)
      BY <2>1, MailDeleted
    <2>3. mail' = [mail EXCEPT ![f] = @ \ {m}]
      BY <2>2
    <2>4. Store!Delete(f, m)
      BY <2>2, <2>3 DEF Store!Delete
    <2>5. QED BY <2>4 DEF Store!Next
  <1>5. CASE \E f \in Folders : \/ OpenFolder(f) \/ BeginMailDelivery(f) \/ EndMailDelivery(f)
                                \/ \E ok \in BOOLEAN : ParseDone(f, ok)
    <2>1. mbox' = mbox /\ heir' = heir /\ deleted' = deleted /\ lost' = lost
      BY <1>5 DEF OpenFolder, BeginMailDelivery, EndMailDelivery, ParseDone, files, ghosts
    <2>2. QED BY <1>0, <2>1, MailSame
  <1>6. CASE Crash
    <2>1. CASE (\A f \in Folders : MailOf(f)' = MailOf(f)) /\ lost' = lost
      BY <1>6, <2>1, CrashStrands
    <2>2. CASE ~((\A f \in Folders : MailOf(f)' = MailOf(f)) /\ lost' = lost)
      <3>1. PICK f \in Folders :
              /\ MailOf(f) # {} /\ MailOf(f)' = {} /\ lost' = lost \cup MailOf(f)
              /\ deleted' = deleted
              /\ \A g \in Folders : g # f => MailOf(g)' = MailOf(g)
        BY <1>6, <2>2, CrashStrands
      <3>2. mail' = [mail EXCEPT ![f] = {}]
        BY <3>1
      <3>3. Store!Strand(f)
        BY <3>1, <3>2 DEF Store!Strand
      <3>4. QED BY <3>3 DEF Store!Next
    <2>3. QED BY <2>1, <2>2
  <1>7. CASE UNCHANGED vars
    <2>1. mbox' = mbox /\ heir' = heir /\ deleted' = deleted /\ lost' = lost
      BY <1>7 DEF vars
    <2>2. QED BY <1>0, <2>1, MailSame
  <1>8. \/ \E c \in Compactors : CompactorStep(c) \/ StreamStep(c)
               \/ \E S \in SUBSET Folders : CompactFolders(c, S)
        \/ \E f \in Folders : FolderStep(f)
        \/ Crash
        \/ UNCHANGED vars
    <2>1. \A f \in Folders : {f} \in SUBSET Folders
      OBVIOUS
    <2>2. {f \in Folders : HasExpunged(f)} \in SUBSET Folders
      OBVIOUS
    <2>3. QED BY <2>1, <2>2, Zenon DEF Next
  <1>9. (\E f \in Folders : FolderStep(f)) =>
          \/ \E f \in Folders, m \in Msgs : IncorporateMessage(f, m)
          \/ \E f \in Folders, m \in Msgs : DeleteMessage(f, m)
          \/ \E f \in Folders : \/ OpenFolder(f) \/ BeginMailDelivery(f) \/ EndMailDelivery(f)
                                \/ \E ok \in BOOLEAN : ParseDone(f, ok)
    BY DEF FolderStep, Parsed, ParseFails
  <1>10. QED
    BY <1>2, <1>3, <1>4, <1>5, <1>6, <1>7, <1>8, <1>9

LEMMA StartOfMailStore ==
  ASSUME Init
  PROVE  Store!Init
  <1>1. ASSUME NEW f \in Folders
        PROVE  /\ mbox[f].msgs = FirstMail[f] /\ mbox[f].expunged = {}
               /\ mbox[f] # NoMailbox /\ heir[f] = {}
    <2>1. mbox[f] = [msgs |-> FirstMail[f], expunged |-> {}] /\ heir[f] = {}
      BY NameFacts DEF Init
    <2>2. FirstMail[f] \in Seq(Msgs)
      BY CompactionAssumption
    <2>3. mbox[f] \in Mailbox
      BY <2>1, <2>2 DEF Mailbox
    <2>4. mbox[f] # NoMailbox
      BY <2>3, CompactionAssumption
    <2>5. QED BY <2>1, <2>4
  <1>2. ASSUME NEW f \in Folders
        PROVE  MailOf(f) = Range(FirstMail[f])
    <2>1. Live(f) = Range(FirstMail[f])
      <3>1. /\ mbox[f].msgs = FirstMail[f] /\ mbox[f].expunged = {} /\ mbox[f] # NoMailbox
        BY <1>1
      <3>2. Live(f) = Range(FirstMail[f]) \ {}
        BY <3>1 DEF Live
      <3>3. QED BY <3>2
    <2>2. \A m : m \in MailOf(f) <=> m \in Live(f)
      BY <1>1, InMail
    <2>3. QED BY <2>1, <2>2 DEF MailOf
  <1>3. QED BY <1>2 DEF Store!Init, Init
------------------------------------------------------------------------------
(***************************************************************************)
(* The theorems.                                                           *)
(***************************************************************************)
LEMMA InvHolds ==
  ASSUME Tame
  PROVE  Spec => [](Inv /\ HeirsOwned)
  <1>1. Init => Inv /\ HeirsOwned
    <2>1. Init => \A f \in Folders : heir[f] = {}
      BY DEF Init
    <2>2. QED BY <2>1, InitOK DEF Inv, HeirsOwned
  <1>2. Inv /\ HeirsOwned /\ [Next]_vars => (Inv /\ HeirsOwned)'
    <2>1. UNCHANGED vars /\ HeirsOwned => HeirsOwned'
      BY HeirsKept DEF vars
    <2>2. QED BY <2>1, NextOK, HeirsOwnedAfter DEF Inv
  <1>3. QED BY <1>1, <1>2, PTL DEF Spec

\* Files, semaphores and compactors stay well formed, whatever the number of
\* crashes and the files they leave behind: no message is twice in a file.
THEOREM TypeCorrect ==
  ASSUME Tame
  PROVE  Spec => []TypeOK
  <1>1. Inv => TypeOK
    BY DEF Inv, IInv
  <1>2. QED BY <1>1, InvHolds, PTL

\* A summary (.msf file) the program trusts has every live message of its mailbox
\* at its offset, and no other of them: after a compaction, a reparse or a
\* delivery, at whatever file operation FinishCompact was interrupted, and also
\* when the new database was one that a crash had left, with rows of its own.
THEOREM SummariesAgree ==
  ASSUME Tame
  PROVE  Spec => []SummaryAgrees
  <1>1. Inv => SummaryAgrees
    BY DEF Inv, IInv, SummaryOK, SummaryAgrees
  <1>2. QED BY <1>1, InvHolds, PTL

\* Compaction implements MailStore: a folder has the messages delivered to it and
\* not deleted by the user, whatever is compacted, reparsed or interrupted, until
\* a crash between removing a mailbox and renaming its copy empties that folder;
\* no crash empties two, and what is lost that way is in no folder again.
THEOREM NothingLost ==
  ASSUME Tame
  PROVE  Spec => MailStoreSpec
  <1>1. Init => Store!Init
    BY StartOfMailStore
  <1>2. Inv /\ HeirsOwned /\ [Next]_vars => [Store!Next]_(Store!vars)
    BY StepOfMailStore DEF Inv
  <1>3. QED
    BY <1>1, <1>2, InvHolds, PTL DEF Spec, MailStoreSpec, Store!Spec
==============================================================================
