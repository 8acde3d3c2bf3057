------------------------------ MODULE CopyLedger ------------------------------
(***************************************************************************)
(* What the copy service promises its callers, without its queue, flags    *)
(* and call stack: each destination folder serves the requests made for it *)
(* one at a time and in the order they were made, and each request is      *)
(* settled once.                                                           *)
(***************************************************************************)
EXTENDS Naturals

CONSTANT Folders

VARIABLES
  tickets,   \* number of requests made; a request is known by its ticket
  pending,   \* requests not settled yet: ticket, destination, and whether
             \* there is no folder to transfer messages from
  serving,   \* tickets whose copy has been started
  settled    \* verdicts given to the callers

ledger == <<tickets, pending, serving, settled>>

TypeOK ==
  /\ tickets \in Nat
  /\ pending \subseteq [id: Nat, dst: Folders, vacuous: BOOLEAN]
  /\ serving \subseteq Nat
  /\ settled \subseteq [id: Nat, ok: BOOLEAN]

Init ==
  /\ tickets = 0
  /\ pending = {}
  /\ serving = {}
  /\ settled = {}

Request(d, vacuous) ==
  /\ tickets' = tickets + 1
  /\ pending' =
       pending \cup {[id |-> tickets + 1, dst |-> d, vacuous |-> vacuous]}
  /\ UNCHANGED <<serving, settled>>

\* Only the oldest request for a destination may be served.
Serve(p) ==
  /\ \A q \in pending : q.dst = p.dst => p.id <= q.id
  /\ serving' = serving \cup {p.id}
  /\ UNCHANGED <<tickets, pending, settled>>

\* A request that is waiting may be given up, but success is only reported
\* for one that was served or that had nothing to transfer.
Settle(p, ok) ==
  /\ ok => p.id \in serving \/ p.vacuous
  /\ pending' = pending \ {p}
  /\ settled' = settled \cup {[id |-> p.id, ok |-> ok]}
  /\ UNCHANGED <<tickets, serving>>

Next ==
  \/ \E d \in Folders, vacuous \in BOOLEAN : Request(d, vacuous)
  \/ \E p \in pending : Serve(p)
  \/ \E p \in pending, ok \in BOOLEAN : Settle(p, ok)

Spec == Init /\ [][Next]_ledger
==============================================================================
