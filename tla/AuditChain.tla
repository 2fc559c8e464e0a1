------------------------------ MODULE AuditChain ------------------------------
(***************************************************************************)
(* The audit trail in PostgreSQL: concurrent calls of                      *)
(* PostgresInvestigationRepository.audit, each a transaction of its own    *)
(* that reads the last row FOR UPDATE, computes the next link of the hash  *)
(* chain and inserts it.                                                   *)
(*                                                                         *)
(* The transactions are READ COMMITTED.  A SELECT that waits for the lock  *)
(* of the row it has found gets THAT row when the lock is free, even when  *)
(* a newer row was committed in between; and on an empty table there is    *)
(* nothing to lock.  What keeps the chain from forking is the unique index *)
(* on sequence: the insert waits for another insert of the same sequence   *)
(* that is not committed yet, and raises when it is.                       *)
(***************************************************************************)
EXTENDS Integers

CONSTANTS
  Calls,           \* the calls of audit, each with an event of its own
  Sha256(_),       \* the digest of a canonical document
  GENESIS_HASH,
  MaxMishaps       \* bound of the model: connection errors

ASSUME ChainAssumption ==
  /\ MaxMishaps \in Nat
  /\ Calls # {}

VARIABLES
  rows,            \* audit.events, by sequence: what is committed
  pc,              \* [Calls -> where the call is]
  top,             \* [Calls -> sequence of the last row it has read, 0 if none]
  mishaps

vars == <<rows, pc, top, mishaps>>

Pc == {"begin", "wait", "insert", "inserted", "returned", "raised"}
Ended(c) == pc[c] \in {"returned", "raised"}

-----------------------------------------------------------------------------
(***************************************************************************)
(* calculate_event_hash; a mutant that leaves the document out.            *)
(***************************************************************************)
MutantHashesLinkOnly(sequence, event, previous_hash) ==
  Sha256([sequence |-> sequence, previous_hash |-> previous_hash])

calculate_event_hash(sequence, event, previous_hash) ==
  Sha256([sequence |-> sequence, event |-> event, previous_hash |-> previous_hash])

(***************************************************************************)
(* The row with the greatest sequence below n, or none: 0.                 *)
(***************************************************************************)
Below(table, n) ==
  IF \E i \in DOMAIN table : i < n
  THEN CHOOSE i \in DOMAIN table :
         i < n /\ \A k \in DOMAIN table : k < n => k <= i
  ELSE 0

HashOf(table, n) == IF n = 0 THEN GENESIS_HASH ELSE table[n].event_hash

(***************************************************************************)
(* verify_chain: the sequences of the rows that do not continue the chain. *)
(***************************************************************************)
verify_chain(table) ==
  {n \in DOMAIN table :
     LET previous == HashOf(table, Below(table, n)) IN
     \/ table[n].previous_hash # previous
     \/ table[n].event_hash # calculate_event_hash(n, table[n].event, previous)}

(***************************************************************************)
(* The row a call inserts.  Mutants: a first sequence of 2; a hash over    *)
(* the sequence that was read.                                             *)
(***************************************************************************)
MutantStartsAtTwo(c) == (IF top[c] = 0 THEN 1 ELSE top[c]) + 1
NextSequence(c) == top[c] + 1

MutantHashesSequenceRead(c) ==
  LET previous == HashOf(rows, top[c]) IN
  [event |-> c, previous_hash |-> previous,
   event_hash |-> calculate_event_hash(top[c], c, previous)]

Link(c) ==
  LET previous == HashOf(rows, top[c]) IN
  [event |-> c, previous_hash |-> previous,
   event_hash |-> calculate_event_hash(NextSequence(c), c, previous)]

-----------------------------------------------------------------------------
(***************************************************************************)
(* The table and its locks.                                                *)
(***************************************************************************)
LastOf(table) ==
  IF DOMAIN table = {} THEN 0
  ELSE CHOOSE n \in DOMAIN table : \A i \in DOMAIN table : i <= n

Latest == LastOf(rows)

MutantKeepsLock(c) == pc[c] \in {"insert", "inserted", "raised"}
InTransaction(c) == pc[c] \in {"insert", "inserted"}

(***************************************************************************)
(* Row n is locked FOR UPDATE by another call.                             *)
(***************************************************************************)
LockedByOther(c, n) == n # 0 /\ \E d \in Calls \ {c} : InTransaction(d) /\ top[d] = n

Goto(c, p) == pc' = [pc EXCEPT ![c] = p]
Mishap == mishaps < MaxMishaps /\ mishaps' = mishaps + 1

(***************************************************************************)
(* SELECT ... ORDER BY sequence DESC LIMIT 1 FOR UPDATE.                   *)
(***************************************************************************)
Select(c) ==
  /\ pc[c] = "begin"
  /\ top' = [top EXCEPT ![c] = Latest]
  /\ Goto(c, IF LockedByOther(c, Latest) THEN "wait" ELSE "insert")
  /\ UNCHANGED <<rows, mishaps>>

(***************************************************************************)
(* The lock is granted, for the row that was found.                        *)
(***************************************************************************)
LockGranted(c) ==
  /\ pc[c] = "wait"
  /\ ~LockedByOther(c, top[c])
  /\ Goto(c, "insert")
  /\ UNCHANGED <<rows, top, mishaps>>

(***************************************************************************)
(* The unique index on sequence.  Mutants: no index; an index that raises  *)
(* without waiting for the other insert to commit.                         *)
(***************************************************************************)
MutantNoIndex(c) == FALSE
Taken(c) == NextSequence(c) \in DOMAIN rows

PendingInsert(c) == \E d \in Calls \ {c} : pc[d] = "inserted" /\ top[d] = top[c]

MutantDoesNotWait(c) ==
  /\ pc[c] = "insert"
  /\ Goto(c, IF Taken(c) \/ PendingInsert(c) THEN "raised" ELSE "inserted")
  /\ UNCHANGED <<rows, top, mishaps>>

Insert(c) ==
  /\ pc[c] = "insert"
  /\ ~PendingInsert(c)
  /\ Goto(c, IF Taken(c) THEN "raised" ELSE "inserted")
  /\ UNCHANGED <<rows, top, mishaps>>

(***************************************************************************)
(* The table with the new row; a mutant that also touches the last one.    *)
(***************************************************************************)
MutantRewrites(c) ==
  [n \in DOMAIN rows \cup {NextSequence(c)} |->
     IF n = NextSequence(c) THEN Link(c) ELSE [rows[n] EXCEPT !.event = c]]
Inserted(c) ==
  [n \in DOMAIN rows \cup {NextSequence(c)} |->
     IF n = NextSequence(c) THEN Link(c) ELSE rows[n]]

Commit(c) ==
  /\ pc[c] = "inserted"
  /\ rows' = Inserted(c)
  /\ Goto(c, "returned")
  /\ UNCHANGED <<top, mishaps>>

(***************************************************************************)
(* The connection breaks: before the commit the transaction is rolled      *)
(* back, during the commit it may be done although the caller sees an      *)
(* error.                                                                  *)
(***************************************************************************)
Abort(c) ==
  /\ Mishap
  /\ ~Ended(c)
  /\ Goto(c, "raised")
  /\ UNCHANGED <<rows, top>>

CommitUnacknowledged(c) ==
  /\ Mishap
  /\ pc[c] = "inserted"
  /\ rows' = Inserted(c)
  /\ Goto(c, "raised")
  /\ UNCHANGED top

-----------------------------------------------------------------------------
Init ==
  /\ rows = [n \in 1..0 |-> 0]
  /\ pc = [c \in Calls |-> "begin"]
  /\ top = [c \in Calls |-> 0]
  /\ mishaps = 0

CallStep(c) == Select(c) \/ LockGranted(c) \/ Insert(c) \/ Commit(c)

Next == \E c \in Calls : CallStep(c) \/ Abort(c) \/ CommitUnacknowledged(c)

Spec == Init /\ [][Next]_vars

(***************************************************************************)
(* The database goes on with every transaction it can go on with.          *)
(***************************************************************************)
FairSpec == Spec /\ \A c \in Calls : WF_vars(CallStep(c))

-----------------------------------------------------------------------------
(***************************************************************************)
(* Properties.                                                             *)
(***************************************************************************)

(***************************************************************************)
(* Type invariant; the sequences of the rows are 1..n.                     *)
(***************************************************************************)
TypeOK ==
  /\ Latest \in Nat /\ DOMAIN rows = 1..Latest
  /\ \A n \in DOMAIN rows : rows[n].event \in Calls
  /\ pc \in [Calls -> Pc]
  /\ top \in [Calls -> Nat]
  /\ mishaps \in Nat

(***************************************************************************)
(* Whoever verifies the chain, at whatever moment, finds no invalid        *)
(* sequence: racing calls never fork it (audit_chain.py 47-62,             *)
(* postgres_repository.py 334-367).                                        *)
(***************************************************************************)
ChainVerifies == verify_chain(rows) = {}

(***************************************************************************)
(* An event that is altered in the table is found, and only it             *)
(* (tests/security/test_audit_chain.py).                                   *)
(***************************************************************************)
AlterationFlagged ==
  \A n \in DOMAIN rows : \A e \in Calls \ {rows[n].event} :
    verify_chain([rows EXCEPT ![n].event = e]) = {n}

(***************************************************************************)
(* The chain is tamper-evident: whoever verifies it finds nothing while    *)
(* calls race and connections break (audit_chain.py 47-62), and exactly    *)
(* the event that was altered afterwards.                                  *)
(***************************************************************************)
TamperEvident == ChainVerifies /\ AlterationFlagged

(***************************************************************************)
(* audit returns only when its event is in the table, and an event is in   *)
(* the table of a call that raised only when the connection broke in its   *)
(* commit.                                                                 *)
(***************************************************************************)
AcknowledgedIsRecorded ==
  \A c \in Calls :
    /\ pc[c] = "returned" => \E n \in DOMAIN rows : rows[n].event = c
    /\ pc[c] # "returned" /\ mishaps = 0 => \A n \in DOMAIN rows : rows[n].event # c

(***************************************************************************)
(* Without an error of the connection a call loses its event only to       *)
(* another call, which has committed the sequence it wanted: concurrent    *)
(* calls do not all fail.                                                  *)
(***************************************************************************)
LossHasWinner ==
  \A c \in Calls :
    pc[c] = "raised" /\ mishaps = 0
      => /\ NextSequence(c) \in DOMAIN rows
         /\ pc[rows[NextSequence(c)].event] = "returned"

(***************************************************************************)
(* Every call is accounted for by the table: what was acknowledged is      *)
(* there, what was refused is not, and was refused for a call that is      *)
(* (postgres_repository.py 334-367).                                       *)
(***************************************************************************)
CallsAccountedFor == AcknowledgedIsRecorded /\ LossHasWinner

(***************************************************************************)
(* The table is an append-only log.                                        *)
(***************************************************************************)
Log == INSTANCE AppendOnlyLog
         WITH Events <- Calls, log <- [n \in DOMAIN rows |-> rows[n].event]

LogSpec == Log!LogSpec

(***************************************************************************)
(* No call of audit waits for ever: the locks do not deadlock.             *)
(***************************************************************************)
EveryCallEnds == <>(\A c \in Calls : Ended(c))

=============================================================================
