--------------------------- MODULE AuditChain_proofs ---------------------------
(***************************************************************************)
(* Proofs about the audit chain, for any number of concurrent calls and    *)
(* any digest.                                                             *)
(***************************************************************************)
EXTENDS AuditChain, TLAPS

(***************************************************************************)
(* The last row of a table numbered 1..k, and the row below row n.         *)
(***************************************************************************)
LEMMA LastLemma ==
  ASSUME NEW t, NEW k \in Nat, DOMAIN t = 1..k
  PROVE  LastOf(t) = k
<1>1. CASE k = 0
  BY <1>1 DEF LastOf
<1>2. CASE k # 0
  <2>1. k \in DOMAIN t /\ \A i \in DOMAIN t : i <= k
    BY <1>2
  <2>2. \A n \in DOMAIN t : (\A i \in DOMAIN t : i <= n) => n = k
    BY <2>1
  <2> QED BY <2>1, <2>2 DEF LastOf
<1> QED BY <1>1, <1>2

LEMMA BelowLemma ==
  ASSUME NEW t, NEW k \in Nat, DOMAIN t = 1..k, NEW n \in 1..k
  PROVE  Below(t, n) = n - 1
<1>1. CASE n = 1
  BY <1>1 DEF Below
<1>2. CASE n # 1
  <2> DEFINE P(i) == i < n /\ \A j \in DOMAIN t : j < n => j <= i
  <2>1. n - 1 \in DOMAIN t /\ P(n - 1)
    BY <1>2
  <2>2. \A i \in DOMAIN t : P(i) => i = n - 1
    BY <2>1
  <2> QED BY <2>1, <2>2 DEF Below
<1> QED BY <1>1, <1>2

-----------------------------------------------------------------------------
(***************************************************************************)
(* The inductive invariant: every row continues the row before it; a call  *)
(* that has read a row has read a committed one; a call whose insert was   *)
(* accepted is alone and has read the last row.                            *)
(***************************************************************************)
Linked ==
  \A n \in DOMAIN rows :
    /\ rows[n].previous_hash = HashOf(rows, n - 1)
    /\ rows[n].event_hash = calculate_event_hash(n, rows[n].event, HashOf(rows, n - 1))

ReadsCommitted ==
  \A c \in Calls : pc[c] \in {"wait", "insert", "inserted"} => top[c] \in 0..Latest

InsertsAtEnd ==
  \A c \in Calls :
    pc[c] = "inserted" =>
      /\ top[c] = Latest
      /\ \A d \in Calls \ {c} : pc[d] # "inserted"

EventsOnce ==
  /\ \A n \in DOMAIN rows : Ended(rows[n].event)
  /\ \A m, n \in DOMAIN rows : rows[m].event = rows[n].event => m = n

ChainInv ==
  /\ TypeOK
  /\ Linked
  /\ ReadsCommitted
  /\ InsertsAtEnd
  /\ EventsOnce
  /\ AcknowledgedIsRecorded

LEMMA ChainInitInv == Init => ChainInv
<1> SUFFICES ASSUME Init PROVE ChainInv
  OBVIOUS
<1>1. DOMAIN rows = {}
  BY DEF Init
<1>2. Latest = 0
  BY <1>1 DEF Latest, LastOf
<1> QED
  BY <1>1, <1>2, ChainAssumption
     DEF Init, ChainInv, TypeOK, Linked, ReadsCommitted, InsertsAtEnd, EventsOnce,
         AcknowledgedIsRecorded, Pc

(***************************************************************************)
(* What a commit makes of the table.                                       *)
(***************************************************************************)
LEMMA InsertedLemma ==
  ASSUME ChainInv, NEW c \in Calls, pc[c] = "inserted", rows' = Inserted(c)
  PROVE  /\ DOMAIN rows' = 1..(Latest + 1)
         /\ Latest' = Latest + 1
         /\ rows'[Latest + 1] = Link(c)
         /\ \A n \in DOMAIN rows : rows'[n] = rows[n]
<1>1. Latest \in Nat /\ DOMAIN rows = 1..Latest /\ NextSequence(c) = Latest + 1
  BY DEF ChainInv, TypeOK, InsertsAtEnd, NextSequence
<1>2. DOMAIN rows' = 1..Latest \cup {Latest + 1}
  BY <1>1 DEF Inserted
<1>3. DOMAIN rows' = 1..(Latest + 1)
  BY <1>1, <1>2
<1>4. Latest' = Latest + 1
  BY <1>1, <1>3, LastLemma DEF Latest
<1> QED BY <1>1, <1>3, <1>4 DEF Inserted

(***************************************************************************)
(* A step that leaves the table alone.                                     *)
(***************************************************************************)
LEMMA QuietStep ==
  ASSUME ChainInv, UNCHANGED rows, NEW c \in Calls,
         Select(c) \/ LockGranted(c) \/ Insert(c) \/ Abort(c)
  PROVE  ChainInv'
<1>0. /\ Latest \in Nat /\ Latest' = Latest /\ DOMAIN rows = 1..Latest
      /\ pc \in [Calls -> Pc] /\ top \in [Calls -> Nat] /\ mishaps \in Nat
  BY DEF ChainInv, TypeOK, Latest
<1>1. /\ \A d \in Calls \ {c} : pc'[d] = pc[d] /\ top'[d] = top[d]
      /\ pc'[c] \in Pc /\ pc'[c] # "returned"
      /\ mishaps' \in Nat /\ (mishaps' = 0 => mishaps = 0)
      /\ ~Ended(c)
  BY <1>0 DEF Select, LockGranted, Insert, Abort, Goto, Mishap, Pc, Ended
<1>2. pc' \in [Calls -> Pc] /\ top' \in [Calls -> Nat]
  BY <1>0 DEF Select, LockGranted, Insert, Abort, Goto, Pc
<1>3. TypeOK'
  BY <1>0, <1>1, <1>2 DEF ChainInv, TypeOK
<1>4. Linked'
  BY DEF ChainInv, Linked, HashOf
<1>5. ReadsCommitted'
  BY <1>0, <1>1 DEF ChainInv, ReadsCommitted, Select, LockGranted, Insert, Abort, Goto
<1>6. InsertsAtEnd'
  <2>1. CASE pc'[c] # "inserted"
    BY <1>0, <1>1, <2>1 DEF ChainInv, InsertsAtEnd
  <2>2. CASE pc'[c] = "inserted"
    <3>1. Insert(c) /\ pc[c] = "insert" /\ ~PendingInsert(c) /\ ~Taken(c) /\ UNCHANGED top
      BY <1>0, <2>2 DEF Select, LockGranted, Insert, Abort, Goto
    <3>2. top[c] \in 0..Latest /\ top[c] + 1 \notin 1..Latest
      BY <1>0, <3>1 DEF ChainInv, ReadsCommitted, Taken, NextSequence
    <3>3. top[c] = Latest
      BY <1>0, <3>2
    <3>4. \A d \in Calls \ {c} : pc[d] # "inserted"
      BY <3>1, <3>3 DEF ChainInv, InsertsAtEnd, PendingInsert
    <3> QED BY <1>0, <1>1, <3>1, <3>3, <3>4 DEF InsertsAtEnd
  <2> QED BY <2>1, <2>2
<1>7. EventsOnce'
  BY <1>1 DEF ChainInv, TypeOK, EventsOnce, Ended
<1>8. AcknowledgedIsRecorded'
  <2>1. \A d \in Calls : (pc'[d] = "returned" <=> pc[d] = "returned")
    BY <1>1 DEF Ended
  <2> QED BY <1>1, <2>1 DEF ChainInv, AcknowledgedIsRecorded
<1> QED BY <1>3, <1>4, <1>5, <1>6, <1>7, <1>8 DEF ChainInv

(***************************************************************************)
(* A commit, acknowledged or not.                                          *)
(***************************************************************************)
LEMMA CommitStep ==
  ASSUME ChainInv, NEW c \in Calls, Commit(c) \/ CommitUnacknowledged(c)
  PROVE  ChainInv'
<1>0. /\ Latest \in Nat /\ DOMAIN rows = 1..Latest
      /\ pc \in [Calls -> Pc] /\ top \in [Calls -> Nat] /\ mishaps \in Nat
      /\ \A n \in DOMAIN rows : rows[n].event \in Calls
  BY DEF ChainInv, TypeOK
<1>1. /\ pc[c] = "inserted" /\ rows' = Inserted(c)
      /\ UNCHANGED top
      /\ \A d \in Calls \ {c} : pc'[d] = pc[d]
      /\ pc' \in [Calls -> Pc]
      /\ pc'[c] \in {"returned", "raised"}
      /\ mishaps' \in Nat /\ (mishaps' = 0 => mishaps = 0 /\ pc'[c] = "returned")
  BY <1>0 DEF Commit, CommitUnacknowledged, Goto, Mishap, Pc
<1>2. /\ DOMAIN rows' = 1..(Latest + 1)
      /\ Latest' = Latest + 1
      /\ rows'[Latest + 1] = Link(c)
      /\ \A n \in 1..Latest : rows'[n] = rows[n]
  BY <1>0, <1>1, InsertedLemma
<1>3. Link(c).event = c /\ top[c] = Latest /\ \A d \in Calls \ {c} : pc[d] # "inserted"
  BY <1>1 DEF Link, ChainInv, InsertsAtEnd
<1>4. TypeOK'
  BY <1>0, <1>1, <1>2, <1>3 DEF TypeOK
<1>5. \A n \in 0..Latest : HashOf(rows, n)' = HashOf(rows, n)
  BY <1>0, <1>2 DEF HashOf
<1>6. Linked'
  <2>1. ASSUME NEW n \in 1..Latest
        PROVE  /\ rows'[n].previous_hash = HashOf(rows', n - 1)
               /\ rows'[n].event_hash
                    = calculate_event_hash(n, rows'[n].event, HashOf(rows', n - 1))
    <3>1. rows'[n] = rows[n] /\ n - 1 \in 0..Latest
      BY <1>0, <1>2
    <3>2. HashOf(rows', n - 1) = HashOf(rows, n - 1)
      BY <1>5, <3>1
    <3>3. /\ rows[n].previous_hash = HashOf(rows, n - 1)
          /\ rows[n].event_hash = calculate_event_hash(n, rows[n].event, HashOf(rows, n - 1))
      BY <1>0, Zenon DEF ChainInv, Linked
    <3> QED BY <3>1, <3>2, <3>3
  <2>2. /\ Link(c).previous_hash = HashOf(rows, Latest)
        /\ Link(c).event_hash = calculate_event_hash(Latest + 1, c, HashOf(rows, Latest))
    BY <1>3 DEF Link, NextSequence
  <2> QED BY <1>0, <1>2, <1>3, <1>5, <2>1, <2>2 DEF Linked
<1>7. ReadsCommitted'
  BY <1>0, <1>1, <1>2 DEF ChainInv, ReadsCommitted
<1>8. InsertsAtEnd'
  BY <1>1, <1>3 DEF InsertsAtEnd
<1>9. EventsOnce'
  <2>1. \A n \in 1..Latest : rows[n].event # c
    BY <1>0, <1>1 DEF ChainInv, EventsOnce, Ended
  <2>2. rows'[Latest + 1].event = c /\ Ended(c)'
    BY <1>1, <1>2, <1>3 DEF Ended
  <2>3. ASSUME NEW n \in 1..Latest
        PROVE  /\ rows'[n].event = rows[n].event /\ rows[n].event \in Calls \ {c}
               /\ pc'[rows[n].event] \in {"returned", "raised"}
    BY <1>0, <1>1, <1>2, <2>1 DEF ChainInv, EventsOnce, Ended
  <2>4. \A n \in 1..(Latest + 1) : n = Latest + 1 \/ n \in 1..Latest
    BY <1>0
  <2>5. \A n \in DOMAIN rows' : pc'[rows'[n].event] \in {"returned", "raised"}
    <3> SUFFICES ASSUME NEW n \in 1..(Latest + 1)
                 PROVE  pc'[rows'[n].event] \in {"returned", "raised"}
      BY <1>2
    <3>1. CASE n = Latest + 1
      BY <1>1, <2>2, <3>1
    <3>2. CASE n \in 1..Latest
      BY <2>3, <3>2
    <3> QED BY <2>4, <3>1, <3>2
  <2>6. \A m, n \in 1..Latest : rows[m].event = rows[n].event => m = n
    BY <1>0 DEF ChainInv, EventsOnce
  <2>7. \A m, n \in DOMAIN rows' : rows'[m].event = rows'[n].event => m = n
    <3> SUFFICES ASSUME NEW m \in 1..(Latest + 1), NEW n \in 1..(Latest + 1),
                        rows'[m].event = rows'[n].event
                 PROVE  m = n
      BY <1>2
    <3>1. CASE m \in 1..Latest /\ n \in 1..Latest
      BY <2>3, <2>6, <3>1
    <3>2. CASE m = Latest + 1 /\ n = Latest + 1
      BY <3>2
    <3>3. CASE m = Latest + 1 /\ n \in 1..Latest
      BY <2>2, <2>3, <3>3
    <3>4. CASE m \in 1..Latest /\ n = Latest + 1
      BY <2>2, <2>3, <3>4
    <3> QED BY <2>4, <3>1, <3>2, <3>3, <3>4
  <2> QED BY <2>5, <2>7 DEF EventsOnce, Ended
<1>10. AcknowledgedIsRecorded'
  <2>1. Latest + 1 \in DOMAIN rows' /\ rows'[Latest + 1].event = c
    BY <1>0, <1>2, <1>3
  <2>2. \A n \in 1..Latest : n \in DOMAIN rows' /\ rows'[n].event = rows[n].event
    BY <1>0, <1>2
  <2>3. \A n \in DOMAIN rows' : n = Latest + 1 \/ n \in 1..Latest
    BY <1>0, <1>2
  <2>4. ASSUME NEW d \in Calls \ {c}
        PROVE  /\ pc'[d] = "returned" => \E n \in DOMAIN rows' : rows'[n].event = d
               /\ pc'[d] # "returned" /\ mishaps' = 0
                    => \A n \in DOMAIN rows' : rows'[n].event # d
    <3>1. pc'[d] = pc[d] /\ d # c
      BY <1>1
    <3>2. pc[d] = "returned" => \E n \in 1..Latest : rows[n].event = d
      BY <1>0 DEF ChainInv, AcknowledgedIsRecorded
    <3>3. pc[d] # "returned" /\ mishaps = 0 => \A n \in 1..Latest : rows[n].event # d
      BY <1>0 DEF ChainInv, AcknowledgedIsRecorded
    <3>4. pc'[d] = "returned" => \E n \in DOMAIN rows' : rows'[n].event = d
      BY <2>2, <3>1, <3>2
    <3>5. pc'[d] # "returned" /\ mishaps' = 0 => \A n \in DOMAIN rows' : rows'[n].event # d
      BY <1>1, <2>1, <2>2, <2>3, <3>1, <3>3
    <3> QED BY <3>4, <3>5
  <2>5. pc'[c] # "returned" => mishaps' # 0
    BY <1>1
  <2>6. \E n \in DOMAIN rows' : rows'[n].event = c
    BY <2>1
  <2> QED BY <2>4, <2>5, <2>6 DEF AcknowledgedIsRecorded
<1> QED BY <1>4, <1>6, <1>7, <1>8, <1>9, <1>10 DEF ChainInv

LEMMA ChainStepInv == ChainInv /\ [Next]_vars => ChainInv'
<1> SUFFICES ASSUME ChainInv, [Next]_vars PROVE ChainInv'
  OBVIOUS
<1>1. CASE UNCHANGED vars
  BY <1>1
     DEF vars, ChainInv, TypeOK, Latest, Linked, ReadsCommitted, InsertsAtEnd, EventsOnce, Ended,
         AcknowledgedIsRecorded
<1>2. ASSUME NEW c \in Calls, Select(c) \/ LockGranted(c) \/ Insert(c) \/ Abort(c)
      PROVE  ChainInv'
  <2>1. UNCHANGED rows
    BY <1>2 DEF Select, LockGranted, Insert, Abort
  <2> QED BY <1>2, <2>1, QuietStep
<1>3. ASSUME NEW c \in Calls, Commit(c) \/ CommitUnacknowledged(c)
      PROVE  ChainInv'
  BY <1>3, CommitStep
<1> QED BY <1>1, <1>2, <1>3 DEF Next, CallStep

THEOREM ChainInvariant == Spec => []ChainInv
<1> QED BY ChainInitInv, ChainStepInv, PTL DEF Spec

(***************************************************************************)
(* The sequences of the trail are 1..n and its types are kept.             *)
(***************************************************************************)
THEOREM ChainTypeOK == Spec => []TypeOK
<1>1. ChainInv => TypeOK
  BY DEF ChainInv
<1> QED BY <1>1, ChainInvariant, PTL

(***************************************************************************)
(* verify_chain finds nothing invalid, however many calls race and         *)
(* whatever connections break (audit_chain.py 47-62).                      *)
(***************************************************************************)
THEOREM ChainAlwaysVerifies == Spec => []ChainVerifies
<1>1. ASSUME ChainInv PROVE ChainVerifies
  <2>1. Latest \in Nat /\ DOMAIN rows = 1..Latest
    BY <1>1 DEF ChainInv, TypeOK
  <2>2. \A n \in DOMAIN rows : Below(rows, n) = n - 1
    BY <2>1, BelowLemma
  <2>3. \A n \in DOMAIN rows :
          /\ rows[n].previous_hash = HashOf(rows, Below(rows, n))
          /\ rows[n].event_hash
               = calculate_event_hash(n, rows[n].event, HashOf(rows, Below(rows, n)))
    BY <1>1, <2>2 DEF ChainInv, Linked
  <2> QED BY <2>3 DEF ChainVerifies, verify_chain
<1> QED BY <1>1, ChainInvariant, PTL

(***************************************************************************)
(* A call that lost, without an error of the connection, to a sequence     *)
(* that another call has taken; and the rows are records of three fields.  *)
(***************************************************************************)
LostToRow ==
  \A c \in Calls : pc[c] = "raised" /\ mishaps = 0 => NextSequence(c) \in DOMAIN rows

RowsAreLinks ==
  \A n \in DOMAIN rows :
    rows[n] = [event |-> rows[n].event, previous_hash |-> rows[n].previous_hash,
               event_hash |-> rows[n].event_hash]

LEMMA RowsStep ==
  ASSUME ChainInv, LostToRow, RowsAreLinks, [Next]_vars
  PROVE  LostToRow' /\ RowsAreLinks'
<1>0. /\ Latest \in Nat /\ DOMAIN rows = 1..Latest /\ mishaps \in Nat
      /\ pc \in [Calls -> Pc] /\ top \in [Calls -> Nat]
  BY DEF ChainInv, TypeOK
<1>1. CASE UNCHANGED vars
  BY <1>1 DEF vars, LostToRow, RowsAreLinks, NextSequence
<1>2. ASSUME NEW c \in Calls, Select(c) \/ LockGranted(c) \/ Insert(c) \/ Abort(c)
      PROVE  LostToRow' /\ RowsAreLinks'
  <2>1. UNCHANGED rows
    BY <1>2 DEF Select, LockGranted, Insert, Abort
  <2>2. /\ \A d \in Calls \ {c} : pc'[d] = pc[d] /\ top'[d] = top[d]
        /\ mishaps' = 0 => mishaps = 0
    BY <1>0, <1>2 DEF Select, LockGranted, Insert, Abort, Goto, Mishap
  <2>3. pc'[c] = "raised" /\ mishaps' = 0 => top'[c] = top[c] /\ Taken(c)
    BY <1>0, <1>2 DEF Select, LockGranted, Insert, Abort, Goto, Mishap
  <2> QED BY <2>1, <2>2, <2>3 DEF LostToRow, RowsAreLinks, NextSequence, Taken
<1>3. ASSUME NEW c \in Calls, Commit(c) \/ CommitUnacknowledged(c)
      PROVE  LostToRow' /\ RowsAreLinks'
  <2>1. /\ pc[c] = "inserted" /\ rows' = Inserted(c) /\ UNCHANGED top
        /\ \A d \in Calls \ {c} : pc'[d] = pc[d]
        /\ mishaps' = 0 => mishaps = 0 /\ pc'[c] = "returned"
    BY <1>0, <1>3 DEF Commit, CommitUnacknowledged, Goto, Mishap
  <2>2. /\ DOMAIN rows' = 1..(Latest + 1)
        /\ rows'[Latest + 1] = Link(c)
        /\ \A n \in DOMAIN rows : rows'[n] = rows[n]
    BY <2>1, InsertedLemma
  <2>3. LostToRow'
    BY <1>0, <2>1, <2>2 DEF LostToRow, NextSequence
  <2>4. RowsAreLinks'
    <3> SUFFICES ASSUME NEW n \in DOMAIN rows'
                 PROVE  rows'[n] = [event |-> rows'[n].event,
                                    previous_hash |-> rows'[n].previous_hash,
                                    event_hash |-> rows'[n].event_hash]
      BY DEF RowsAreLinks
    <3>1. CASE n = Latest + 1
      BY <2>2, <3>1 DEF Link
    <3>2. CASE n # Latest + 1
      BY <1>0, <2>2, <3>2 DEF RowsAreLinks
    <3> QED BY <3>1, <3>2
  <2> QED BY <2>3, <2>4
<1> QED BY <1>1, <1>2, <1>3 DEF Next, CallStep

LEMMA RowsInv == Spec => [](LostToRow /\ RowsAreLinks)
<1>1. Init => LostToRow /\ RowsAreLinks
  BY DEF Init, LostToRow, RowsAreLinks
<1>2. ChainInv /\ LostToRow /\ RowsAreLinks /\ [Next]_vars => (LostToRow /\ RowsAreLinks)'
  BY RowsStep
<1> QED BY <1>1, <1>2, ChainInvariant, PTL DEF Spec

(***************************************************************************)
(* What audit acknowledged is in the trail, what it refused is not, and    *)
(* was refused for a call whose event is.                                  *)
(***************************************************************************)
THEOREM ChainAccountsForCalls == Spec => []CallsAccountedFor
<1>1. ASSUME ChainInv, LostToRow PROVE CallsAccountedFor
  <2>1. AcknowledgedIsRecorded
    BY <1>1 DEF ChainInv
  <2>2. ASSUME NEW c \in Calls, pc[c] = "raised", mishaps = 0
        PROVE  /\ NextSequence(c) \in DOMAIN rows
               /\ pc[rows[NextSequence(c)].event] = "returned"
    <3>1. NextSequence(c) \in DOMAIN rows
      BY <1>1, <2>2 DEF LostToRow
    <3>2. rows[NextSequence(c)].event \in Calls
      BY <1>1, <3>1 DEF ChainInv, TypeOK
    <3> QED BY <2>1, <2>2, <3>1, <3>2 DEF AcknowledgedIsRecorded
  <2> QED BY <2>1, <2>2 DEF CallsAccountedFor, LossHasWinner
<1> QED BY <1>1, ChainInvariant, RowsInv, PTL

(***************************************************************************)
(* With a digest without collisions an altered event is found, and nothing *)
(* else: the links are over the hashes, which an altered event keeps.      *)
(***************************************************************************)
LEMMA AlteredRow ==
  ASSUME \A x, y : Sha256(x) = Sha256(y) => x = y,
         ChainInv, RowsAreLinks, NEW n \in DOMAIN rows, NEW e \in Calls \ {rows[n].event}
  PROVE  verify_chain([rows EXCEPT ![n].event = e]) = {n}
<1> DEFINE t == [rows EXCEPT ![n].event = e]
<1>0. Latest \in Nat /\ DOMAIN rows = 1..Latest
  BY DEF ChainInv, TypeOK
<1>1. DOMAIN t = 1..Latest
  BY <1>0
<1>2. \A m \in DOMAIN t : Below(t, m) = m - 1
  BY <1>0, <1>1, BelowLemma
<1>3. /\ t[n].event = e
      /\ t[n].previous_hash = rows[n].previous_hash
      /\ t[n].event_hash = rows[n].event_hash
  BY DEF RowsAreLinks
<1>4. \A m \in DOMAIN rows \ {n} : t[m] = rows[m]
  OBVIOUS
<1>5. \A m \in 0..Latest : HashOf(t, m) = HashOf(rows, m)
  BY <1>0, <1>3, <1>4 DEF HashOf
<1> HIDE DEF t
<1>6. \A m \in DOMAIN t : m - 1 \in 0..Latest
  BY <1>0, <1>1
<1>7. ASSUME NEW m \in DOMAIN rows \ {n}
      PROVE  ~ (\/ t[m].previous_hash # HashOf(t, Below(t, m))
                \/ t[m].event_hash # calculate_event_hash(m, t[m].event, HashOf(t, Below(t, m))))
  BY <1>0, <1>1, <1>2, <1>4, <1>5, <1>6 DEF ChainInv, Linked
<1>8. t[n].event_hash # calculate_event_hash(n, t[n].event, HashOf(t, Below(t, n)))
  <2> DEFINE previous == HashOf(rows, n - 1)
  <2>1. HashOf(t, Below(t, n)) = previous
    BY <1>0, <1>1, <1>2, <1>5, <1>6
  <2>2. t[n].event_hash = calculate_event_hash(n, rows[n].event, previous)
    BY <1>3 DEF ChainInv, Linked
  <2> HIDE DEF previous
  <2>3. [sequence |-> n, event |-> rows[n].event, previous_hash |-> previous]
          # [sequence |-> n, event |-> e, previous_hash |-> previous]
    OBVIOUS
  <2>4. calculate_event_hash(n, rows[n].event, previous) # calculate_event_hash(n, e, previous)
    BY <2>3 DEF calculate_event_hash
  <2> QED BY <1>3, <2>1, <2>2, <2>4
<1>9. verify_chain(t) = {n}
  BY <1>0, <1>1, <1>7, <1>8 DEF verify_chain
<1> QED BY <1>9 DEF t

THEOREM ChainIsTamperEvident ==
  ASSUME \A x, y : Sha256(x) = Sha256(y) => x = y
  PROVE  Spec => []TamperEvident
<1>1. ASSUME ChainInv, RowsAreLinks PROVE AlterationFlagged
  BY <1>1, AlteredRow DEF AlterationFlagged
<1>2. ChainInv /\ RowsAreLinks /\ ChainVerifies => TamperEvident
  BY <1>1 DEF TamperEvident
<1> QED BY <1>2, ChainInvariant, ChainAlwaysVerifies, RowsInv, PTL

(***************************************************************************)
(* The audit trail implements an append-only log without repetition.       *)
(***************************************************************************)
THEOREM ChainImplementsLog == Spec => LogSpec
<1> DEFINE events == [n \in DOMAIN rows |-> rows[n].event]
<1>1. Init => Log!LogInit
  <2> SUFFICES ASSUME Init PROVE Log!LogInit
    OBVIOUS
  <2>1. DOMAIN rows = 1..0
    BY DEF Init
  <2> QED BY <2>1 DEF Log!LogInit
<1>2. ASSUME ChainInv, [Next]_vars PROVE [Log!LogNext]_events
  <2>1. CASE UNCHANGED rows
    BY <2>1
  <2>2. ASSUME NEW c \in Calls, Commit(c) \/ CommitUnacknowledged(c) PROVE Log!LogNext
    <3>1. pc[c] = "inserted" /\ rows' = Inserted(c)
      BY <2>2 DEF Commit, CommitUnacknowledged
    <3>2. /\ Latest \in Nat /\ DOMAIN rows = 1..Latest
          /\ DOMAIN rows' = 1..(Latest + 1)
          /\ rows'[Latest + 1].event = c
          /\ \A n \in 1..Latest : rows'[n] = rows[n]
      <4>1. /\ DOMAIN rows' = 1..(Latest + 1)
            /\ rows'[Latest + 1] = Link(c)
            /\ \A n \in DOMAIN rows : rows'[n] = rows[n]
        BY <1>2, <3>1, InsertedLemma
      <4>2. Latest \in Nat /\ DOMAIN rows = 1..Latest
        BY <1>2 DEF ChainInv, TypeOK
      <4>3. Link(c).event = c
        BY DEF Link
      <4> QED BY <4>1, <4>2, <4>3
    <3>3. \A n \in 1..Latest : rows[n].event # c
      BY <1>2, <3>1, <3>2 DEF ChainInv, EventsOnce, Ended
    <3>4. events' = [n \in 1..(Latest + 1) |-> IF n = Latest + 1 THEN c ELSE events[n]]
      BY <3>2
    <3>5. Log!Append(Latest, c)
      BY <3>2, <3>3, <3>4 DEF Log!Append
    <3>6. Latest \in {0} \cup DOMAIN events
      BY <3>2
    <3> QED BY <3>5, <3>6 DEF Log!LogNext
  <2>3. UNCHANGED rows \/ \E c \in Calls : Commit(c) \/ CommitUnacknowledged(c)
    <3>1. ASSUME NEW c \in Calls, Select(c) \/ LockGranted(c) \/ Insert(c) \/ Abort(c)
          PROVE  UNCHANGED rows
      BY <3>1 DEF Select, LockGranted, Insert, Abort
    <3> QED BY <1>2, <3>1 DEF Next, CallStep, vars
  <2> QED BY <2>1, <2>2, <2>3
<1> QED BY <1>1, <1>2, ChainInvariant, PTL DEF Spec, LogSpec, Log!LogSpec

=============================================================================
