---------------------------- MODULE CitationLedger ----------------------------
(***************************************************************************)
(* What a case promises about its evidence.  Evidence is only ever added,  *)
(* once on its own and then only in answer to a question, and no case      *)
(* learns what another one knows.  A recommendation is put forward with    *)
(* citations of what is known and quotable at that moment, and as long as  *)
(* it stands nothing is added and none of its citations changes; only a    *)
(* reviewer replaces it, once.                                             *)
(***************************************************************************)
CONSTANTS Cases, Evidence, Policies

VARIABLES
  known,             \* [Cases -> SUBSET Evidence]
  quotable,          \* [Cases -> SUBSET Policies]
  standing           \* [Cases -> Standing]: the recommendation and what became of it

ledger == <<known, quotable, standing>>

Standing ==
  [is: {"open", "asking", "waiting", "approved", "replaced", "abandoned"},
   cites: SUBSET Evidence, quotes: SUBSET Policies]

Without(what) == [is |-> what, cites |-> {}, quotes |-> {}]
Moves(c, s) == standing' = [standing EXCEPT ![c] = s]
Final(c) == standing[c].is \in {"approved", "replaced", "abandoned"}

CitationInit ==
  /\ known = [c \in Cases |-> {}]
  /\ quotable = [c \in Cases |-> {}]
  /\ standing = [c \in Cases |-> Without("open")]

Learn(c) ==
  /\ \/ standing[c].is = "open" /\ known[c] = {}
     \/ standing[c].is = "asking"
  /\ known[c] \subseteq known'[c] /\ known'[c] # known[c]
  /\ \A d \in Cases \ {c} : known'[c] \cap known[d] = {}
  /\ known' = [known EXCEPT ![c] = known'[c]]
  /\ quotable' = [quotable EXCEPT ![c] = quotable'[c]]
  /\ Moves(c, Without("open"))

PutForward(c) ==
  /\ standing[c].is = "open" /\ known[c] # {}
  /\ standing'[c].is \in {"asking", "waiting"}
  /\ standing'[c].cites \subseteq known[c]
  /\ standing'[c].quotes \subseteq quotable[c]
  /\ quotable[c] # {} => standing'[c].quotes # {}
  /\ Moves(c, standing'[c])
  /\ UNCHANGED <<known, quotable>>

Approve(c) ==
  /\ standing[c].is = "waiting"
  /\ Moves(c, [standing[c] EXCEPT !.is = "approved"])
  /\ UNCHANGED <<known, quotable>>

Replace(c) ==
  /\ standing[c].is = "waiting"
  /\ standing'[c] \in Standing /\ standing'[c].is = "replaced"
  /\ Moves(c, standing'[c])
  /\ UNCHANGED <<known, quotable>>

Revise(c) ==
  /\ standing[c].is = "waiting"
  /\ Moves(c, Without("open"))
  /\ UNCHANGED <<known, quotable>>

Abandon(c) ==
  /\ ~Final(c)
  /\ Moves(c, Without("abandoned"))
  /\ UNCHANGED <<known, quotable>>

CitationNext ==
  \E c \in Cases :
    Learn(c) \/ PutForward(c) \/ Approve(c) \/ Replace(c) \/ Revise(c) \/ Abandon(c)

CitationSpec == CitationInit /\ [][CitationNext]_ledger

=============================================================================
