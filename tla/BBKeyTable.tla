----------------------------- MODULE BBKeyTable -----------------------------
(***************************************************************************)
(* What the black-board keys promise to those who delete them: rows of     *)
(* fields and of runtime_bb_keys come, are referred to, and go only while  *)
(* no machine and no tree refers to them; and the references of a machine  *)
(* follow the names in its conditions.  Each step is atomic and judged on  *)
(* the tables of that moment.                                              *)
(***************************************************************************)
CONSTANTS
  Table, Name,  \* tables of keys, and the names their rows may have
  Fsm, Tree     \* those who refer to them

Row == Table \X Name

VARIABLES
  status,   \* status[r]: not yet inserted, live or deleted
  names,    \* names[f]: the names in the conditions of machine f
  refs      \* refs[h]: the rows that h refers to

vars == <<status, names, refs>>

Init == /\ status = [r \in Row |-> "unused"]
        /\ names = [f \in Fsm |-> {}]
        /\ refs = [h \in Fsm \cup Tree |-> {}]

Insert(r) ==
  /\ status[r] = "unused"
  /\ status' = [status EXCEPT ![r] = "live"]
  /\ UNCHANGED <<names, refs>>

Remove(r) ==
  /\ status[r] = "live"
  /\ \A h \in Fsm \cup Tree : r \notin refs[h]
  /\ status' = [status EXCEPT ![r] = "deleted"]
  /\ UNCHANGED <<names, refs>>

\* A machine is written: what it still names stays, a live row that it names no
\* more goes, and what comes is a row whose name is new in it.
Rewrite(f, N, R) ==
  /\ \A r \in refs[f] : r[2] \in N => r \in R
  /\ \A r \in R : status[r] = "live" => r[2] \in N
  /\ \A r \in R \ refs[f] : status[r] # "unused" /\ r[2] \in N \ names[f]
  /\ names' = [names EXCEPT ![f] = N]
  /\ refs' = [refs EXCEPT ![f] = R]
  /\ UNCHANGED status

\* A tree is written.  Which of its parameters hold a key depends on the node
\* types that are enabled, so its references may come and go in other ways.
RewriteTree(b, R) ==
  /\ \A r \in R \ refs[b] : status[r] # "unused"
  /\ refs' = [refs EXCEPT ![b] = R]
  /\ UNCHANGED <<status, names>>

Release(h) ==
  /\ refs' = [refs EXCEPT ![h] = {}]
  /\ names' = [f \in Fsm |-> IF f = h THEN {} ELSE names[f]]
  /\ UNCHANGED status

Next ==
  \/ \E r \in Row : Insert(r) \/ Remove(r)
  \/ \E f \in Fsm, N \in SUBSET Name, R \in SUBSET Row : Rewrite(f, N, R)
  \/ \E b \in Tree, R \in SUBSET Row : RewriteTree(b, R)
  \/ \E h \in Fsm \cup Tree : Release(h)

Spec == Init /\ [][Next]_vars
=============================================================================
