------------------------- MODULE ConnectionLifecycle -------------------------
(***************************************************************************)
(* What the transition table of domain/connections.py still promises when  *)
(* several operations overlap.  An operation reads a connection, decides   *)
(* on a move the table allows from the status it read, and writes it       *)
(* later, whatever the status is by then.  So a connection is inserted as  *)
(* pending and afterwards only receives a status that the table allowed    *)
(* from some status it really had when an operation still in flight read   *)
(* it.                                                                     *)
(***************************************************************************)
EXTENDS ConnectionStatus

CONSTANT Connections

VARIABLES
  status,     \* the status of each connection, Absent before its insertion
  intended    \* the moves that operations in flight found legal when they read

\* The moves an operation that reads a connection now may decide on.
LegalFrom(s) == IF s = Absent THEN {} ELSE AllowedTransitions[s]

NoNewIntent == \A c \in Connections : intended'[c] \subseteq intended[c]

Init == /\ status = [c \in Connections |-> Absent]
        /\ intended = [c \in Connections |-> {}]

Insert(c) == /\ status[c] = Absent
             /\ status' = [status EXCEPT ![c] = "pending"]
             /\ NoNewIntent

\* Operations start, narrow their choice, or end without a write.
Read == /\ UNCHANGED status
        /\ \A c \in Connections :
             intended'[c] \subseteq intended[c] \cup LegalFrom(status[c])

Write(c) == /\ \E s \in intended[c] : status' = [status EXCEPT ![c] = s]
            /\ NoNewIntent

Next == Read \/ \E c \in Connections : Insert(c) \/ Write(c)

Spec == Init /\ [][Next]_<<status, intended>>
=============================================================================
