--------------------------- MODULE MessageLedger ---------------------------
(***************************************************************************)
(* What the ingestion of a polled account promises, without queues and     *)
(* workers: the account's mark moves forward over the messages the         *)
(* platform received; a message the mark moved over was first taken into   *)
(* custody or given up; only a message in custody is stored, and stored    *)
(* messages stay stored.                                                   *)
(***************************************************************************)
EXTENDS Naturals

CONSTANT Messages     \* the messages: a set of naturals, in the order of arrival

VARIABLES
  mark,       \* the newest message the system will not ask for again
  custody,    \* messages it is responsible for and has not dealt with
  stored,
  givenUp     \* messages some failure abandoned, perhaps to come again

ledgerVars == <<mark, custody, stored, givenUp>>

LedgerInit ==
  /\ mark = 0
  /\ custody = {}
  /\ stored = {}
  /\ givenUp = {}

\* The mark moves to m; every message it passes is taken over or given up.
Advance(m) ==
  /\ mark < m
  /\ mark' = m
  /\ \E taken, missed \in SUBSET Messages :
       /\ {x \in Messages : mark < x /\ x <= m} \subseteq taken \cup missed
       /\ custody' = custody \cup taken
       /\ givenUp' = givenUp \cup missed
  /\ UNCHANGED stored

\* A message in custody is stored; other copies of it may still be around.
Store(x) ==
  /\ x \in custody
  /\ stored' = stored \cup {x}
  /\ custody' \in {custody, custody \ {x}}
  /\ UNCHANGED <<mark, givenUp>>

\* Custody of a message ends: it is stored already, or it is given up.
Drop ==
  /\ custody' \subseteq custody
  /\ givenUp' \subseteq givenUp \cup custody
  /\ givenUp \subseteq givenUp'
  /\ custody \ custody' \subseteq stored \cup givenUp'
  /\ UNCHANGED <<mark, stored>>

LedgerNext ==
  \/ \E m \in Messages : Advance(m)
  \/ \E x \in Messages : Store(x)
  \/ Drop

LedgerSpec == LedgerInit /\ [][LedgerNext]_ledgerVars
=============================================================================
