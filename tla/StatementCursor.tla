-------------------------- MODULE StatementCursor --------------------------
(***************************************************************************)
(* What the statements of a connection promise an application, with the    *)
(* session, the attempts and the redirects out of sight.  A statement is   *)
(* prepared with a text, run, and then shows one result per parameter set, *)
(* in order, each of the text it was prepared with; a run that was made    *)
(* only to describe the columns is handed over to SQLExecute, once.        *)
(***************************************************************************)
EXTENDS Naturals

CONSTANTS Stmts, Queries, None

VARIABLES
  text,       \* the text of the statement, or None
  prepared,   \* the text was accepted
  run,        \* the text has been run since it was prepared
  described,  \* the run was made to describe the columns
  shown,      \* the query whose result is shown, or None
  position,   \* the number of results shown in this run
  sets        \* the number of parameter sets to run it with

vars == <<text, prepared, run, described, shown, position, sets>>

Init ==
  /\ text = [s \in Stmts |-> None]
  /\ prepared = [s \in Stmts |-> FALSE]
  /\ run = [s \in Stmts |-> FALSE]
  /\ described = [s \in Stmts |-> FALSE]
  /\ shown = [s \in Stmts |-> None]
  /\ position = [s \in Stmts |-> 0]
  /\ sets = [s \in Stmts |-> 1]

\* A text is given, or the statement is new: whatever ran before is over.
Prepare(s) ==
  /\ \E q \in Queries \cup {None}, ok \in BOOLEAN :
       /\ ok => q # None
       /\ text' = [text EXCEPT ![s] = q]
       /\ prepared' = [prepared EXCEPT ![s] = ok]
  /\ run' = [run EXCEPT ![s] = FALSE]
  /\ described' = [described EXCEPT ![s] = FALSE]
  /\ shown' = [shown EXCEPT ![s] = None]
  /\ position' \in {position, [position EXCEPT ![s] = 0]}
  /\ sets' \in {sets, [sets EXCEPT ![s] = 1]}

\* The application says how many parameter sets there are, at any time.
Resize(s) ==
  /\ sets' = [sets EXCEPT ![s] = sets'[s]]
  /\ sets'[s] \in Nat
  /\ UNCHANGED <<text, prepared, run, described, shown, position>>

Close(s) ==
  /\ run' = [run EXCEPT ![s] = FALSE]
  /\ described' = [described EXCEPT ![s] = FALSE]
  /\ shown' = [shown EXCEPT ![s] = None]
  /\ UNCHANGED <<text, prepared, position, sets>>

\* A run begins: its results will be counted from zero.
Begin(s) ==
  /\ prepared[s]
  /\ ~(run[s] /\ described[s])
  /\ position' = [position EXCEPT ![s] = 0]
  /\ UNCHANGED <<text, prepared, run, described, shown, sets>>

\* The result on show goes, and nothing takes its place yet.
Hide(s) ==
  /\ prepared[s]
  /\ shown' = [shown EXCEPT ![s] = None]
  /\ UNCHANGED <<text, prepared, run, described, position, sets>>

\* The next result takes the place of none, as long as a parameter set is left;
\* only a first run describes.
Show(s) ==
  /\ prepared[s]
  /\ shown[s] = None
  /\ position[s] < sets[s]
  /\ shown' = [shown EXCEPT ![s] = text[s]]
  /\ position' = [position EXCEPT ![s] = @ + 1]
  /\ run' = [run EXCEPT ![s] = TRUE]
  /\ \/ UNCHANGED described
     \/ ~run[s] /\ described' = [described EXCEPT ![s] = TRUE]
  /\ UNCHANGED <<text, prepared, sets>>

\* The parameter sets are used up, or there was none.
Finish(s) ==
  /\ prepared[s]
  /\ position[s] >= sets[s]
  /\ shown' = [shown EXCEPT ![s] = None]
  /\ run' = [run EXCEPT ![s] = TRUE]
  /\ \/ UNCHANGED described
     \/ ~run[s] /\ described' = [described EXCEPT ![s] = TRUE]
  /\ UNCHANGED <<text, prepared, position, sets>>

\* SQLExecute takes over the run that described the columns.
Claim(s) ==
  /\ run[s] /\ described[s]
  /\ described' = [described EXCEPT ![s] = FALSE]
  /\ UNCHANGED <<text, prepared, run, shown, position, sets>>

Next ==
  \E s \in Stmts :
    \/ Prepare(s)
    \/ Resize(s)
    \/ Close(s)
    \/ Begin(s)
    \/ Hide(s)
    \/ Show(s)
    \/ Finish(s)
    \/ Claim(s)

Spec == Init /\ [][Next]_vars
=============================================================================
