----------------------------- MODULE Revisions ------------------------------
(***************************************************************************)
(* What "alembic upgrade head" and "alembic downgrade base" promise: a run *)
(* moves the schema from one revision to the other all at once, or leaves  *)
(* it alone.  env.py: "a failure rolls that step back cleanly instead of   *)
(* leaving the chain half-applied".                                        *)
(***************************************************************************)
CONSTANTS
    Runner,     \* those who run alembic
    Latest,     \* the schema of revision 0001_initial; before it: nothing
    Untold      \* the outcome of a run that has not ended

VARIABLES
    schema,     \* the committed schema
    command,    \* command[r]: what runner r was told to do
    read,       \* read[r]: the schema it found, once it has looked
    outcome     \* outcome[r]: how its run ended

Target(r) == IF command[r] = "upgrade" THEN Latest ELSE {}

Init ==
    /\ schema = {}
    /\ read = [r \in Runner |-> Untold]
    /\ outcome = [r \in Runner |-> Untold]

Look(r) ==
    /\ outcome[r] = Untold
    /\ read' = [read EXCEPT ![r] = schema]
    /\ UNCHANGED <<schema, command, outcome>>

Tell(r, told) ==
    /\ outcome[r] = Untold
    /\ outcome' = [outcome EXCEPT ![r] = told]
    /\ read' = [read EXCEPT ![r] = Untold]
    /\ UNCHANGED command

(* The move happens once: from the revision that was read, if that is the  *)
(* other one, and even if the runner dies before it hears of it.           *)
Move(r) ==
    /\ schema = read[r] /\ schema # Target(r)
    /\ schema' = Target(r)
    /\ \E told \in {"ok", "crashed"} : Tell(r, told)

(* "ok" without a move only where the schema is what was asked for, or was *)
(* when the run looked.                                                    *)
Stay(r) ==
    /\ \E told \in {"ok", "failed", "crashed"} :
          /\ Tell(r, told)
          /\ told = "ok" => Target(r) \in {schema, read[r]}
    /\ UNCHANGED schema

Again(r) ==
    /\ outcome[r] # Untold
    /\ outcome' = [outcome EXCEPT ![r] = Untold]
    /\ UNCHANGED <<schema, command, read>>

Next == \E r \in Runner : Look(r) \/ Move(r) \/ Stay(r) \/ Again(r)

Spec == Init /\ [][Next]_<<schema, command, read, outcome>>
=============================================================================
