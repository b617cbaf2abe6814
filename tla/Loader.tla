------------------------------- MODULE Loader -------------------------------
(***************************************************************************)
(* What a load of the tables promises the worker that began it, whatever    *)
(* becomes of connections, sessions and SQLiteWebWrapper: each table is     *)
(* asked for once and in order, what is kept is what was asked for, and the *)
(* callback is called once at most, with no more tables missing than        *)
(* connections were lost.                                                   *)
(***************************************************************************)
EXTENDS Naturals, Sequences, FiniteSets, SequencesExt

CONSTANTS Tables,     \* the tables of a load, in order
          NoTable,
          Refused,    \* tables that SQLite refuses, which ends the load
          Verdicts    \* what the login may be met with

VARIABLES running,    \* a load is under way
          left,       \* the tables that are still to be asked for
          asked,      \* the last table asked for
          kept,       \* table -> whose rows are kept for it
          stored,     \* tables stored in this load
          losses,     \* connections lost in this load
          done        \* calls of the callback

vars == <<running, left, asked, kept, stored, losses, done>>

Init ==
    /\ running = FALSE /\ left = <<>> /\ asked = NoTable
    /\ kept = [t \in Range(Tables) |-> NoTable]
    /\ stored = {} /\ losses = 0 /\ done = 0

Begin ==
    /\ ~ running /\ running' = TRUE
    /\ left' = Tables /\ stored' = {} /\ losses' = 0
    /\ UNCHANGED <<asked, kept, done>>

Turn == left # <<>> /\ asked' = Head(left) /\ left' = Tail(left)

Ask ==
    /\ running /\ Turn
    /\ UNCHANGED <<running, kept, stored, losses, done>>

(* Stored, and the next one asked for if the connection goes on. *)
Store ==
    /\ running /\ asked # NoTable
    /\ kept' = [kept EXCEPT ![asked] = asked] /\ stored' = stored \cup {asked}
    /\ Turn \/ UNCHANGED <<left, asked>>
    /\ UNCHANGED <<running, losses, done>>

Lose == losses' = losses + 1 /\ UNCHANGED <<running, left, asked, kept, stored, done>>

Report ==
    /\ running /\ running' = FALSE /\ done' = done + 1
    /\ \/ left = <<>> /\ Cardinality(Range(Tables) \ stored) <= losses
       \/ asked \in Refused
    /\ UNCHANGED <<left, asked, kept, stored, losses>>

(* A login that is refused ends the load without a call. *)
GiveUp ==
    /\ "fail" \in Verdicts
    /\ running /\ running' = FALSE
    /\ UNCHANGED <<left, asked, kept, stored, losses, done>>

Next == Begin \/ Ask \/ Store \/ Lose \/ Report \/ GiveUp

Spec == Init /\ [][Next]_vars
=============================================================================
