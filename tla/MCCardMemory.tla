------------------------------ MODULE MCCardMemory -----------------------------
(* Two calls at a time, on blocks of a few chunks. *)
EXTENDS CardMemory

AllHabits == SUBSET Habits
================================================================================
