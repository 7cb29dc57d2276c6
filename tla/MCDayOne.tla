------------------------------- MODULE MCDayOne -------------------------------
(***************************************************************************)
(* A small Day 1 for TLC: a team of two whose smallest size is one, so     *)
(* that a team with a banned member is still large enough; the boundary at *)
(* the second tick of a day of three ticks; a clock that may be one tick   *)
(* ahead; two invocations that race.                                       *)
(***************************************************************************)
EXTENDS DayOne, TLC

CONSTANTS p1, p2, t1, t2

\* t1 is a shared card, t2 is a card of nobody's role.
SharedTask == [p \in Participants |-> {t1}]

\* p1 sends two commands for the task, p2 one for it and one for a task that is not
\* in the bundle.
FourCommands ==
    {[participant |-> p1, task |-> t1, n |-> 1], [participant |-> p1, task |-> t1, n |-> 2],
     [participant |-> p2, task |-> t1, n |-> 1], [participant |-> p2, task |-> t2, n |-> 1]}
=============================================================================
