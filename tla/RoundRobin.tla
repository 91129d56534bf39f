----------------------------- MODULE RoundRobin -----------------------------
(***************************************************************************)
(* What "round-robin" promises (README.md:14, 40): the live tasks form a   *)
(* ring.  The task at the head runs; switching sends it to the back of the *)
(* ring, killing takes it out, and a new task enters the ring behind every *)
(* task spawned before it, that is, right before the main task.  The main  *)
(* task is never killed and a name that was given to a task is never given *)
(* to another.                                                             *)
(***************************************************************************)
EXTENDS Naturals, Sequences

CONSTANT Names     \* task names

VARIABLES ring,    \* live tasks in the order in which they will run
          named    \* names given out so far

ringVars == <<ring, named>>

MainTask == 0

RingInit == ring = <<MainTask>> /\ named = {MainTask}

Rotate == Len(ring) > 1 /\ ring' = Append(Tail(ring), Head(ring)) /\ UNCHANGED named

Kill == Head(ring) # MainTask /\ ring' = Tail(ring) /\ UNCHANGED named

(* Splits the ring where the main task stands; the new task goes there, or *)
(* to the very end when the main task is the one that runs.                *)
Spawn(i) ==
  /\ i \notin named
  /\ named' = named \cup {i}
  /\ \E k \in 1 .. Len(ring) :
       /\ ring[k] = MainTask
       /\ ring' = IF k = 1
                    THEN Append(ring, i)
                    ELSE SubSeq(ring, 1, k - 1) \o <<i>> \o SubSeq(ring, k, Len(ring))

(* A name may be used up by a task that could not be started. *)
Waste(i) == i \notin named /\ named' = named \cup {i} /\ UNCHANGED ring

RingNext == Rotate \/ Kill \/ \E i \in Names : Spawn(i) \/ Waste(i)

RingSpec == RingInit /\ [][RingNext]_ringVars
=============================================================================
