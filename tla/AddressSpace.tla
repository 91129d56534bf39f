---------------------------- MODULE AddressSpace ----------------------------
(***************************************************************************)
(* What page tables promise, whatever their shape: a request to map a      *)
(* virtual page changes the translation of that page and of no other, and  *)
(* is given up only when no memory is left for a table.                    *)
(***************************************************************************)
EXTENDS Integers

CONSTANT Virt       \* virtual page numbers

VARIABLES space,    \* [Virt -> translation]: <<>> or <<page, user access>>
          pending,  \* the request being served: <<>> or <<virtual page, translation>>
          freePages \* physical pages not in use

spaceVars == <<space, pending, freePages>>

Unmapped == <<>>

SpaceInit ==
  /\ space = [v \in Virt |-> Unmapped]
  /\ pending = <<>>

Request(v, e) ==
  /\ pending = <<>>
  /\ pending' = <<v, e>>
  /\ UNCHANGED space

Mapped ==
  /\ pending # <<>>
  /\ space' = [space EXCEPT ![pending[1]] = pending[2]]
  /\ pending' = <<>>

(* No memory for a table: the request is forgotten. *)
GiveUp ==
  /\ pending # <<>>
  /\ freePages = {}
  /\ pending' = <<>>
  /\ UNCHANGED space

Unmap(v) ==
  /\ pending = <<>>
  /\ space' = [space EXCEPT ![v] = Unmapped]
  /\ UNCHANGED pending

(* Memory comes and goes without touching a translation. *)
OtherMemory == UNCHANGED <<space, pending>>

SpaceNext ==
  \/ OtherMemory
  \/ \E v \in Virt, user \in BOOLEAN : Request(v, <<v, user>>)
  \/ GiveUp
  \/ Mapped
  \/ \E v \in Virt : Unmap(v)

SpaceSpec == SpaceInit /\ [][SpaceNext]_spaceVars
=============================================================================
