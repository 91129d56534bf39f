----------------------------- MODULE PageOwner -----------------------------
(***************************************************************************)
(* What a page allocator promises its callers, whatever its data           *)
(* structure: a request for n pages is answered with n contiguous free     *)
(* pages, which then belong to the caller until it gives them back, and is *)
(* refused only when no such run is free.                                  *)
(***************************************************************************)
EXTENDS Pages

CONSTANT Sizes      \* the request sizes

VARIABLES free,     \* pages that may be handed out
          held,     \* blocks <<first page, count>> that belong to callers
          req,      \* size of the last request
          ret       \* the answer to it

ownerVars == <<free, held, req, ret>>

FreeRuns(n) == {p \in Page : n > 0 /\ Run(p, n) \subseteq free}

OwnerInit ==
  /\ free \in SUBSET (Page \ {NULL})
  /\ held = {}
  /\ req = 0
  /\ ret = NULL

Grant(n) ==
  \E p \in FreeRuns(n) :
    /\ free' = free \ Run(p, n)
    /\ held' = held \cup {<<p, n>>}
    /\ req' = n
    /\ ret' = p

Refuse(n) ==
  /\ FreeRuns(n) = {}
  /\ req' = n
  /\ ret' = NULL
  /\ UNCHANGED <<free, held>>

Return(b) ==
  /\ free' = free \cup Run(b[1], b[2])
  /\ held' = held \ {b}
  /\ UNCHANGED <<req, ret>>

OwnerNext ==
  \/ \E n \in Sizes : Grant(n) \/ Refuse(n)
  \/ \E b \in held : Return(b)

OwnerSpec == OwnerInit /\ [][OwnerNext]_ownerVars
=============================================================================
