----------------------------- MODULE BoardFeed ------------------------------
(***************************************************************************)
(* What the event streams of one game promise to their readers, with the   *)
(* server, the channels and the connections left out: a reader sees boards *)
(* the game has really been at, never an older one than the last it saw.   *)
(* Boards may be skipped, and nothing promises that the newest arrives.    *)
(* GameService implements this.                                            *)
(***************************************************************************)
EXTENDS Naturals

CONSTANT Readers

VARIABLES
  version,  \* how many actions the game has accepted
  seen      \* for each reader, the version of the board it looks at

vars == <<version, seen>>

Init == version = 0 /\ seen = [r \in Readers |-> 0]

Advance == version' = version + 1 /\ UNCHANGED seen

Observe(r) ==
  /\ \E v \in seen[r]..version : seen' = [seen EXCEPT ![r] = v]
  /\ UNCHANGED version

Next == Advance \/ \E r \in Readers : Observe(r)

Spec == Init /\ [][Next]_vars
=============================================================================
