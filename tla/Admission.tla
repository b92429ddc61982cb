------------------------------ MODULE Admission ------------------------------
(***************************************************************************)
(* What admission control promises to whoever sends requests, with nothing *)
(* of the thread pool behind it: at most Limit requests are served at a    *)
(* time, a request is turned away only at a moment when Limit others are   *)
(* being served, and a request that is let in does not stay forever.       *)
(*                                                                         *)
(* This is the contract the comment on MAX_CONCURRENT_REQUESTS and the     *)
(* middleware stack of src/main.rs describe.  BlockingPool implements it:  *)
(* see Admitted in that module.                                            *)
(***************************************************************************)
EXTENDS Naturals, FiniteSets

CONSTANTS Requests, Limit

VARIABLES
    inside,     \* the requests being served
    turnedAway  \* the requests whose last answer was 503

avars == <<inside, turnedAway>>

AInit ==
    /\ inside = {}
    /\ turnedAway = {}

\* A request enters while there is room for it.
Enter(r) ==
    /\ r \notin inside
    /\ Cardinality(inside) < Limit
    /\ inside' = inside \cup {r}
    /\ turnedAway' = turnedAway

\* It leaves: answered, or its client has gone away.
Leave(r) ==
    /\ r \in inside
    /\ inside' = inside \ {r}
    /\ turnedAway' = turnedAway

\* No room: the request is refused at once instead of being made to wait.
TurnAway(r) ==
    /\ r \notin inside
    /\ Cardinality(inside) = Limit
    /\ turnedAway' = turnedAway \cup {r}
    /\ inside' = inside

\* A client that was turned away sends another request.
ComeBack(r) ==
    /\ turnedAway' = turnedAway \ {r}
    /\ inside' = inside

ANext == \E r \in Requests : Enter(r) \/ Leave(r) \/ TurnAway(r) \/ ComeBack(r)

ASafeSpec == AInit /\ [][ANext]_avars

ASpec == ASafeSpec /\ \A r \in Requests : WF_avars(Leave(r))
==============================================================================
