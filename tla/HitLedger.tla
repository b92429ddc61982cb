------------------------------ MODULE HitLedger ------------------------------
(***************************************************************************)
(* What the numbers of the hit counter stand for, with no requests, keys,  *)
(* rows or clock behind them: per page, hits and unique hits that are only *)
(* ever counted up, one at a time, and the visitors counted as new.        *)
(*                                                                         *)
(* A new visitor's hit is counted in two strokes, the unique one first; a  *)
(* failure may come between them and leaves the first without the second   *)
(* (phpcount.rs:168).  Any other hit is that of a visitor who was counted  *)
(* as new before.  Cleanup, the rotation of keys, and rows created by      *)
(* several requests at once change none of it.                             *)
(*                                                                         *)
(* PhpCount implements this: see Ledger in that module.                    *)
(***************************************************************************)
EXTENDS Naturals

CONSTANTS Pages, Visitors

VARIABLES
    hits,       \* page -> hits
    uniques,    \* page -> unique hits
    known,      \* page -> visitors counted as new at least once
    open,       \* page -> new visitors whose second stroke is to come
    lost        \* page -> new visitors whose second stroke never came

lvars == <<hits, uniques, known, open, lost>>

LInit ==
    /\ hits = [p \in Pages |-> 0]
    /\ uniques = [p \in Pages |-> 0]
    /\ known = [p \in Pages |-> {}]
    /\ open = [p \in Pages |-> 0]
    /\ lost = [p \in Pages |-> 0]

\* A visitor is counted as new.
CountNew(p, v) ==
    /\ uniques' = [uniques EXCEPT ![p] = @ + 1]
    /\ known' = [known EXCEPT ![p] = @ \cup {v}]
    /\ \/ open' = [open EXCEPT ![p] = @ + 1] /\ lost' = lost
       \/ lost' = [lost EXCEPT ![p] = @ + 1] /\ open' = open
    /\ hits' = hits

\* The second stroke of a new visitor.
CountSecond(p) ==
    /\ open[p] > 0
    /\ hits' = [hits EXCEPT ![p] = @ + 1]
    /\ open' = [open EXCEPT ![p] = @ - 1]
    /\ UNCHANGED <<uniques, known, lost>>

\* A visitor who was counted as new before.
CountKnown(p, v) ==
    /\ v \in known[p]
    /\ hits' = [hits EXCEPT ![p] = @ + 1]
    /\ UNCHANGED <<uniques, known, open, lost>>

\* The second stroke fails.
Lose(p) ==
    /\ open[p] > 0
    /\ open' = [open EXCEPT ![p] = @ - 1]
    /\ lost' = [lost EXCEPT ![p] = @ + 1]
    /\ UNCHANGED <<hits, uniques, known>>

\* The process stops: the numbers stay.
LoseAll ==
    /\ open' = [p \in Pages |-> 0]
    /\ lost' = [p \in Pages |-> lost[p] + open[p]]
    /\ UNCHANGED <<hits, uniques, known>>

LNext ==
    \/ \E p \in Pages :
         \/ CountSecond(p) \/ Lose(p)
         \/ \E v \in Visitors : CountNew(p, v) \/ CountKnown(p, v)
    \/ LoseAll

LSpec == LInit /\ [][LNext]_lvars
===============================================================================
