---------------------------- MODULE ShareLedger -----------------------------
(***************************************************************************)
(* What becomes of a share, whoever finds it and however often the pool is *)
(* lost: it is numbered, under a number no other share has had, it goes    *)
(* out once or is dropped, and what goes out gets one verdict or is lost   *)
(* with its connection.  A verdict is counted once, but for the verdict on *)
(* the first share, which is never counted: the exception is the program's *)
(* (see EveryVerdictCounted of StratumDialogue).                           *)
(***************************************************************************)
EXTENDS Naturals

CONSTANT MaxShares  \* bound: shares

VARIABLES last,     \* the number of the last share; the first has number 2
          hand,     \* the shares that are numbered and have not gone out
          flight,   \* the shares that are with the pool
          given,    \* given[ok]: the verdicts so far
          counted   \* counted[ok]: those that were counted

ledger == <<last, hand, flight, given, counted>>

First == 2

LedgerInit ==
    /\ last = First - 1
    /\ hand = {} /\ flight = {}
    /\ given = [ok \in BOOLEAN |-> 0]
    /\ counted = [ok \in BOOLEAN |-> 0]

Find ==
    /\ last <= MaxShares
    /\ last' = last + 1
    /\ hand' = hand \cup {last + 1}
    /\ UNCHANGED <<flight, given, counted>>

Send(n) ==
    /\ n \in hand
    /\ hand' = hand \ {n}
    /\ flight' = flight \cup {n}
    /\ UNCHANGED <<last, given, counted>>

Drop(n) ==
    /\ n \in hand
    /\ hand' = hand \ {n}
    /\ UNCHANGED <<last, flight, given, counted>>

Judge(n, ok) ==
    /\ n \in flight
    /\ flight' = flight \ {n}
    /\ given' = [given EXCEPT ![ok] = @ + 1]
    /\ counted' = IF n = First THEN counted ELSE [counted EXCEPT ![ok] = @ + 1]
    /\ UNCHANGED <<last, hand>>

\* With the connection.
Lose ==
    /\ flight' = {}
    /\ UNCHANGED <<last, hand, given, counted>>

LedgerNext ==
    \/ Find \/ Lose
    \/ \E n \in hand : Send(n) \/ Drop(n)
    \/ \E n \in flight, ok \in BOOLEAN : Judge(n, ok)

LedgerSpec == LedgerInit /\ [][LedgerNext]_ledger
=============================================================================
