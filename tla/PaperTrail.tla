----------------------------- MODULE PaperTrail -----------------------------
(***************************************************************************)
(* What the paper tables promise an auditor, whatever requests interleave  *)
(* and wherever one of them breaks off:                                    *)
(*                                                                         *)
(*  - a risk decision is taken once and never revised;                     *)
(*  - an order exists only on an approved decision, and is never revised;  *)
(*  - a fill is booked once, for an order that was filled, and stays with  *)
(*    the position it was booked on;                                       *)
(*  - a position is sold at most once.                                     *)
(*                                                                         *)
(* PaperTrading implements this specification.                             *)
(***************************************************************************)
CONSTANTS Decisions, Orders, Positions, NoId

VARIABLES verdict,   \* verdict[d]: the persisted decision
          trade,     \* trade[o]: what became of the order
          basis,     \* basis[o]: the decision the order rests on
          booked,    \* booked[o]: the position a buy was booked on
          sale       \* sale[p]: the orders that sold the position

tvars == <<verdict, trade, basis, booked, sale>>

TInit ==
    /\ verdict = [d \in Decisions |-> "none"]
    /\ trade = [o \in Orders |-> "none"]
    /\ basis = [o \in Orders |-> NoId]
    /\ booked = [o \in Orders |-> NoId]
    /\ sale = [p \in Positions |-> {}]

Decide(d, v) ==
    /\ verdict[d] = "none"
    /\ verdict' = [verdict EXCEPT ![d] = v]
    /\ UNCHANGED <<trade, basis, booked, sale>>

Order(o, d, state) ==
    /\ trade[o] = "none"
    /\ verdict[d] = "APPROVED"
    /\ trade' = [trade EXCEPT ![o] = state]
    /\ basis' = [basis EXCEPT ![o] = d]
    /\ UNCHANGED <<verdict, booked, sale>>

Book(o, p) ==
    /\ trade[o] = "PAPER_FILLED"
    /\ booked[o] = NoId
    /\ booked' = [booked EXCEPT ![o] = p]
    /\ UNCHANGED <<verdict, trade, basis, sale>>

\* A sale takes its own decision and its own order in the same step.
Sell(p, d, o) ==
    /\ sale[p] = {}
    /\ verdict[d] = "none"
    /\ trade[o] = "none"
    /\ verdict' = [verdict EXCEPT ![d] = "APPROVED"]
    /\ trade' = [trade EXCEPT ![o] = "PAPER_FILLED"]
    /\ basis' = [basis EXCEPT ![o] = d]
    /\ booked' = [booked EXCEPT ![o] = p]
    /\ sale' = [sale EXCEPT ![p] = {o}]

TNext ==
    \/ \E d \in Decisions, v \in {"APPROVED", "REJECTED"} : Decide(d, v)
    \/ \E o \in Orders, d \in Decisions, s \in {"PAPER_FILLED", "EXPIRED"} :
          Order(o, d, s)
    \/ \E o \in Orders, p \in Positions : Book(o, p)
    \/ \E p \in Positions, d \in Decisions, o \in Orders : Sell(p, d, o)

TSpec == TInit /\ [][TNext]_tvars
=============================================================================
