-------------------------- MODULE ShadowPromotions --------------------------
(***************************************************************************)
(* Promotion of a shadow run to a testnet order.  A preview request checks *)
(* a shadow run and the gates and inserts a row PREVIEWED that expires; a  *)
(* submit request reads that row, inserts an order row, calls the exchange *)
(* and overwrites the promotion's status.  Every check is a query of its   *)
(* own, and no write compares the status it replaces; two unique indexes   *)
(* (one active promotion per shadow run, one row per client order id) are  *)
(* all the database enforces.  What happens to the order row afterwards is *)
(* the subject of TestnetOrders.                                           *)
(***************************************************************************)

CONSTANTS
    ShadowRuns,     \* testnet_shadow_runs
    Promotable,     \* those with WOULD_SUBMIT, a payload and an APPROVED decision
    Previews,       \* preview requests, and the promotions they insert
    Submits,        \* submit requests
    Orders,         \* client order ids; one for each correlation id
    Moving          \* the gates that close and open while requests run

Null == "NULL"
Gate == {"KILL_SWITCH", "STRATEGY", "PRICE"}

ASSUME PromotableAssumption == Promotable \subseteq ShadowRuns
ASSUME MovingAssumption == Moving \subseteq Gate
ASSUME NullAssumption ==
    Null \notin ShadowRuns /\ Null \notin Previews /\ Null \notin Orders

VARIABLES
    closed,     \* kill switch on, strategy disabled, price stale
    promo,      \* testnet_shadow_promotions
    expired,    \* promotions with expires_at <= now
    owner,      \* exchange_testnet_orders: the promotion each row is for
    placed,     \* the orders the exchange placed
    prev,       \* the preview handlers
    sub,        \* the submit handlers
    settled,    \* history: promotions with an outcome written
    late,       \* history: submits that came after the outcome or the expiry
    killed,     \* history: submits under a kill switch that has stayed on
    shut        \* history: gates closed since a preview request came

requests == <<prev, sub>>
hist     == <<settled, late, killed, shut>>
vars     == <<closed, promo, expired, owner, placed, prev, sub,
              settled, late, killed, shut>>

Status == {"PREVIEWED", "SUBMITTED", "REJECTED", "EXPIRED"}
Absent == [run |-> Null, status |-> Null, order |-> Null]
exists(p) == promo[p].status # Null

Init ==
    /\ closed = {}
    /\ promo = [p \in Previews |-> Absent]
    /\ expired = {}
    /\ owner = [o \in Orders |-> Null]
    /\ placed = {}
    /\ prev = [v \in Previews |-> [pc |-> "idle", run |-> Null]]
    /\ sub = [s \in Submits |->
                [pc |-> "idle", promo |-> Null, order |-> Null, reply |-> Null]]
    /\ settled = {}
    /\ late = {}
    /\ killed = {}
    /\ shut = [v \in Previews |-> {}]

-----------------------------------------------------------------------------
(* The environment: operators move the kill switch and the strategy's      *)
(* enabled flag, the feed makes the price fresh or stale, time passes.     *)

GateCloses(g) ==
    /\ closed' = closed \cup {g}
    /\ UNCHANGED <<promo, expired, owner, placed, requests, hist>>

GateOpens(g) ==
    /\ closed' = closed \ {g}
    /\ killed' = IF g = "KILL_SWITCH" THEN {} ELSE killed
    /\ shut' = [v \in Previews |-> shut[v] \ {g}]
    /\ UNCHANGED <<promo, expired, owner, placed, requests, settled, late>>

Expires(p) ==
    /\ exists(p) /\ p \notin expired
    /\ expired' = expired \cup {p}
    /\ UNCHANGED <<closed, promo, owner, placed, requests, hist>>

-----------------------------------------------------------------------------
(* The table: its partial unique index and its one update. *)

active(p) == promo[p].status \in {"PREVIEWED", "SUBMITTED"}

get_active_promotions_for_shadow_run(r) ==
    {p \in Previews : promo[p].run = r /\ active(p)}

(* The index refuses a status that would make a second promotion active.   *)
(* Variant: no index. *)
index_admits_any(p, r, status) == TRUE

index_admits(p, r, status) ==
    \/ status \notin {"PREVIEWED", "SUBMITTED"}
    \/ get_active_promotions_for_shadow_run(r) \subseteq {p}

(* The handlers ignore a failing update, whether the index or the          *)
(* connection fails it.                                                    *)
(* Variant: a failed submission keeps the promotion open for a retry. *)
update_testnet_shadow_promotion_submission_reopening(p, status, o) ==
    /\ promo' = [promo EXCEPT ![p] =
                   [run    |-> promo[p].run,
                    status |-> IF status = "REJECTED" THEN "PREVIEWED" ELSE status,
                    order  |-> IF o = Null THEN promo[p].order ELSE o]]
    /\ settled' = settled \cup {p}

update_testnet_shadow_promotion_submission(p, status, o) ==
    \/ /\ index_admits(p, promo[p].run, status)
       /\ promo' = [promo EXCEPT ![p] =
                      [run    |-> promo[p].run,
                       status |-> status,
                       order  |-> IF o = Null THEN promo[p].order ELSE o]]
       /\ settled' = settled \cup {p}
    \/ UNCHANGED <<promo, settled>>

-----------------------------------------------------------------------------
(* The preview handler. *)

prev_goes(v, pc, r) == prev' = [prev EXCEPT ![v] = [pc |-> pc, run |-> r]]

(* The run must be promotable and without an active promotion; a failing   *)
(* query for active promotions counts as none.                             *)
PreviewLooks(v, r) ==
    /\ prev[v].pc = "idle"
    /\ \E failed \in BOOLEAN :
          prev_goes(v, IF /\ r \in Promotable
                          /\ failed \/ get_active_promotions_for_shadow_run(r) = {}
                       THEN "KILL_SWITCH" ELSE "done", r)
    /\ shut' = [shut EXCEPT ![v] = closed]
    /\ UNCHANGED <<closed, promo, expired, owner, placed, sub, settled, late, killed>>

(* One gate after the other; pc names the gate that is checked next. *)
next_check(g) ==
    IF g = "KILL_SWITCH" THEN "STRATEGY" ELSE IF g = "STRATEGY" THEN "PRICE" ELSE "insert"

PreviewChecks(v) ==
    /\ prev[v].pc \in Gate
    /\ prev_goes(v, IF prev[v].pc \in closed THEN "done" ELSE next_check(prev[v].pc),
                 prev[v].run)
    /\ UNCHANGED <<closed, promo, expired, owner, placed, sub, hist>>

PreviewInserts(v) ==
    /\ prev[v].pc = "insert"
    /\ promo' = IF index_admits(v, prev[v].run, "PREVIEWED")
                THEN [promo EXCEPT ![v] = [run    |-> prev[v].run,
                                           status |-> "PREVIEWED",
                                           order  |-> Null]]
                ELSE promo
    /\ prev_goes(v, "done", prev[v].run)
    /\ UNCHANGED <<closed, expired, owner, placed, sub, hist>>

(* The client hangs up, a query fails, or the process stops. *)
PreviewAborts(v) ==
    /\ prev[v].pc \notin {"idle", "done"}
    /\ prev_goes(v, "done", prev[v].run)
    /\ UNCHANGED <<closed, promo, expired, owner, placed, sub, hist>>

-----------------------------------------------------------------------------
(* The submit handler. *)

sub_goes(s, pc, p, o, reply) ==
    sub' = [sub EXCEPT ![s] = [pc |-> pc, promo |-> p, order |-> o, reply |-> reply]]

sub_moves(s, pc, reply) == sub_goes(s, pc, sub[s].promo, sub[s].order, reply)

SubmitReads(s, p, o) ==
    /\ sub[s].pc = "idle"
    /\ exists(p)
    /\ sub_goes(s, IF promo[p].status # "PREVIEWED" THEN "done"
                   ELSE IF p \in expired THEN "expiring"
                   ELSE "KILL_SWITCH", p, o, Null)
    /\ late' = IF p \in settled \cup expired THEN late \cup {s} ELSE late
    /\ killed' = IF "KILL_SWITCH" \in closed THEN killed \cup {s} ELSE killed
    /\ UNCHANGED <<closed, promo, expired, owner, placed, prev, settled, shut>>

(* A promotion id that is not found, or another confirmation text. *)
SubmitRefused(s) ==
    /\ sub[s].pc = "idle"
    /\ sub_moves(s, "done", Null)
    /\ UNCHANGED <<closed, promo, expired, owner, placed, prev, hist>>

(* The promotion had expired when it was read; what it says now is lost.   *)
SubmitMarksExpired(s) ==
    /\ sub[s].pc = "expiring"
    /\ update_testnet_shadow_promotion_submission(sub[s].promo, "EXPIRED", Null)
    /\ sub_moves(s, "done", Null)
    /\ UNCHANGED <<closed, expired, owner, placed, prev, late, killed, shut>>

(* The kill switch, and the risk decision, which no one ever changes. *)
SubmitChecks(s) ==
    /\ sub[s].pc = "KILL_SWITCH"
    /\ sub_moves(s, IF "KILL_SWITCH" \in closed THEN "done" ELSE "admitted", Null)
    /\ UNCHANGED <<closed, promo, expired, owner, placed, prev, hist>>

(* INSERT of the order row: a used client order id ends the request.       *)
SubmitInserts(s) ==
    /\ sub[s].pc = "admitted"
    /\ LET o == sub[s].order IN
       IF owner[o] = Null
       THEN /\ owner' = [owner EXCEPT ![o] = sub[s].promo]
            /\ sub_moves(s, "inserted", Null)
       ELSE /\ sub_moves(s, "done", Null)
            /\ UNCHANGED owner
    /\ UNCHANGED <<closed, promo, expired, placed, prev, hist>>

(* The call, after a lifecycle event whose failure is ignored: the         *)
(* exchange places the order and answers, places it and the answer is      *)
(* lost, or does not place it.                                             *)
SubmitCalls(s) ==
    /\ sub[s].pc = "inserted"
    /\ \/ /\ placed' = placed \cup {sub[s].order}
          /\ \E reply \in {"OK", "ERR"} : sub_moves(s, "replied", reply)
       \/ /\ sub_moves(s, "replied", "ERR")
          /\ UNCHANGED placed
    /\ UNCHANGED <<closed, promo, expired, owner, prev, hist>>

(* Variant: the promotion is written as submitted whatever the answer. *)
SubmitRecords_always(s) ==
    /\ sub[s].pc = "replied"
    /\ update_testnet_shadow_promotion_submission(
          sub[s].promo, "SUBMITTED", sub[s].order)
    /\ sub_moves(s, "done", Null)
    /\ UNCHANGED <<closed, expired, owner, placed, prev, late, killed, shut>>

(* Variant: the column gets the adapter's answer. *)
SubmitRecords_raw(s) ==
    /\ sub[s].pc = "replied"
    /\ update_testnet_shadow_promotion_submission(
          sub[s].promo, sub[s].reply, sub[s].order)
    /\ sub_moves(s, "done", Null)
    /\ UNCHANGED <<closed, expired, owner, placed, prev, late, killed, shut>>

SubmitRecords(s) ==
    /\ sub[s].pc = "replied"
    /\ update_testnet_shadow_promotion_submission(
          sub[s].promo,
          IF sub[s].reply = "OK" THEN "SUBMITTED" ELSE "REJECTED",
          sub[s].order)
    /\ sub_moves(s, "done", Null)
    /\ UNCHANGED <<closed, expired, owner, placed, prev, late, killed, shut>>

SubmitAborts(s) ==
    /\ sub[s].pc \notin {"idle", "done"}
    /\ sub_moves(s, "done", Null)
    /\ UNCHANGED <<closed, promo, expired, owner, placed, prev, hist>>

-----------------------------------------------------------------------------
Preview(v) ==
    \/ \E r \in ShadowRuns : PreviewLooks(v, r)
    \/ PreviewChecks(v)
    \/ PreviewInserts(v)
    \/ PreviewAborts(v)

Submit(s) ==
    \/ \E p \in Previews, o \in Orders : SubmitReads(s, p, o)
    \/ SubmitRefused(s)
    \/ SubmitMarksExpired(s)
    \/ SubmitChecks(s)
    \/ SubmitInserts(s)
    \/ SubmitCalls(s)
    \/ SubmitRecords(s)
    \/ SubmitAborts(s)

Next ==
    \/ \E g \in Moving : GateCloses(g) \/ GateOpens(g)
    \/ \E p \in Previews : Expires(p)
    \/ \E v \in Previews : Preview(v)
    \/ \E s \in Submits : Submit(s)

Spec == Init /\ [][Next]_vars

-----------------------------------------------------------------------------
(* Properties. *)

SubmitPc == {"idle", "expiring", "KILL_SWITCH", "admitted", "inserted", "replied", "done"}

(* Every row and every request in flight has its type: the table holds one *)
(* of the four statuses the handlers write.                                *)
TypeOK ==
    /\ closed \subseteq Gate
    /\ promo \in [Previews -> [run    : ShadowRuns \cup {Null},
                               status : Status \cup {Null},
                               order  : Orders \cup {Null}]]
    /\ expired \subseteq Previews
    /\ owner \in [Orders -> Previews \cup {Null}]
    /\ placed \subseteq Orders
    /\ prev \in [Previews -> [pc  : {"idle", "insert", "done"} \cup Gate,
                              run : ShadowRuns \cup {Null}]]
    /\ sub \in [Submits -> [pc    : SubmitPc,
                            promo : Previews \cup {Null},
                            order : Orders \cup {Null},
                            reply : {Null, "OK", "ERR"}]]
    /\ settled \subseteq Previews
    /\ late \subseteq Submits
    /\ killed \subseteq Submits
    /\ shut \in [Previews -> SUBSET Gate]

(* However previews race and whatever late updates bring back, a shadow    *)
(* run has at most one promotion that is PREVIEWED or SUBMITTED.           *)
OneActive ==
    \A p, q \in Previews :
        active(p) /\ active(q) /\ promo[p].run = promo[q].run => p = q

(* A promotion that says SUBMITTED names an order the exchange placed, and *)
(* the order's row belongs to it: no interleaving of answers of two        *)
(* submissions of one promotion leaves the status of one with the order of *)
(* the other.                                                              *)
SubmittedIsPlaced ==
    \A p \in Previews :
        promo[p].status = "SUBMITTED" =>
            /\ promo[p].order \in placed
            /\ owner[promo[p].order] = p

(* An order that reached the exchange through a promotion has a row, and   *)
(* that row leads to a shadow run that would submit and was approved,      *)
(* whatever failed in between.                                             *)
PlacedIsTraceable ==
    \A o \in placed :
        /\ owner[o] # Null
        /\ exists(owner[o])
        /\ promo[owner[o]].run \in Promotable

(* A submit request that came after the promotion's outcome was written or *)
(* after it expired, or that came under a kill switch that has stayed on   *)
(* since, never gets as far as the order row or the exchange.              *)
Calling == {"admitted", "inserted", "replied"}
BarredPlaceNothing ==
    \A s \in late \cup killed : sub[s].pc \notin Calling

(* A gate that is closed from the moment a preview request comes until it  *)
(* ends keeps it from inserting a promotion, although each gate is looked  *)
(* at only once and at a different time.                                   *)
GatesHold == \A v \in Previews : exists(v) => shut[v] = {}

(* One promotion leads to one order, as the test of duplicate submits      *)
(* expects; two submissions that both read PREVIEWED refute it.            *)
OneOrderPerPromotion ==
    \A o, u \in placed : owner[o] = owner[u] => o = u

-----------------------------------------------------------------------------
(* The inductive strengthening of the invariants above. *)

(* What a submit request in flight knows stays true: its promotion exists, *)
(* the order row it inserted is its promotion's, and an order the exchange *)
(* acknowledged is placed.                                                 *)
SubmitEvidence ==
    \A s \in Submits :
        /\ sub[s].pc \notin {"idle", "done"} =>
              sub[s].promo \in Previews /\ exists(sub[s].promo) /\ sub[s].order \in Orders
        /\ sub[s].pc \in {"inserted", "replied"} => owner[sub[s].order] = sub[s].promo
        /\ sub[s].pc = "replied" /\ sub[s].reply = "OK" => sub[s].order \in placed

(* A preview request inserts one promotion, of a promotable run, when it   *)
(* ends; rows lead back to such runs and keep their outcome.               *)
RowEvidence ==
    /\ \A v \in Previews :
          /\ prev[v].pc # "done" => ~exists(v)
          /\ prev[v].pc \in Gate \cup {"insert"} => prev[v].run \in Promotable
          /\ exists(v) => promo[v].run \in Promotable
    /\ \A o \in Orders : owner[o] # Null => exists(owner[o])
    /\ \A o \in placed : owner[o] # Null
    /\ \A p \in settled : promo[p].status \in {"SUBMITTED", "REJECTED", "EXPIRED"}

(* How far a request that is barred can get. *)
BarredEvidence ==
    /\ \A s \in late : sub[s].pc \in {"expiring", "done"}
    /\ \A s \in killed : /\ "KILL_SWITCH" \in closed
                         /\ sub[s].pc \in {"expiring", "KILL_SWITCH", "done"}

(* A preview request has passed only gates that were open meanwhile. *)
GateEvidence ==
    \A v \in Previews :
        /\ shut[v] \subseteq closed
        /\ prev[v].pc = "STRATEGY" => "KILL_SWITCH" \notin shut[v]
        /\ prev[v].pc = "PRICE" => shut[v] \subseteq {"PRICE"}
        /\ prev[v].pc = "insert" => shut[v] = {}
        /\ exists(v) => shut[v] = {}

IInv ==
    /\ TypeOK
    /\ OneActive
    /\ SubmittedIsPlaced
    /\ SubmitEvidence
    /\ RowEvidence
    /\ BarredEvidence
    /\ GateEvidence
=============================================================================
