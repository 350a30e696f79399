----------------------- MODULE ShadowPromotions_proof -----------------------
(***************************************************************************)
(* IInv of ShadowPromotions is an invariant for any sets of shadow runs,   *)
(* previews, submits and client order ids: one lemma for each action, or   *)
(* for each group of actions that write the same variables.                *)
(***************************************************************************)
EXTENDS ShadowPromotions, TLAPS

USE PromotableAssumption, MovingAssumption, NullAssumption

(* The initial state: no row, no request. *)
LEMMA InitIInv == Init => IInv
BY DEF Init, IInv, TypeOK, OneActive, SubmittedIsPlaced, SubmitEvidence, RowEvidence,
       BarredEvidence, GateEvidence, Absent, exists, active, Gate, Null, SubmitPc, Status

(* A step that writes none of the variables. *)
LEMMA StutterIInv == IInv /\ UNCHANGED vars => IInv'
BY DEF IInv, TypeOK, OneActive, SubmittedIsPlaced, SubmitEvidence, RowEvidence,
       BarredEvidence, GateEvidence, exists, active, vars

(* A gate that closes or opens: set_kill_switch_state, enable_strategy and *)
(* disable_strategy, the feed.                                             *)
LEMMA GateIInv ==
    ASSUME IInv, NEW g \in Moving, GateCloses(g) \/ GateOpens(g)
    PROVE  IInv'
<1>1. UNCHANGED <<promo, expired, owner, placed, prev, sub, settled, late>>
  BY DEF GateCloses, GateOpens, requests, hist
<1>2. TypeOK'
  BY <1>1 DEF IInv, TypeOK, GateCloses, GateOpens, hist
<1>3. OneActive' /\ SubmittedIsPlaced' /\ SubmitEvidence' /\ RowEvidence'
  BY <1>1 DEF IInv, OneActive, SubmittedIsPlaced, SubmitEvidence, RowEvidence, exists, active
<1>4. BarredEvidence'
  BY <1>1 DEF IInv, BarredEvidence, GateCloses, GateOpens, hist
<1>5. GateEvidence'
  BY <1>1 DEF IInv, TypeOK, GateEvidence, GateCloses, GateOpens, hist, exists
<1> QED BY <1>2, <1>3, <1>4, <1>5 DEF IInv

(* Time passes for a promotion. *)
LEMMA ExpiresIInv ==
    ASSUME IInv, NEW p \in Previews, Expires(p)
    PROVE  IInv'
BY DEF IInv, TypeOK, OneActive, SubmittedIsPlaced, SubmitEvidence, RowEvidence,
       BarredEvidence, GateEvidence, Expires, exists, active, requests, hist

(* A preview request that reads, checks or ends writes no row. *)
LEMMA PreviewReadsIInv ==
    ASSUME IInv, NEW v \in Previews,
           \/ \E r \in ShadowRuns : PreviewLooks(v, r)
           \/ PreviewChecks(v)
           \/ PreviewAborts(v)
    PROVE  IInv'
<1>1. UNCHANGED <<closed, promo, expired, owner, placed, sub, settled, late, killed>>
  BY DEF PreviewLooks, PreviewChecks, PreviewAborts, hist
<1>2. /\ prev' \in [Previews -> [pc  : {"idle", "insert", "done"} \cup Gate,
                                   run : ShadowRuns \cup {Null}]]
      /\ shut' \in [Previews -> SUBSET Gate]
      /\ \A w \in Previews : w # v => prev'[w] = prev[w] /\ shut'[w] = shut[w]
      /\ prev'[v].pc # "done" => prev'[v].run \in Promotable /\ prev[v].pc # "done"
      /\ exists(v) => shut'[v] = shut[v]
      /\ shut'[v] \subseteq closed
      /\ prev'[v].pc = "STRATEGY" => "KILL_SWITCH" \notin shut'[v]
      /\ prev'[v].pc = "PRICE" => shut'[v] \subseteq {"PRICE"}
      /\ prev'[v].pc = "insert" => shut'[v] = {}
  <2>0. /\ closed \subseteq Gate
        /\ shut \in [Previews -> SUBSET Gate]
        /\ prev \in [Previews -> [pc  : {"idle", "insert", "done"} \cup Gate,
                                  run : ShadowRuns \cup {Null}]]
    BY DEF IInv, TypeOK
  <2>1. CASE \E r \in ShadowRuns : PreviewLooks(v, r)
    <3>1. PICK r \in ShadowRuns : PreviewLooks(v, r)
      BY <2>1
    <3>2. /\ prev[v].pc = "idle"
          /\ shut' = [shut EXCEPT ![v] = closed]
          /\ \/ /\ prev' = [prev EXCEPT ![v] = [pc |-> "KILL_SWITCH", run |-> r]]
                /\ r \in Promotable
             \/ prev' = [prev EXCEPT ![v] = [pc |-> "done", run |-> r]]
      BY <3>1 DEF PreviewLooks, prev_goes
    <3>3. ~exists(v)
      BY <3>2 DEF IInv, RowEvidence
    <3>4. /\ prev' \in [Previews -> [pc  : {"idle", "insert", "done"} \cup Gate,
                                     run : ShadowRuns \cup {Null}]]
          /\ prev'[v].pc \in {"KILL_SWITCH", "done"}
          /\ prev'[v].pc # "done" => prev'[v].run \in Promotable
      BY <2>0, <3>2 DEF Gate
    <3>5. /\ shut' \in [Previews -> SUBSET Gate] /\ shut'[v] = closed
          /\ \A w \in Previews : w # v => prev'[w] = prev[w] /\ shut'[w] = shut[w]
      BY <2>0, <3>2
    <3> QED BY <3>2, <3>3, <3>4, <3>5
  <2>2. CASE PreviewChecks(v)
    <3> DEFINE g == prev[v].pc
    <3>1. /\ g \in Gate /\ prev[v].run \in Promotable /\ shut' = shut
          /\ shut[v] \subseteq closed
          /\ g = "STRATEGY" => "KILL_SWITCH" \notin shut[v]
          /\ g = "PRICE" => shut[v] \subseteq {"PRICE"}
      BY <2>2 DEF PreviewChecks, IInv, RowEvidence, GateEvidence, hist
    <3>2. CASE g \in closed
      <4>1. prev' = [prev EXCEPT ![v] = [pc |-> "done", run |-> prev[v].run]]
        BY <2>2, <3>2 DEF PreviewChecks, prev_goes
      <4> QED BY <2>0, <3>1, <4>1
    <3>3. CASE g \notin closed
      <4>1. prev' = [prev EXCEPT ![v] = [pc |-> next_check(g), run |-> prev[v].run]]
        BY <2>2, <3>3 DEF PreviewChecks, prev_goes
      <4>2. \/ g = "KILL_SWITCH" /\ next_check(g) = "STRATEGY"
            \/ g = "STRATEGY" /\ next_check(g) = "PRICE"
            \/ g = "PRICE" /\ next_check(g) = "insert"
        BY <3>1 DEF Gate, next_check
      <4>3. g \notin shut[v] /\ shut[v] \subseteq Gate
        BY <2>0, <3>1, <3>3
      <4>4. /\ g = "STRATEGY" => shut[v] \subseteq {"PRICE"}
            /\ g = "PRICE" => shut[v] = {}
        BY <3>1, <4>3 DEF Gate
      <4>5. prev'[v] = [pc |-> next_check(g), run |-> prev[v].run]
        BY <2>0, <4>1
      <4>6. next_check(g) \in {"insert"} \cup Gate /\ g # "done"
        BY <4>2 DEF Gate
      <4> QED BY <2>0, <3>1, <4>1, <4>2, <4>3, <4>4, <4>5, <4>6
    <3> QED BY <3>2, <3>3
  <2>3. CASE PreviewAborts(v)
    <3>1. /\ prev' = [prev EXCEPT ![v] = [pc |-> "done", run |-> prev[v].run]]
          /\ shut' = shut /\ shut[v] \subseteq closed
      BY <2>3 DEF PreviewAborts, prev_goes, hist, IInv, GateEvidence
    <3> QED BY <2>0, <3>1
  <2> QED BY <2>1, <2>2, <2>3
<1>3. TypeOK'
  BY <1>1, <1>2 DEF IInv, TypeOK
<1>4. OneActive' /\ SubmittedIsPlaced' /\ SubmitEvidence' /\ BarredEvidence'
  BY <1>1 DEF IInv, OneActive, SubmittedIsPlaced, SubmitEvidence, BarredEvidence, exists, active
<1>5. RowEvidence'
  BY <1>1, <1>2 DEF IInv, TypeOK, RowEvidence, exists, Gate
<1>6. GateEvidence'
  BY <1>1, <1>2 DEF IInv, TypeOK, GateEvidence, exists
<1> QED BY <1>3, <1>4, <1>5, <1>6 DEF IInv

(* The insert of a promotion, which the unique index may refuse. *)
LEMMA PreviewInsertsIInv ==
    ASSUME IInv, NEW v \in Previews, PreviewInserts(v)
    PROVE  IInv'
<1>1. UNCHANGED <<closed, expired, owner, placed, sub, settled, late, killed, shut>>
  BY DEF PreviewInserts, hist
<1>2. \/ promo' = promo
      \/ /\ promo' = [promo EXCEPT ![v] = [run |-> prev[v].run, status |-> "PREVIEWED",
                                           order |-> Null]]
         /\ get_active_promotions_for_shadow_run(prev[v].run) \subseteq {v}
  BY DEF PreviewInserts, index_admits
<1>3. /\ ~exists(v)
      /\ prev[v].run \in Promotable
      /\ shut[v] = {}
      /\ prev[v].pc = "insert"
      /\ prev' = [prev EXCEPT ![v] = [pc |-> "done", run |-> prev[v].run]]
  BY DEF PreviewInserts, IInv, RowEvidence, GateEvidence, prev_goes
<1>4. TypeOK'
  BY <1>1, <1>2, <1>3 DEF IInv, TypeOK, Status
<1>5. OneActive'
  BY <1>2, <1>3 DEF IInv, TypeOK, OneActive, active, get_active_promotions_for_shadow_run
<1>6. SubmittedIsPlaced'
  BY <1>1, <1>2 DEF IInv, TypeOK, SubmittedIsPlaced
<1>7. SubmitEvidence'
  BY <1>1, <1>2 DEF IInv, TypeOK, SubmitEvidence, exists, Null
<1>8. RowEvidence'
  <2>1. \A w \in Previews : exists(w) => exists(w)' /\ promo'[w] = promo[w]
    BY <1>2, <1>3 DEF IInv, TypeOK, exists
  <2>2. \A w \in Previews : w # v => promo'[w] = promo[w] /\ prev'[w] = prev[w]
    BY <1>2, <1>3 DEF IInv, TypeOK
  <2>3. prev'[v].pc = "done" /\ (exists(v)' => promo'[v].run \in Promotable)
    BY <1>2, <1>3 DEF IInv, TypeOK, exists
  <2>4. \A o \in Orders : owner[o] # Null => owner[o] \in Previews
    BY DEF IInv, TypeOK
  <2>5. \A p \in settled : promo'[p] = promo[p]
    BY <2>1 DEF IInv, TypeOK, RowEvidence, exists, Null
  <2> QED
    BY <1>1, <2>1, <2>2, <2>3, <2>4, <2>5 DEF IInv, RowEvidence, exists, Gate
<1>9. BarredEvidence' /\ GateEvidence'
  BY <1>1, <1>2, <1>3 DEF IInv, TypeOK, BarredEvidence, GateEvidence, exists
<1> QED BY <1>4, <1>5, <1>6, <1>7, <1>8, <1>9 DEF IInv

(* A submit request that reads, checks or ends writes no row. *)
LEMMA SubmitReadsIInv ==
    ASSUME IInv, NEW s \in Submits,
           \/ \E p \in Previews, o \in Orders : SubmitReads(s, p, o)
           \/ SubmitRefused(s)
           \/ SubmitChecks(s)
           \/ SubmitAborts(s)
    PROVE  IInv'
<1>1. UNCHANGED <<closed, promo, expired, owner, placed, prev, settled, shut>>
  BY DEF SubmitReads, SubmitRefused, SubmitChecks, SubmitAborts, hist
<1>2. /\ sub \in [Submits -> [pc    : SubmitPc,
                                promo : Previews \cup {Null},
                                order : Orders \cup {Null},
                                reply : {Null, "OK", "ERR"}]]
      /\ late \subseteq Submits /\ killed \subseteq Submits
  BY DEF IInv, TypeOK
<1>3. /\ sub' \in [Submits -> [pc    : SubmitPc,
                                promo : Previews \cup {Null},
                                order : Orders \cup {Null},
                                reply : {Null, "OK", "ERR"}]]
      /\ late' \subseteq late \cup {s} /\ killed' \subseteq killed \cup {s}
      /\ \A t \in Submits : t # s => sub'[t] = sub[t]
      /\ sub'[s].pc \in {"expiring", "KILL_SWITCH", "admitted", "done"}
      /\ sub'[s].pc # "done" =>
            /\ sub'[s].promo \in Previews /\ exists(sub'[s].promo)
            /\ sub'[s].order \in Orders
      /\ s \in late' => sub'[s].pc \in {"expiring", "done"}
      /\ s \in killed' => /\ "KILL_SWITCH" \in closed
                          /\ sub'[s].pc \in {"expiring", "KILL_SWITCH", "done"}
  <2>1. CASE \E p \in Previews, o \in Orders : SubmitReads(s, p, o)
    <3>1. PICK p \in Previews, o \in Orders : SubmitReads(s, p, o)
      BY <2>1
    <3>2. /\ sub[s].pc = "idle" /\ exists(p)
          /\ late' = IF p \in settled \cup expired THEN late \cup {s} ELSE late
          /\ killed' = IF "KILL_SWITCH" \in closed THEN killed \cup {s} ELSE killed
      BY <3>1 DEF SubmitReads
    <3>3. s \notin late /\ s \notin killed
      BY <3>2 DEF IInv, BarredEvidence
    <3>4. CASE promo[p].status # "PREVIEWED"
      <4>1. sub' = [sub EXCEPT ![s] = [pc |-> "done", promo |-> p, order |-> o, reply |-> Null]]
        BY <3>1, <3>4 DEF SubmitReads, sub_goes
      <4> QED BY <1>2, <3>2, <3>3, <4>1 DEF SubmitPc
    <3>5. CASE promo[p].status = "PREVIEWED" /\ p \in expired
      <4>1. sub' = [sub EXCEPT ![s] = [pc |-> "expiring", promo |-> p, order |-> o, reply |-> Null]]
        BY <3>1, <3>5 DEF SubmitReads, sub_goes
      <4> QED BY <1>2, <3>2, <3>3, <4>1 DEF SubmitPc
    <3>6. CASE promo[p].status = "PREVIEWED" /\ p \notin expired
      <4>1. sub' = [sub EXCEPT ![s] = [pc |-> "KILL_SWITCH", promo |-> p, order |-> o, reply |-> Null]]
        BY <3>1, <3>6 DEF SubmitReads, sub_goes
      <4>2. p \notin settled
        BY <3>6 DEF IInv, RowEvidence
      <4> QED BY <1>2, <3>2, <3>3, <3>6, <4>1, <4>2 DEF SubmitPc
    <3> QED BY <3>4, <3>5, <3>6
  <2>2. CASE SubmitRefused(s) \/ SubmitAborts(s)
    <3>1. /\ sub' = [sub EXCEPT ![s] = [pc |-> "done", promo |-> sub[s].promo,
                                        order |-> sub[s].order, reply |-> Null]]
          /\ late' = late /\ killed' = killed
      BY <2>2 DEF SubmitRefused, SubmitAborts, sub_goes, sub_moves, hist
    <3>2. s \in killed => "KILL_SWITCH" \in closed
      BY DEF IInv, BarredEvidence
    <3> QED BY <1>2, <3>1, <3>2 DEF SubmitPc
  <2>3. CASE SubmitChecks(s)
    <3>1. /\ sub[s].pc = "KILL_SWITCH"
          /\ late' = late /\ killed' = killed
          /\ s \notin late
          /\ s \in killed => "KILL_SWITCH" \in closed
          /\ sub[s].promo \in Previews /\ exists(sub[s].promo) /\ sub[s].order \in Orders
      BY <2>3 DEF SubmitChecks, hist, IInv, SubmitEvidence, BarredEvidence
    <3>2. CASE "KILL_SWITCH" \in closed
      <4>1. sub' = [sub EXCEPT ![s] = [pc |-> "done", promo |-> sub[s].promo,
                                       order |-> sub[s].order, reply |-> Null]]
        BY <2>3, <3>2 DEF SubmitChecks, sub_goes, sub_moves
      <4> QED BY <1>2, <3>1, <3>2, <4>1 DEF SubmitPc
    <3>3. CASE "KILL_SWITCH" \notin closed
      <4>1. sub' = [sub EXCEPT ![s] = [pc |-> "admitted", promo |-> sub[s].promo,
                                       order |-> sub[s].order, reply |-> Null]]
        BY <2>3, <3>3 DEF SubmitChecks, sub_goes, sub_moves
      <4> QED BY <1>2, <3>1, <3>3, <4>1 DEF SubmitPc
    <3> QED BY <3>2, <3>3
  <2> QED BY <2>1, <2>2, <2>3
<1>4. TypeOK'
  BY <1>1, <1>2, <1>3 DEF IInv, TypeOK
<1>5. OneActive' /\ SubmittedIsPlaced' /\ RowEvidence' /\ GateEvidence'
  BY <1>1 DEF IInv, OneActive, SubmittedIsPlaced, RowEvidence, GateEvidence, exists, active
<1>6. SubmitEvidence'
  BY <1>1, <1>3 DEF IInv, SubmitEvidence, exists
<1>7. BarredEvidence'
  BY <1>1, <1>2, <1>3 DEF IInv, BarredEvidence
<1> QED BY <1>4, <1>5, <1>6, <1>7 DEF IInv

(* The insert of an order row. *)
LEMMA SubmitInsertsIInv ==
    ASSUME IInv, NEW s \in Submits, SubmitInserts(s)
    PROVE  IInv'
<1> USE DEF SubmitInserts, sub_goes, sub_moves, hist
<1>1. /\ sub[s].pc = "admitted"
      /\ sub[s].promo \in Previews /\ exists(sub[s].promo) /\ sub[s].order \in Orders
      /\ s \notin late \cup killed
  BY DEF IInv, SubmitEvidence, BarredEvidence
<1>2. TypeOK'
  BY <1>1 DEF IInv, TypeOK, SubmitPc
<1>3. OneActive' /\ GateEvidence'
  BY DEF IInv, OneActive, GateEvidence, exists, active
<1>4. SubmittedIsPlaced'
  BY <1>1 DEF IInv, TypeOK, SubmittedIsPlaced, RowEvidence
<1>5. SubmitEvidence'
  <2>1. /\ \A t \in Submits : t # s => sub'[t] = sub[t]
        /\ sub'[s].promo = sub[s].promo /\ sub'[s].order = sub[s].order
        /\ sub'[s].pc \in {"inserted", "done"}
    BY <1>1 DEF IInv, TypeOK
  <2>2. \A o \in Orders : owner[o] # Null => owner'[o] = owner[o]
    BY <1>1 DEF IInv, TypeOK
  <2>3. sub'[s].pc = "inserted" => owner'[sub[s].order] = sub[s].promo
    BY <1>1 DEF IInv, TypeOK
  <2>4. \A t \in Submits : sub[t].pc \in {"inserted", "replied"} => owner'[sub[t].order] = sub[t].promo
    <3>1. \A t \in Submits : sub[t].pc \in {"inserted", "replied"} =>
              /\ sub[t].order \in Orders
              /\ owner[sub[t].order] = sub[t].promo /\ owner[sub[t].order] # Null
      BY DEF IInv, SubmitEvidence
    <3> HIDE DEF SubmitInserts
    <3> QED BY <2>2, <3>1
  <2>5. promo' = promo /\ placed' = placed
    OBVIOUS
  <2> HIDE DEF SubmitInserts
  <2> QED BY <1>1, <2>1, <2>3, <2>4, <2>5 DEF IInv, SubmitEvidence, exists
<1>6. RowEvidence'
  BY <1>1 DEF IInv, TypeOK, RowEvidence, exists
<1>7. BarredEvidence'
  BY <1>1 DEF IInv, TypeOK, BarredEvidence
<1> QED BY <1>2, <1>3, <1>4, <1>5, <1>6, <1>7 DEF IInv

(* The call of the exchange. *)
LEMMA SubmitCallsIInv ==
    ASSUME IInv, NEW s \in Submits, SubmitCalls(s)
    PROVE  IInv'
<1>1. /\ sub[s].pc = "inserted"
      /\ sub[s].promo \in Previews /\ exists(sub[s].promo) /\ sub[s].order \in Orders
      /\ owner[sub[s].order] = sub[s].promo
      /\ s \notin late \cup killed
  BY DEF IInv, SubmitEvidence, BarredEvidence, SubmitCalls
<1>2. PICK reply \in {"OK", "ERR"} :
          /\ sub' = [sub EXCEPT ![s] = [pc |-> "replied", promo |-> sub[s].promo,
                                        order |-> sub[s].order, reply |-> reply]]
          /\ \/ placed' = placed \cup {sub[s].order}
             \/ placed' = placed /\ reply = "ERR"
  BY DEF SubmitCalls, sub_goes, sub_moves
<1>3. UNCHANGED <<closed, promo, expired, owner, prev, settled, late, killed, shut>>
  BY DEF SubmitCalls, hist
<1>4. TypeOK'
  BY <1>1, <1>2, <1>3 DEF IInv, TypeOK, SubmitPc
<1>5. OneActive' /\ GateEvidence'
  BY <1>3 DEF IInv, OneActive, GateEvidence, exists, active
<1>6. SubmittedIsPlaced'
  BY <1>2, <1>3 DEF IInv, SubmittedIsPlaced
<1>7. SubmitEvidence'
  BY <1>1, <1>2, <1>3 DEF IInv, TypeOK, SubmitEvidence, exists
<1>8. RowEvidence' /\ BarredEvidence'
  BY <1>1, <1>2, <1>3 DEF IInv, TypeOK, RowEvidence, BarredEvidence, exists
<1> QED BY <1>4, <1>5, <1>6, <1>7, <1>8 DEF IInv

(* The two updates of a promotion, after an answer and after the expiry.   *)
LEMMA SubmitUpdatesIInv ==
    ASSUME IInv, NEW s \in Submits, SubmitMarksExpired(s) \/ SubmitRecords(s)
    PROVE  IInv'
<1> DEFINE p == sub[s].promo
<1>1. /\ sub[s].pc \in {"expiring", "replied"}
      /\ p \in Previews /\ exists(p) /\ sub[s].order \in Orders
  BY DEF IInv, SubmitEvidence, SubmitMarksExpired, SubmitRecords
<1>2. /\ sub' = [sub EXCEPT ![s] = [pc |-> "done", promo |-> p,
                                    order |-> sub[s].order, reply |-> Null]]
      /\ UNCHANGED <<closed, expired, owner, placed, prev, late, killed, shut>>
  BY DEF SubmitMarksExpired, SubmitRecords, sub_goes, sub_moves
<1>3. CASE UNCHANGED <<promo, settled>>
  <2>1. TypeOK'
    BY <1>1, <1>2, <1>3 DEF IInv, TypeOK, SubmitPc
  <2>2. OneActive' /\ SubmittedIsPlaced' /\ RowEvidence' /\ GateEvidence'
    BY <1>2, <1>3 DEF IInv, OneActive, SubmittedIsPlaced, RowEvidence, GateEvidence,
                      exists, active
  <2>3. SubmitEvidence' /\ BarredEvidence'
    BY <1>1, <1>2, <1>3 DEF IInv, TypeOK, SubmitEvidence, BarredEvidence, exists
  <2> QED BY <2>1, <2>2, <2>3 DEF IInv
<1>4. CASE ~UNCHANGED <<promo, settled>>
  <2>1. PICK status \in {"SUBMITTED", "REJECTED", "EXPIRED"}, o \in Orders \cup {Null} :
            /\ index_admits(p, promo[p].run, status)
            /\ promo' = [promo EXCEPT ![p] = [run |-> promo[p].run, status |-> status,
                                              order |-> o]]
            /\ settled' = settled \cup {p}
            /\ status = "SUBMITTED" => o \in placed /\ owner[o] = p
    <3>1. CASE SubmitMarksExpired(s)
      BY <1>1, <1>4, <3>1 DEF SubmitMarksExpired, update_testnet_shadow_promotion_submission,
                              IInv, TypeOK
    <3>2. CASE SubmitRecords(s)
      <4>1. sub[s].reply = "OK" => sub[s].order \in placed
        BY <3>2 DEF SubmitRecords, IInv, SubmitEvidence
      <4>2. owner[sub[s].order] = p
        BY <3>2 DEF SubmitRecords, IInv, SubmitEvidence
      <4> QED
        BY <1>1, <1>4, <3>2, <4>1, <4>2
           DEF SubmitRecords, update_testnet_shadow_promotion_submission, IInv, TypeOK
    <3> QED BY <3>1, <3>2
  <2>2. TypeOK'
    BY <1>1, <1>2, <2>1 DEF IInv, TypeOK, SubmitPc, Status
  <2>3. OneActive'
    BY <1>1, <2>1 DEF IInv, TypeOK, OneActive, active, index_admits,
                      get_active_promotions_for_shadow_run
  <2>4. SubmittedIsPlaced'
    BY <1>1, <1>2, <2>1 DEF IInv, TypeOK, SubmittedIsPlaced
  <2>5. SubmitEvidence'
    BY <1>1, <1>2, <2>1 DEF IInv, TypeOK, SubmitEvidence, exists, Null
  <2>6. RowEvidence'
    BY <1>1, <1>2, <2>1 DEF IInv, TypeOK, RowEvidence, exists, Null
  <2>7. BarredEvidence' /\ GateEvidence'
    BY <1>1, <1>2, <2>1 DEF IInv, TypeOK, BarredEvidence, GateEvidence, exists, Null
  <2> QED BY <2>2, <2>3, <2>4, <2>5, <2>6, <2>7 DEF IInv
<1> QED BY <1>3, <1>4

(* IInv is an invariant of the promotions. *)
THEOREM Invariant == Spec => []IInv
<1>1. IInv /\ [Next]_vars => IInv'
  <2> SUFFICES ASSUME IInv, [Next]_vars PROVE IInv'
    OBVIOUS
  <2>1. ASSUME NEW g \in Moving, GateCloses(g) \/ GateOpens(g) PROVE IInv'
    BY <2>1, GateIInv
  <2>2. ASSUME NEW p \in Previews, Expires(p) PROVE IInv'
    BY <2>2, ExpiresIInv
  <2>3. ASSUME NEW v \in Previews, Preview(v) PROVE IInv'
    BY <2>3, PreviewReadsIInv, PreviewInsertsIInv DEF Preview
  <2>4. ASSUME NEW s \in Submits, Submit(s) PROVE IInv'
    BY <2>4, SubmitReadsIInv, SubmitInsertsIInv, SubmitCallsIInv, SubmitUpdatesIInv
       DEF Submit
  <2>5. CASE UNCHANGED vars
    BY <2>5, StutterIInv
  <2> QED BY <2>1, <2>2, <2>3, <2>4, <2>5 DEF Next
<1> QED BY InitIInv, <1>1, PTL DEF Spec

(* The handlers write only statuses, orders and runs the tables know. *)
THEOREM TypeCorrect == Spec => []TypeOK
<1>1. IInv => TypeOK BY DEF IInv
<1> QED BY <1>1, Invariant, PTL

(* A shadow run never has two active promotions. *)
THEOREM NeverTwoActive == Spec => []OneActive
<1>1. IInv => OneActive BY DEF IInv
<1> QED BY <1>1, Invariant, PTL

(* SUBMITTED always stands beside its own, placed order. *)
THEOREM SubmittedTellsTheTruth == Spec => []SubmittedIsPlaced
<1>1. IInv => SubmittedIsPlaced BY DEF IInv
<1> QED BY <1>1, Invariant, PTL

(* Every placed order leads back to an approved shadow run. *)
THEOREM OrdersAreTraceable == Spec => []PlacedIsTraceable
<1>1. IInv => PlacedIsTraceable
  BY DEF IInv, TypeOK, RowEvidence, PlacedIsTraceable
<1> QED BY <1>1, Invariant, PTL

(* Requests that come too late, or under the kill switch, do not call. *)
THEOREM BarredRequestsStop == Spec => []BarredPlaceNothing
<1>1. IInv => BarredPlaceNothing
  BY DEF IInv, BarredEvidence, BarredPlaceNothing, Calling
<1> QED BY <1>1, Invariant, PTL

(* A gate closed all along keeps a preview from being inserted. *)
THEOREM ClosedGatesHold == Spec => []GatesHold
<1>1. IInv => GatesHold
  BY DEF IInv, GateEvidence, GatesHold
<1> QED BY <1>1, Invariant, PTL
=============================================================================
