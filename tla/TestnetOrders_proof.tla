------------------------ MODULE TestnetOrders_proof ------------------------
(***************************************************************************)
(* Proofs about TestnetOrders, for any number of orders, requests and      *)
(* runs: IInv is inductive, so the row is truthful about every order that  *)
(* is over and no order is placed twice.                                   *)
(***************************************************************************)
EXTENDS TestnetOrders, FiniteSetTheorems, TLAPS

-----------------------------------------------------------------------------
(* The tables. *)

(* y renders x: if y says an order is over, x says the same. *)
Renders(y, x) ==
    y \in OverWords => x \in OverWords /\ exchange_word(y) = exchange_word(x)

LEMMA AckMapped ==
    ASSUME NEW x \in ExchangeOrderState
    PROVE  map_exchange_ack(x) \in TestnetExecutionState /\ Renders(map_exchange_ack(x), x)
BY Zenon DEF map_exchange_ack, TestnetExecutionState, ExchangeOrderState, Renders,
   OverWords, exchange_word

(* The words as the client parses them: an unknown acknowledgement says    *)
(* nothing of an order's end, an unknown answer to a cancel does.          *)
LEMMA AckParsed ==
    ASSUME NEW w \in ExchangeOrderState \cup {"UNKNOWN"}
    PROVE  /\ into_exchange_ack(w) \in ExchangeOrderState
           /\ Renders(into_exchange_ack(w), w)
BY DEF into_exchange_ack, ExchangeOrderState, Renders, OverWords, exchange_word

LEMMA CancelParsed ==
    ASSUME NEW w \in ExchangeOrderState \cup {"UNKNOWN"}
    PROVE  /\ into_exchange_cancel_ack(w) \in ExchangeOrderState
           /\ w # "UNKNOWN" => into_exchange_cancel_ack(w) = w
           /\ w = "UNKNOWN" => into_exchange_cancel_ack(w) = "CANCELED"
BY DEF into_exchange_cancel_ack, ExchangeOrderState

LEMMA ReportMapped ==
    ASSUME NEW x \in ExchangeExecutionStatus
    PROVE  /\ map_private_execution_report(x) \in TestnetExecutionState
           /\ Renders(map_private_execution_report(x), x)
BY Zenon DEF map_private_execution_report, TestnetExecutionState, ExchangeOrderState, Renders,
   OverWords, exchange_word, ExchangeExecutionStatus

LEMMA RestMapped ==
    ASSUME NEW x \in ExchangeOrderState
    PROVE  /\ map_rest_reconciliation_status(x) \in TestnetExecutionState
           /\ Renders(map_rest_reconciliation_status(x), x)
BY Zenon DEF map_rest_reconciliation_status, TestnetExecutionState, ExchangeOrderState,
   Renders, OverWords, exchange_word

LEMMA CancelMapped ==
    ASSUME NEW x \in ExchangeOrderState
    PROVE  map_cancel_ack(x) \in TestnetExecutionState /\ Renders(map_cancel_ack(x), x)
BY Zenon DEF map_cancel_ack, TestnetExecutionState, ExchangeOrderState, Renders,
   OverWords, exchange_word

LEMMA StatusMapped ==
    ASSUME NEW x \in ExchangeOrderState
    PROVE  /\ local_testnet_status(x) \in LocalStatus \cup {Null}
           /\ Renders(local_testnet_status(x), x)
BY Zenon DEF local_testnet_status, LocalStatus, ExchangeOrderState, ExchangeExecutionStatus,
   Renders, OverWords, exchange_word, Null

LEMMA AckStatusMapped ==
    ASSUME NEW x \in ExchangeOrderState
    PROVE  ack_local_status(x) \in LocalStatus /\ Renders(ack_local_status(x), x)
BY Zenon DEF ack_local_status, local_testnet_status, LocalStatus, ExchangeOrderState,
   ExchangeExecutionStatus, Renders, OverWords, exchange_word, Null

LEMMA MarkMapped ==
    ASSUME NEW a \in MarkAction
    PROVE  /\ repair_target(a) \in TestnetExecutionState \ {"FILLED"}
           /\ repair_status(a) \in LocalStatus \cup {Null}
           /\ repair_status(a) # "FILLED"
           /\ repair_source(a) \in TransitionSource
           /\ is_terminal(repair_target(a))
                \/ (repair_target(a) \notin OverWords /\ repair_status(a) \notin OverWords)
<1>1. \/ repair_target(a) = "RECONCILIATION_REQUIRED" /\ repair_status(a) = Null
      \/ repair_target(a) = "EXCHANGE_ACKED" /\ repair_status(a) = "ACKED"
      \/ repair_target(a) = "CANCELLED" /\ repair_status(a) = "CANCELLED"
      \/ repair_target(a) = "REJECTED" /\ repair_status(a) = "REJECTED"
      \/ repair_target(a) = "FAILED" /\ repair_status(a) = "FAILED"
  BY Zenon DEF repair_target, repair_status, MarkAction
<1>2. repair_source(a) \in TransitionSource
  BY Zenon DEF repair_source, MarkAction, TransitionSource
<1> QED
  BY <1>1, <1>2 DEF LocalStatus, ExchangeExecutionStatus, ExchangeOrderState,
     TestnetExecutionState, OverWords, is_terminal, Null

LEMMA SafeCancelMapped ==
    /\ repair_target("SAFE_CANCEL_REQUEST") = "CANCEL_REQUESTED"
    /\ repair_source("SAFE_CANCEL_REQUEST") = "API_CANCEL"
BY Zenon DEF repair_target, repair_source

LEMMA TerminalAccepts ==
    ASSUME NEW p, NEW n, is_terminal(p), validate_testnet_transition(p, n)
    PROVE  n = "UNKNOWN_EXCHANGE_STATE"
BY Zenon DEF validate_testnet_transition, allowed_next

-----------------------------------------------------------------------------
(* The write that ends every handler, and what it leaves true of the rows. *)

RowInv == DbTypeOK /\ EventMatchesRow /\ TerminalIsTrue

Wrote(o, next, status) ==
    /\ row' = [row EXCEPT ![o] = row'[o]]
    /\ row'[o] \in Row
    /\ row'[o].state = next
    /\ row'[o].status \in {status, row[o].status}
    /\ status = Null => row'[o].status = row[o].status
    /\ last' = [last EXCEPT ![o] = last'[o]]
    /\ last'[o] \in Event
    /\ last'[o].next = next

(* What a word of the present says of the next state, and that nothing     *)
(* said truthfully stops being true.                                       *)
ProvenNext(o, w) == w \in OverWords => exch'[o] = exchange_word(w)
TruthfulNext(o, w) ==
    \/ ProvenNext(o, w)
    \/ w # "FILLED" /\ o \in marked'
    \/ w \in {"CANCELED", "CANCELLED"} /\ o \in guessed'

ProvenKept == \A q \in Orders : \A w : Proven(q, w) => ProvenNext(q, w)
TruthKept == \A q \in Orders : \A w : Truthful(q, w) => TruthfulNext(q, w)
RowsKept == \A q \in Orders : exists(q) => exists(q)'

LEMMA Writes ==
    ASSUME DbTypeOK, NEW o \in Orders,
           NEW prev \in TestnetExecutionState \cup {Null},
           NEW next \in TestnetExecutionState, NEW source \in TransitionSource,
           NEW status \in LocalStatus \cup {Null},
           NEW payload \in ExchangeExecutionStatus \cup {Null, "FORCE"},
           NEW ack \in ExchangeOrderState \cup {Null, "UNKNOWN"},
           append_lifecycle_event_and_update_order(o, prev, next, source, status, payload, ack)
    PROVE  Wrote(o, next, status)
<1>1. /\ row[o] \in Row
      /\ row'[o] = [status |-> coalesce(status, row[o].status), state |-> next,
                    ack |-> coalesce(ack, row[o].ack),
                    payload |-> coalesce(payload, row[o].payload)]
      /\ row' = [row EXCEPT ![o] = row'[o]]
      /\ last'[o] = [prev |-> prev, next |-> next, source |-> source]
      /\ last' = [last EXCEPT ![o] = last'[o]]
  BY DEF append_lifecycle_event_and_update_order, DbTypeOK
<1>2. last'[o] \in Event
  BY <1>1 DEF Event
<1>3. /\ coalesce(status, row[o].status) \in LocalStatus \cup {Null}
      /\ coalesce(ack, row[o].ack) \in ExchangeOrderState \cup {Null, "UNKNOWN"}
      /\ coalesce(payload, row[o].payload) \in ExchangeExecutionStatus \cup {Null, "FORCE"}
      /\ coalesce(status, row[o].status) \in {status, row[o].status}
      /\ status = Null => coalesce(status, row[o].status) = row[o].status
  BY <1>1 DEF coalesce, Row
<1>4. row'[o] \in Row
  BY <1>1, <1>3 DEF Row
<1> QED
  BY <1>1, <1>2, <1>3, <1>4 DEF Wrote

LEMMA WroteKeeps ==
    ASSUME RowInv, NEW o \in Orders, NEW next \in TestnetExecutionState, NEW status,
           Wrote(o, next, status), exists(o), TruthKept,
           TruthfulNext(o, next), TruthfulNext(o, status)
    PROVE  RowInv' /\ RowsKept
<1>1. DbTypeOK'
  BY DEF RowInv, DbTypeOK, Wrote
<1>2. \A q \in Orders : q # o => row'[q] = row[q] /\ last'[q] = last[q]
  BY DEF RowInv, DbTypeOK, Wrote
<1>3. next # Null
  BY DEF TestnetExecutionState, Null
<1>4. RowsKept
  BY <1>2, <1>3 DEF RowsKept, exists, Wrote
<1>5. EventMatchesRow'
  BY <1>2, <1>3 DEF RowInv, EventMatchesRow, exists, Wrote
<1>6. TerminalIsTrue'
  <2> SUFFICES ASSUME NEW q \in Orders
               PROVE  Truthful(q, row[q].state)' /\ Truthful(q, row[q].status)'
    BY DEF TerminalIsTrue
  <2>1. Truthful(q, row[q].state) /\ Truthful(q, row[q].status)
    BY DEF RowInv, TerminalIsTrue
  <2>2. CASE q # o
    BY <1>2, <2>1, <2>2 DEF TruthKept, TruthfulNext, ProvenNext, Truthful, Proven
  <2>3. CASE q = o
    BY <2>1, <2>3 DEF TruthKept, TruthfulNext, ProvenNext, Truthful, Proven, Wrote
  <2> QED
    BY <2>2, <2>3
<1> QED
  BY <1>1, <1>4, <1>5, <1>6 DEF RowInv

LEMMA NothingWritten ==
    ASSUME RowInv, UNCHANGED db, TruthKept
    PROVE  RowInv' /\ RowsKept
<1>1. DbTypeOK' /\ EventMatchesRow' /\ RowsKept
  BY DEF RowInv, DbTypeOK, EventMatchesRow, RowsKept, exists, db
<1>2. TerminalIsTrue'
  BY DEF RowInv, TerminalIsTrue, TruthKept, TruthfulNext, ProvenNext, Truthful, Proven, db
<1> QED
  BY <1>1, <1>2 DEF RowInv

(* A transition checked by the validator is written or refused. *)
LEMMA TransitionKeeps ==
    ASSUME RowInv, NEW o \in Orders, exists(o), TruthKept, NEW snap \in Row,
           NEW next \in TestnetExecutionState, NEW source \in TransitionSource,
           NEW status \in LocalStatus \cup {Null},
           NEW payload \in ExchangeExecutionStatus \cup {Null, "FORCE"},
           NEW ack \in ExchangeOrderState \cup {Null, "UNKNOWN"},
           TruthfulNext(o, next), TruthfulNext(o, status),
           append_testnet_lifecycle_transition(o, snap, next, source, status, payload, ack)
    PROVE  RowInv' /\ RowsKept
<1>1. CASE UNCHANGED db
  BY <1>1, NothingWritten
<1>2. CASE append_lifecycle_event_and_update_order(
              o, snap.state, next, source, status, payload, ack)
  <2>1. snap.state \in TestnetExecutionState \cup {Null}
    BY DEF Row
  <2>2. Wrote(o, next, status)
    BY <1>2, <2>1, Writes DEF RowInv
  <2> QED
    BY <2>2, WroteKeeps
<1> QED
  BY <1>1, <1>2 DEF append_testnet_lifecycle_transition

(* What the validator refuses is flagged instead. *)
LEMMA FlaggingKeeps ==
    ASSUME RowInv, NEW o \in Orders, exists(o), TruthKept, NEW snap \in Row,
           NEW next \in TestnetExecutionState, NEW source \in TransitionSource,
           NEW status \in LocalStatus \cup {Null},
           NEW payload \in ExchangeExecutionStatus \cup {Null, "FORCE"},
           TruthfulNext(o, next), TruthfulNext(o, status),
           append_or_flag(o, snap, next, source, status, payload)
    PROVE  RowInv' /\ RowsKept
<1> DEFINE n == IF validate_testnet_transition(snap.state, next)
                THEN next ELSE "RECONCILIATION_REQUIRED"
<1>1. /\ snap.state \in TestnetExecutionState \cup {Null}
      /\ n \in TestnetExecutionState
      /\ TruthfulNext(o, n)
  BY DEF Row, TestnetExecutionState, TruthfulNext, ProvenNext, OverWords
<1>2. append_lifecycle_event_and_update_order(
         o, snap.state, n, source, status, payload, Null)
  BY DEF append_or_flag
<1> HIDE DEF n
<1>3. Wrote(o, n, status)
  BY <1>1, <1>2, Writes DEF RowInv
<1> QED
  BY <1>1, <1>3, WroteKeeps

-----------------------------------------------------------------------------
(* What each process knows. *)

WireInv   == ExchangeTypeOK /\ WireEvidence
StreamInv == StreamTypeOK /\ StreamEvidence
SubInv    == SubTypeOK /\ SubEvidence
ReqInv    == ReqTypeOK /\ ReqEvidence
RunInv    == RunTypeOK /\ RunEvidence
PlaceInv  == PlacedOnce /\ NothingPlacedWithoutRow /\ OneCaller

LEMMA Parts ==
    IInv <=> /\ RowInv /\ WireInv /\ StreamInv /\ SubInv /\ ReqInv /\ RunInv
             /\ PlaceInv /\ HistoryTypeOK
BY DEF IInv, TypeOK, RowInv, WireInv, StreamInv, SubInv, ReqInv, RunInv, PlaceInv

LEMMA PartsNext ==
    ASSUME RowInv', WireInv', StreamInv', SubInv', ReqInv', RunInv', PlaceInv', HistoryTypeOK'
    PROVE  IInv'
BY DEF IInv, TypeOK, RowInv, WireInv, StreamInv, SubInv, ReqInv, RunInv, PlaceInv

(* An exchange that does not move, or moves an order that is not over,     *)
(* keeps every truth.                                                      *)
LEMMA SameExchange ==
    ASSUME UNCHANGED exch, marked \subseteq marked', guessed \subseteq guessed'
    PROVE  ProvenKept /\ TruthKept
BY DEF ProvenKept, TruthKept, ProvenNext, TruthfulNext, Proven, Truthful

LEMMA LiveOrderMoves ==
    ASSUME ExchangeTypeOK, NEW o \in Orders, NEW x, ~exchange_final(exch[o]),
           exch' = [exch EXCEPT ![o] = x], UNCHANGED <<marked, guessed>>
    PROVE  ProvenKept /\ TruthKept
BY DEF ExchangeTypeOK, exchange_final, ProvenKept, TruthKept, ProvenNext, TruthfulNext,
   Proven, Truthful, OverWords, exchange_word

(* A process that does not step keeps what it knows. *)
LEMMA Frames ==
    ASSUME IInv, ProvenKept, TruthKept, RowsKept
    PROVE  /\ UNCHANGED <<exch, wire>> => WireInv'
           /\ UNCHANGED stream => StreamInv'
           /\ UNCHANGED sub => SubInv'
           /\ UNCHANGED req => ReqInv'
           /\ UNCHANGED recon => RunInv'
           /\ UNCHANGED <<exch, placed, sub>> => PlaceInv'
<1>1. ASSUME UNCHANGED <<exch, wire>> PROVE WireInv'
  BY <1>1 DEF IInv, TypeOK, WireInv, ExchangeTypeOK, WireEvidence, Proven
<1>2. ASSUME UNCHANGED stream PROVE StreamInv'
  <2>1. StreamTypeOK'
    BY <1>2 DEF IInv, TypeOK, StreamTypeOK
  <2>2. ASSUME stream.pc = "handling" PROVE stream.report.order \in Orders
    BY <2>2 DEF IInv, TypeOK, StreamTypeOK, Report
  <2>3. StreamEvidence'
    BY <1>2, <2>2 DEF IInv, StreamEvidence, ProvenKept, RowsKept, ProvenNext, Proven, exists
  <2> QED
    BY <2>1, <2>3 DEF StreamInv
<1>3. ASSUME UNCHANGED sub PROVE SubInv'
  BY <1>3 DEF IInv, TypeOK, SubInv, SubTypeOK, SubEvidence, ProvenKept, ProvenNext, Proven
<1>4. ASSUME UNCHANGED req PROVE ReqInv'
  <2>1. ReqTypeOK'
    BY <1>4 DEF IInv, TypeOK, ReqTypeOK
  <2>2. ReqEvidence'
    BY <1>4 DEF IInv, TypeOK, ReqTypeOK, ReqEvidence, ProvenKept, RowsKept, ProvenNext,
       Proven, exists
  <2> QED
    BY <2>1, <2>2 DEF ReqInv
<1>5. ASSUME UNCHANGED recon PROVE RunInv'
  <2>1. RunTypeOK'
    BY <1>5 DEF IInv, TypeOK, RunTypeOK, recon
  <2>2. \A k \in Runs : /\ run[k].todo \subseteq Orders
                        /\ run[k].pc = "replied" => run[k].order \in Orders
    BY DEF IInv, TypeOK, RunTypeOK
  <2>3. RunEvidence'
    BY <1>5, <2>2 DEF recon, IInv, RunEvidence, ProvenKept, TruthKept, RowsKept, ProvenNext,
       TruthfulNext, Proven, Truthful, exists
  <2> QED
    BY <2>1, <2>3 DEF RunInv
<1>6. ASSUME UNCHANGED <<exch, placed, sub>> PROVE PlaceInv'
  <2>1. PlacedOnce' /\ NothingPlacedWithoutRow'
    BY <1>6 DEF IInv, PlacedOnce, NothingPlacedWithoutRow, RowsKept, exists
  <2>2. OneCaller'
    BY <1>6 DEF IInv, TypeOK, SubTypeOK, OneCaller, RowsKept, exists
  <2> QED
    BY <2>1, <2>2 DEF PlaceInv
<1> QED
  BY <1>1, <1>2, <1>3, <1>4, <1>5, <1>6

-----------------------------------------------------------------------------
(* The steps that leave the rows and the exchange's orders alone. *)

LEMMA Quiet ==
    ASSUME IInv, UNCHANGED <<db, exch, marked, guessed>>
    PROVE  RowInv' /\ ProvenKept /\ TruthKept /\ RowsKept
<1>1. ProvenKept /\ TruthKept
  BY SameExchange
<1> QED
  BY <1>1, NothingWritten, Parts

LEMMA UnknownReportKeeps ==
    ASSUME IInv, NEW o \in Orders, ExchangeReportsUnknown(o)
    PROVE  IInv'
<1> USE DEF ExchangeReportsUnknown, hist
<1>1. RowInv' /\ ProvenKept /\ TruthKept /\ RowsKept
  BY Quiet
<1>2. /\ StreamInv' /\ SubInv' /\ ReqInv' /\ RunInv' /\ PlaceInv'
  BY <1>1, Frames
<1>3. HistoryTypeOK'
  BY DEF IInv, TypeOK, HistoryTypeOK
<1>4. [order |-> o, status |-> "UNKNOWN"] \in Report
  BY DEF Report, ExchangeExecutionStatus
<1>5. ExchangeTypeOK'
  BY <1>4 DEF IInv, TypeOK, ExchangeTypeOK
<1>6. WireEvidence'
  BY <1>4 DEF IInv, TypeOK, ExchangeTypeOK, WireEvidence, Proven, OverWords
<1> QED
  BY <1>1, <1>2, <1>3, <1>5, <1>6, PartsNext DEF WireInv

LEMMA KillSwitchKeeps ==
    ASSUME IInv, NEW on \in BOOLEAN, set_kill_switch_state(on)
    PROVE  IInv'
<1> USE DEF set_kill_switch_state
<1>1. RowInv' /\ ProvenKept /\ TruthKept /\ RowsKept
  BY Quiet
<1>2. WireInv' /\ StreamInv' /\ SubInv' /\ ReqInv' /\ RunInv' /\ PlaceInv'
  BY <1>1, Frames
<1>3. HistoryTypeOK'
  BY DEF IInv, TypeOK, HistoryTypeOK
<1> QED
  BY <1>1, <1>2, <1>3, PartsNext

(* A submit handler is admitted, refused or gives up. *)
LEMMA SubmitQuietKeeps ==
    ASSUME IInv, NEW s \in Submits,
           \/ \E o \in Orders : SubmitAdmitted(s, o)
           \/ SubmitRefused(s)
           \/ SubmitAborted(s)
    PROVE  IInv'
<1> USE DEF SubmitAdmitted, SubmitRefused, SubmitAborted, sub_ends, sub_goes, hist
<1>1. RowInv' /\ ProvenKept /\ TruthKept /\ RowsKept
  BY Quiet
<1>2. WireInv' /\ StreamInv' /\ ReqInv' /\ RunInv'
  BY <1>1, Frames
<1>3. HistoryTypeOK'
  BY DEF IInv, TypeOK, HistoryTypeOK
<1>4. SubTypeOK'
  BY DEF IInv, TypeOK, SubTypeOK, Reply
<1>5. SubEvidence'
  BY <1>1 DEF IInv, TypeOK, SubTypeOK, SubEvidence, Proven
<1>6. PlacedOnce' /\ NothingPlacedWithoutRow'
  BY DEF IInv, PlacedOnce, NothingPlacedWithoutRow, exists, db
<1>7. OneCaller'
  BY DEF IInv, TypeOK, SubTypeOK, OneCaller, exists, db
<1> QED
  BY <1>1, <1>2, <1>3, <1>4, <1>5, <1>6, <1>7, PartsNext DEF SubInv, PlaceInv

(* A request is read, asks the exchange for a status or gives up. *)
LEMMA RequestQuietKeeps ==
    ASSUME IInv, NEW r \in Requests,
           \/ \E op \in Ops, o \in Orders, force \in BOOLEAN : RequestRead(r, op, o, force)
           \/ StatusCall(r)
           \/ RequestAborted(r)
    PROVE  IInv'
<1> USE DEF RequestRead, StatusCall, RequestAborted, req_ends, req_goes, hist
<1>1. RowInv' /\ ProvenKept /\ TruthKept /\ RowsKept
  BY Quiet
<1>2. WireInv' /\ StreamInv' /\ SubInv' /\ RunInv' /\ PlaceInv'
  BY <1>1, Frames
<1>3. HistoryTypeOK'
  BY DEF IInv, TypeOK, HistoryTypeOK
<1>4. ReqTypeOK' /\ ReqEvidence'
  <2>1. Absent \in Row
    BY DEF Absent, Row
  <2>2. NoRequest("done") \in [pc : {"idle", "read", "marked", "replied", "done"},
                               op : Op \cup {Null}, order : Orders \cup {Null},
                               force : BOOLEAN, snap : Row, reply : Reply]
    BY <2>1 DEF NoRequest, Reply
  <2>3. NoRequest("done").pc = "done"
    BY DEF NoRequest
  <2>4. CASE \E op \in Ops, o \in Orders, force \in BOOLEAN : RequestRead(r, op, o, force)
    BY <2>2, <2>3, <2>4, InputsAssumption DEF IInv, TypeOK, ReqTypeOK, DbTypeOK,
       ReqEvidence, exists, db, Reply, Proven
  <2>5. CASE StatusCall(r)
    BY <2>5 DEF IInv, TypeOK, ReqTypeOK, ExchangeTypeOK, ReqEvidence, exists, db,
       Reply, Proven, OverWords, exchange_word, ExchangeOrderState, Null
  <2>6. CASE RequestAborted(r)
    BY <2>2, <2>3, <2>6 DEF IInv, TypeOK, ReqTypeOK, ReqEvidence, exists, db, Proven
  <2> QED
    BY <2>4, <2>5, <2>6
<1> QED
  BY <1>1, <1>2, <1>3, <1>4, PartsNext DEF ReqInv

(* The stream connects, is lost, or takes a report. *)
LEMMA StreamQuietKeeps ==
    ASSUME IInv, StreamConnect \/ StreamLost \/ StreamTake
    PROVE  IInv'
<1> USE DEF StreamConnect, StreamLost, StreamTake, hist
<1>1. RowInv' /\ ProvenKept /\ TruthKept /\ RowsKept
  BY Quiet
<1>2. SubInv' /\ ReqInv' /\ RunInv' /\ PlaceInv'
  BY <1>1, Frames
<1>3. HistoryTypeOK'
  BY DEF IInv, TypeOK, HistoryTypeOK
<1>4. Absent \in Row
  BY DEF Absent, Row
<1>5. CASE StreamConnect
  <2>1. WireInv'
    BY <1>1, <1>5, Frames
  <2>2. StreamInv'
    BY <1>5 DEF IInv, TypeOK, StreamTypeOK, StreamInv, StreamEvidence
  <2> QED
    BY <1>1, <1>2, <1>3, <2>1, <2>2, PartsNext
<1>6. CASE StreamLost
  <2>1. WireInv'
    BY <1>6 DEF IInv, TypeOK, WireInv, ExchangeTypeOK, WireEvidence
  <2>2. StreamInv'
    BY <1>4, <1>6 DEF StreamInv, StreamTypeOK, StreamEvidence
  <2> QED
    BY <1>1, <1>2, <1>3, <2>1, <2>2, PartsNext
<1>7. CASE StreamTake
  <2>1. /\ wire \in Seq(Report) /\ wire # <<>>
        /\ Head(wire) \in Report /\ Head(wire) = wire[1] /\ 1 \in 1 .. Len(wire)
        /\ Tail(wire) \in Seq(Report) /\ Len(Tail(wire)) = Len(wire) - 1
        /\ \A i \in 1 .. Len(Tail(wire)) :
              Tail(wire)[i] = wire[i + 1] /\ i + 1 \in 1 .. Len(wire)
    BY <1>7 DEF IInv, TypeOK, ExchangeTypeOK
  <2>2. ExchangeTypeOK'
    BY <1>7, <2>1 DEF IInv, TypeOK, ExchangeTypeOK
  <2>3. WireEvidence'
    BY <1>7, <2>1 DEF IInv, WireEvidence, Proven
  <2>4. Head(wire).order \in Orders
    BY <2>1 DEF Report
  <2>5. StreamTypeOK'
    BY <1>7, <2>1, <2>4 DEF IInv, TypeOK, StreamTypeOK, DbTypeOK
  <2>6. StreamEvidence'
    BY <1>7, <2>1, <2>4 DEF IInv, TypeOK, StreamTypeOK, StreamEvidence, WireEvidence,
       exists, db, Proven
  <2> QED
    BY <1>1, <1>2, <1>3, <2>2, <2>3, <2>5, <2>6, PartsNext DEF WireInv, StreamInv
<1> QED
  BY <1>5, <1>6, <1>7

(* A run that steps knows what it knew, and what it has just learnt. *)
Counts == [listed : Nat, checked : Nat, matched : Nat, mismatched : Nat, unknown : Nat]

LEMMA RunGoes ==
    ASSUME IInv, ProvenKept, TruthKept, RowsKept, NEW k \in Runs,
           NEW pc \in {"idle", "listed", "replied", "completed", "failed", "abandoned"},
           NEW todo \in SUBSET Orders, NEW o \in Orders \cup {Null}, NEW reply \in Reply,
           NEW snap \in [Orders -> Row], run_goes(k, pc, todo, o, reply, snap),
           summary' \in [Runs -> Counts],
           \A q \in todo : exists(q) /\ TruthfulNext(q, snap[q].status),
           pc = "replied" => o \in todo /\ ProvenNext(o, reply)
    PROVE  RunInv'
<1> DEFINE RunType == [pc : {"idle", "listed", "replied", "completed", "failed", "abandoned"},
                       todo : SUBSET Orders, order : Orders \cup {Null},
                       reply : Reply, snap : [Orders -> Row]]
<1>1. run \in [Runs -> RunType]
  BY DEF IInv, TypeOK, RunTypeOK
<1>2. /\ run' = [run EXCEPT ![k] = run'[k]]
      /\ run'[k] = [pc |-> pc, todo |-> todo, order |-> o, reply |-> reply, snap |-> snap]
  BY <1>1 DEF run_goes
<1>3. run'[k] \in RunType
  BY <1>2
<1>4. run' \in [Runs -> RunType]
  BY <1>1, <1>2, <1>3
<1> HIDE DEF RunType
<1>5. \A j \in Runs : j # k => run'[j] = run[j]
  BY <1>1, <1>2
<1>6. RunTypeOK'
  <2>1. \A j \in Runs : run[j].pc = "replied" => run[j].order \in run[j].todo
    BY DEF IInv, TypeOK, RunTypeOK
  <2>2. run'[k].pc = "replied" => run'[k].order \in run'[k].todo
    BY <1>2
  <2>3. \A j \in Runs : run'[j].pc = "replied" => run'[j].order \in run'[j].todo
    BY <1>5, <2>1, <2>2
  <2> QED
    BY <1>4, <2>3 DEF RunTypeOK, RunType, Counts
<1>7. ASSUME NEW j \in Runs
      PROVE  /\ \A q \in run'[j].todo : exists(q)' /\ Truthful(q, run[j].snap[q].status)'
             /\ run'[j].pc = "replied" => Proven(run[j].order, run[j].reply)'
  <2>1. CASE j = k
    <3>1. /\ run'[j].pc = pc /\ run'[j].todo = todo /\ run'[j].order = o
          /\ run'[j].reply = reply /\ run'[j].snap = snap
      BY <1>2, <2>1
    <3>2. \A q \in todo : exists(q)' /\ TruthfulNext(q, snap[q].status)
      BY DEF RowsKept
    <3> QED
      BY <3>1, <3>2 DEF TruthfulNext, ProvenNext, Truthful, Proven
  <2>2. CASE j # k
    <3>1. run'[j] = run[j]
      BY <1>5, <2>2
    <3>2. run[j].todo \subseteq Orders /\ (run[j].pc = "replied" => run[j].order \in Orders)
      BY DEF IInv, TypeOK, RunTypeOK
    <3>3. /\ \A q \in run[j].todo : exists(q) /\ Truthful(q, run[j].snap[q].status)
          /\ run[j].pc = "replied" => Proven(run[j].order, run[j].reply)
      BY DEF IInv, RunEvidence
    <3>4. /\ \A q \in run[j].todo : exists(q)' /\ TruthfulNext(q, run[j].snap[q].status)
          /\ run[j].pc = "replied" => ProvenNext(run[j].order, run[j].reply)
      BY <3>2, <3>3 DEF RowsKept, TruthKept, ProvenKept
    <3> QED
      BY <3>1, <3>4 DEF TruthfulNext, ProvenNext, Truthful, Proven
  <2> QED
    BY <2>1, <2>2
<1>8. RunEvidence'
  BY <1>7 DEF RunEvidence
<1> QED
  BY <1>6, <1>8 DEF RunInv

(* What is known of the run that steps. *)
LEMMA RunKnows ==
    ASSUME IInv, NEW k \in Runs
    PROVE  /\ run[k].todo \in SUBSET Orders
           /\ run[k].reply \in Reply
           /\ run[k].snap \in [Orders -> Row]
           /\ summary \in [Runs -> Counts]
           /\ \A q \in run[k].todo : exists(q) /\ Truthful(q, run[k].snap[q].status)
           /\ run[k].pc = "replied" =>
                /\ run[k].order \in run[k].todo
                /\ Proven(run[k].order, run[k].reply)
<1>1. /\ run[k].todo \in SUBSET Orders
      /\ run[k].reply \in Reply
      /\ run[k].snap \in [Orders -> Row]
      /\ summary \in [Runs -> Counts]
      /\ run[k].pc = "replied" => run[k].order \in run[k].todo
  BY DEF IInv, TypeOK, RunTypeOK, Counts
<1>2. /\ \A q \in run[k].todo : exists(q) /\ Truthful(q, run[k].snap[q].status)
      /\ run[k].pc = "replied" => Proven(run[k].order, run[k].reply)
  BY DEF IInv, RunEvidence
<1> QED
  BY <1>1, <1>2

(* A run lists its orders, asks for one, completes or is abandoned. *)
LEMMA RunQuietKeeps ==
    ASSUME IInv, NEW k \in Runs,
           \/ \E filter : RunList(k, filter)
           \/ RunCall(k)
           \/ RunComplete(k)
           \/ RunAborted(k)
    PROVE  IInv'
<1>1. RowInv' /\ ProvenKept /\ TruthKept /\ RowsKept
  BY Quiet DEF RunList, RunCall, RunComplete, RunAborted, hist
<1>2. WireInv' /\ StreamInv' /\ SubInv' /\ ReqInv' /\ PlaceInv'
  BY <1>1, Frames DEF RunList, RunCall, RunComplete, RunAborted, hist
<1>3. HistoryTypeOK'
  BY DEF IInv, TypeOK, HistoryTypeOK, RunList, RunCall, RunComplete, RunAborted, hist
<1>4. \A q \in run[k].todo : exists(q) /\ TruthfulNext(q, run[k].snap[q].status)
  BY <1>1, RunKnows DEF TruthKept
<1>5. Null \in Reply /\ "ERR" \in Reply /\ "MISSING" \in Reply
  BY DEF Reply
<1>6. RunInv'
  <2>1. CASE \E filter : RunList(k, filter)
    <3>1. PICK T \in SUBSET Orders :
             /\ \A q \in T : exists(q)
             /\ run_goes(k, "listed", T, Null, Null, row)
             /\ summary' = [summary EXCEPT ![k] = NoneChecked(Cardinality(T))]
      BY <2>1 DEF RunList
    <3>2. NoneChecked(Cardinality(T)) \in Counts
      BY OrdersAssumption, FS_Subset, FS_CardinalityType DEF NoneChecked, Counts
    <3>3. \A q \in T : TruthfulNext(q, row[q].status)
      BY <1>1 DEF TruthKept, IInv, TerminalIsTrue
    <3>4. summary' \in [Runs -> Counts]
      BY <3>1, <3>2, RunKnows
    <3>5. row \in [Orders -> Row]
      BY DEF IInv, TypeOK, DbTypeOK
    <3> QED
      BY <1>1, <1>5, <3>1, <3>3, <3>4, <3>5, RunGoes
  <2>2. CASE RunCall(k)
    <3>0. PICK o \in run[k].todo :
             \E reply \in {"ERR", IF exch[o] = Null THEN "MISSING" ELSE exch[o]} :
                run_goes(k, "replied", run[k].todo, o, reply, run[k].snap)
      BY <2>2 DEF RunCall
    <3>1. PICK reply \in {"ERR", IF exch[o] = Null THEN "MISSING" ELSE exch[o]} :
             run_goes(k, "replied", run[k].todo, o, reply, run[k].snap)
      BY <3>0
    <3>2. summary' = summary
      BY <2>2 DEF RunCall
    <3>3. o \in Orders /\ exch[o] \in ExchangeOrderState \cup {Null}
      BY <3>1, RunKnows DEF IInv, TypeOK, ExchangeTypeOK
    <3>4. reply \in Reply
      BY <3>1, <3>3 DEF Reply
    <3>5. Proven(o, reply)
      BY <3>1, <3>3 DEF Proven, OverWords, exchange_word, ExchangeOrderState, Null
    <3>6. ProvenNext(o, reply)
      BY <1>1, <3>3, <3>5 DEF ProvenKept
    <3> QED
      BY <1>1, <1>4, <3>1, <3>2, <3>3, <3>4, <3>6, RunKnows, RunGoes
  <2>3. CASE RunComplete(k)
    BY <1>1, <1>5, <2>3, RunKnows, RunGoes DEF RunComplete
  <2>4. CASE RunAborted(k)
    BY <1>1, <1>4, <1>5, <2>4, RunKnows, RunGoes DEF RunAborted
  <2> QED
    BY <2>1, <2>2, <2>3, <2>4
<1> QED
  BY <1>1, <1>2, <1>3, <1>6, PartsNext

-----------------------------------------------------------------------------
(* The steps that write a row. *)

LEMMA SubGoes ==
    ASSUME IInv, ProvenKept, NEW s \in Submits,
           NEW pc \in {"idle", "admitted", "inserted", "requested", "replied", "done"},
           NEW o \in Orders \cup {Null}, NEW reply \in Reply, sub_goes(s, pc, o, reply),
           pc \notin {"idle", "done"} => o \in Orders,
           pc = "replied" => /\ reply \in ExchangeOrderState \cup {"ERR", "UNKNOWN"}
                             /\ ProvenNext(o, reply)
    PROVE  SubInv'
<1>1. SubTypeOK'
  BY DEF IInv, TypeOK, SubTypeOK, sub_goes
<1>2. SubEvidence'
  BY DEF IInv, TypeOK, SubTypeOK, SubEvidence, sub_goes, ProvenKept, ProvenNext, Proven
<1> QED
  BY <1>1, <1>2 DEF SubInv

LEMMA SubEnds ==
    ASSUME IInv, ProvenKept, RowsKept, NEW s \in Submits, sub_ends(s),
           UNCHANGED <<placed, exch>>
    PROVE  SubInv' /\ PlaceInv'
<1>1. SubInv'
  BY SubGoes DEF sub_ends, Reply
<1>2. PlacedOnce' /\ NothingPlacedWithoutRow'
  BY DEF IInv, PlacedOnce, NothingPlacedWithoutRow, RowsKept, exists
<1>3. OneCaller'
  BY DEF IInv, TypeOK, SubTypeOK, OneCaller, RowsKept, exists, sub_ends, sub_goes
<1> QED
  BY <1>1, <1>2, <1>3 DEF PlaceInv

LEMMA SubmitInsertKeeps ==
    ASSUME IInv, NEW s \in Submits, SubmitInsert(s)
    PROVE  IInv'
<1> DEFINE o == sub[s].order
<1>1. o \in Orders
  BY DEF SubmitInsert, IInv, TypeOK, SubTypeOK
<1>2. ProvenKept /\ TruthKept
  BY SameExchange DEF SubmitInsert, hist
<1>3. HistoryTypeOK'
  BY DEF SubmitInsert, IInv, TypeOK, HistoryTypeOK, hist
<1>4. CASE exists(o)
  <2>1. UNCHANGED db /\ sub_ends(s) /\ UNCHANGED <<placed, exch>>
    BY <1>4 DEF SubmitInsert, db, hist
  <2>2. RowInv' /\ RowsKept
    BY <1>2, <2>1, NothingWritten, Parts
  <2>3. SubInv' /\ PlaceInv'
    BY <1>2, <2>1, <2>2, SubEnds
  <2>4. WireInv' /\ StreamInv' /\ ReqInv' /\ RunInv'
    BY <1>2, <2>2, Frames DEF SubmitInsert
  <2> QED
    BY <1>3, <2>2, <2>3, <2>4, PartsNext
<1>5. CASE ~exists(o)
  <2>1. /\ row' = [row EXCEPT ![o] = Inserted] /\ last' = last
        /\ sub_goes(s, "inserted", o, Null)
        /\ UNCHANGED <<placed, exch, wire, stream, req, recon, marked, guessed>>
    BY <1>5 DEF SubmitInsert, hist
  <2>2. Inserted \in Row
    BY DEF Inserted, Row, LocalStatus, TestnetExecutionState
  <2>3. DbTypeOK'
    BY <2>1, <2>2 DEF IInv, TypeOK, DbTypeOK
  <2>4. row'[o] = Inserted /\ \A q \in Orders : q # o => row'[q] = row[q]
    BY <1>1, <2>1 DEF IInv, TypeOK, DbTypeOK
  <2>5. RowsKept
    BY <1>5, <2>4 DEF RowsKept, exists
  <2>6. EventMatchesRow'
    BY <1>5, <2>1, <2>4 DEF IInv, EventMatchesRow, exists
  <2>7. TerminalIsTrue'
    BY <1>2, <2>1, <2>4 DEF IInv, TerminalIsTrue, Truthful, Proven, OverWords, Inserted
  <2>8. SubInv'
    BY <1>1, <1>2, <2>1, SubGoes DEF Reply
  <2>9. WireInv' /\ StreamInv' /\ ReqInv' /\ RunInv'
    BY <1>2, <2>1, <2>5, Frames
  <2>10. PlacedOnce' /\ NothingPlacedWithoutRow'
    BY <2>1, <2>5 DEF IInv, PlacedOnce, NothingPlacedWithoutRow, RowsKept, exists
  <2>11. OneCaller'
    <3>1. placed[o] = 0 /\ exch[o] = Null
      BY <1>1, <1>5 DEF IInv, NothingPlacedWithoutRow
    <3>2. \A t \in Submits : sub[t].pc \in {"inserted", "requested", "replied"} => sub[t].order # o
      BY <1>5 DEF IInv, OneCaller
    <3>3. row'[o].state # Null
      BY <2>4 DEF Inserted, Null
    <3> QED
      BY <1>1, <2>1, <2>5, <3>1, <3>2, <3>3
      DEF IInv, TypeOK, SubTypeOK, OneCaller, RowsKept, sub_goes, exists
  <2> QED
    BY <1>3, <2>3, <2>6, <2>7, <2>8, <2>9, <2>10, <2>11, PartsNext DEF RowInv, PlaceInv
<1> QED
  BY <1>4, <1>5

LEMMA SubmitRecordKeeps ==
    ASSUME IInv, NEW s \in Submits, SubmitRecord(s)
    PROVE  IInv'
<1> DEFINE o == sub[s].order
<1>1. o \in Orders /\ exists(o) /\ sub[s].pc = "inserted"
  BY DEF SubmitRecord, IInv, TypeOK, SubTypeOK, OneCaller
<1>2. ProvenKept /\ TruthKept
  BY SameExchange DEF SubmitRecord, hist
<1>3. RowInv' /\ RowsKept
  <2>1. CASE UNCHANGED db
    BY <1>2, <2>1, NothingWritten, Parts
  <2>2. CASE append_lifecycle_event_and_update_order(
                o, Null, "ORDER_SUBMIT_REQUESTED", "API_SUBMIT",
                "SUBMIT_REQUESTED", Null, Null)
    <3>1. Wrote(o, "ORDER_SUBMIT_REQUESTED", "SUBMIT_REQUESTED")
      BY <1>1, <2>2, Writes DEF IInv, TypeOK, TestnetExecutionState, TransitionSource, LocalStatus
    <3> QED
      BY <1>1, <1>2, <3>1, WroteKeeps, Parts
      DEF TestnetExecutionState, TruthfulNext, ProvenNext, OverWords
  <2> QED
    BY <2>1, <2>2 DEF SubmitRecord
<1>4. WireInv' /\ StreamInv' /\ ReqInv' /\ RunInv'
  BY <1>2, <1>3, Frames DEF SubmitRecord
<1>5. SubInv'
  BY <1>1, <1>2, SubGoes DEF SubmitRecord, Reply
<1>6. PlacedOnce' /\ NothingPlacedWithoutRow'
  BY <1>3 DEF IInv, PlacedOnce, NothingPlacedWithoutRow, RowsKept, exists, SubmitRecord, hist
<1>7. OneCaller'
  <2>1. sub_goes(s, "requested", o, Null) /\ UNCHANGED <<placed, exch>>
    BY DEF SubmitRecord, hist
  <2> QED
    BY <1>1, <1>3, <2>1 DEF IInv, TypeOK, SubTypeOK, OneCaller, RowsKept, sub_goes
<1>8. HistoryTypeOK'
  BY DEF SubmitRecord, IInv, TypeOK, HistoryTypeOK, hist
<1> QED
  BY <1>3, <1>4, <1>5, <1>6, <1>7, <1>8, PartsNext DEF PlaceInv

(* Words that render a true word are true. *)
LEMMA RenderedTrue ==
    ASSUME NEW o, NEW x, NEW y, Renders(y, x), ProvenNext(o, x)
    PROVE  TruthfulNext(o, y)
BY DEF Renders, ProvenNext, TruthfulNext

LEMMA NullIsTrue == \A o : TruthfulNext(o, Null)
BY DEF TruthfulNext, ProvenNext, OverWords, Null

LEMMA SubmitReplyKeeps ==
    ASSUME IInv, NEW s \in Submits, SubmitReply(s)
    PROVE  IInv'
<1> DEFINE o == sub[s].order
           w == sub[s].reply
           x == into_exchange_ack(w)
<1>1. /\ o \in Orders /\ exists(o) /\ w \in ExchangeOrderState \cup {"ERR", "UNKNOWN"}
      /\ Proven(o, w)
  BY DEF SubmitReply, IInv, TypeOK, SubTypeOK, OneCaller, SubEvidence
<1>2. ProvenKept /\ TruthKept
  BY SameExchange DEF SubmitReply, hist
<1>3. ProvenNext(o, w)
  BY <1>1, <1>2 DEF ProvenKept
<1>4. RowInv' /\ RowsKept
  <2>1. CASE w = "ERR"
    BY <1>2, <2>1, NothingWritten, Parts DEF SubmitReply
  <2>2. CASE w # "ERR"
    <3>1. /\ x \in ExchangeOrderState /\ w \in ExchangeOrderState \cup {Null, "UNKNOWN"}
          /\ ProvenNext(o, x)
      <4>1. w \in ExchangeOrderState \cup {"UNKNOWN"}
        BY <1>1, <2>2
      <4>2. x \in ExchangeOrderState /\ Renders(x, w)
        BY <4>1, AckParsed
      <4> QED
        BY <1>3, <4>1, <4>2 DEF Renders, ProvenNext
    <3>2. Inserted \in Row
      BY DEF Inserted, Row, LocalStatus, TestnetExecutionState
    <3>3. append_testnet_lifecycle_transition(
             o, Inserted,
             map_exchange_ack(x), "EXCHANGE_ACK", ack_local_status(x), Null, w)
      BY <2>2 DEF SubmitReply
    <3>4. TruthfulNext(o, map_exchange_ack(x)) /\ TruthfulNext(o, ack_local_status(x))
      BY <3>1, AckMapped, AckStatusMapped, RenderedTrue
    <3>5. "EXCHANGE_ACK" \in TransitionSource
      BY DEF TransitionSource
    <3> HIDE DEF o, w, x
    <3> QED
      BY <1>1, <1>2, <3>1, <3>2, <3>3, <3>4, <3>5, AckMapped, AckStatusMapped,
         TransitionKeeps, Parts
  <2> QED
    BY <2>1, <2>2
<1>5. WireInv' /\ StreamInv' /\ ReqInv' /\ RunInv'
  BY <1>2, <1>4, Frames DEF SubmitReply
<1>6. SubInv' /\ PlaceInv'
  BY <1>2, <1>4, SubEnds DEF SubmitReply, hist
<1>7. HistoryTypeOK'
  BY DEF SubmitReply, IInv, TypeOK, HistoryTypeOK, hist
<1> QED
  BY <1>4, <1>5, <1>6, <1>7, PartsNext

(* What is known of a request that steps, and of one that has stepped. *)
LEMMA ReqKnows ==
    ASSUME IInv, NEW r \in Requests, req[r].pc \notin {"idle", "done"}
    PROVE  /\ req[r].order \in Orders /\ exists(req[r].order)
           /\ req[r].op \in Op /\ req[r].force \in BOOLEAN /\ req[r].snap \in Row
           /\ req[r].pc = "replied" =>
                /\ req[r].reply \in ExchangeOrderState \cup {"ERR"} \cup Unparsed(req[r].op)
                /\ Proven(req[r].order, req[r].reply)
<1>1. req[r].order \in Orders /\ req[r].op \in Op /\ req[r].force \in BOOLEAN
      /\ req[r].snap \in Row
      /\ (req[r].pc = "replied" =>
            req[r].reply \in ExchangeOrderState \cup {"ERR"} \cup Unparsed(req[r].op))
  BY DEF IInv, TypeOK, ReqTypeOK
<1>2. /\ exists(req[r].order)
      /\ req[r].pc = "replied" => Proven(req[r].order, req[r].reply)
  BY DEF IInv, ReqEvidence
<1> QED
  BY <1>1, <1>2

LEMMA ReqChanges ==
    ASSUME IInv, ProvenKept, RowsKept, NEW r \in Requests, NEW c,
           req' = [req EXCEPT ![r] = c],
           c \in [pc : {"idle", "read", "marked", "replied", "done"},
                  op : Op \cup {Null}, order : Orders \cup {Null},
                  force : BOOLEAN, snap : Row, reply : Reply],
           c.pc \notin {"idle", "done"} => c.order \in Orders /\ exists(c.order) /\ c.op \in Op,
           c.pc = "replied" =>
              /\ c.reply \in ExchangeOrderState \cup {"ERR"} \cup Unparsed(c.op)
              /\ ProvenNext(c.order, c.reply)
    PROVE  ReqInv'
<1> DEFINE ReqType == [pc : {"idle", "read", "marked", "replied", "done"},
                       op : Op \cup {Null}, order : Orders \cup {Null},
                       force : BOOLEAN, snap : Row, reply : Reply]
<1>1. req \in [Requests -> ReqType]
  BY DEF IInv, TypeOK, ReqTypeOK
<1>2. req' \in [Requests -> ReqType] /\ req'[r] = c
  BY <1>1
<1>3. \A j \in Requests : j # r => req'[j] = req[j]
  BY <1>1
<1>4. ReqTypeOK'
  <2>1. \A j \in Requests :
           /\ req[j].pc \notin {"idle", "done"} => req[j].order \in Orders /\ req[j].op \in Op
           /\ req[j].pc = "replied" =>
                 req[j].reply \in ExchangeOrderState \cup {"ERR"} \cup Unparsed(req[j].op)
    BY DEF IInv, TypeOK, ReqTypeOK
  <2>2. \A j \in Requests :
           /\ req'[j].pc \notin {"idle", "done"} => req'[j].order \in Orders /\ req'[j].op \in Op
           /\ req'[j].pc = "replied" =>
                 req'[j].reply \in ExchangeOrderState \cup {"ERR"} \cup Unparsed(req'[j].op)
    BY <1>2, <1>3, <2>1
  <2> QED
    BY <1>2, <2>2 DEF ReqTypeOK, Unparsed
<1>5. ASSUME NEW j \in Requests
      PROVE  /\ req'[j].pc \notin {"idle", "done"} => row'[req'[j].order].state # Null
             /\ req'[j].pc = "replied" => ProvenNext(req'[j].order, req'[j].reply)
  <2>1. CASE j = r
    BY <1>2, <2>1 DEF RowsKept, exists
  <2>2. CASE j # r
    BY <1>3, <2>2, ReqKnows DEF RowsKept, ProvenKept, exists
  <2> QED
    BY <2>1, <2>2
<1>6. ReqEvidence'
  BY <1>5 DEF ReqEvidence, exists, Proven, ProvenNext
<1> QED
  BY <1>4, <1>6 DEF ReqInv

LEMMA ReqEnds ==
    ASSUME IInv, ProvenKept, RowsKept, NEW r \in Requests, req_ends(r)
    PROVE  ReqInv'
<1>1. Absent \in Row
  BY DEF Absent, Row
<1>2. /\ NoRequest("done") \in [pc : {"idle", "read", "marked", "replied", "done"},
                                op : Op \cup {Null}, order : Orders \cup {Null},
                                force : BOOLEAN, snap : Row, reply : Reply]
      /\ NoRequest("done").pc = "done"
  BY <1>1 DEF NoRequest, Reply
<1> QED
  BY <1>2, ReqChanges DEF req_ends

LEMMA ReqGoes ==
    ASSUME IInv, ProvenKept, RowsKept, NEW r \in Requests, req[r].pc \notin {"idle", "done"},
           NEW pc \in {"marked", "replied"}, NEW snap \in Row, NEW reply \in Reply,
           req_goes(r, pc, snap, reply),
           pc = "replied" =>
              /\ reply \in ExchangeOrderState \cup {"ERR"} \cup Unparsed(req[r].op)
              /\ ProvenNext(req[r].order, reply)
    PROVE  ReqInv'
<1> DEFINE c == [pc |-> pc, op |-> req[r].op, order |-> req[r].order,
                 force |-> req[r].force, snap |-> snap, reply |-> reply]
<1>1. req' = [req EXCEPT ![r] = c]
  BY DEF req_goes
<1>2. c \in [pc : {"idle", "read", "marked", "replied", "done"},
             op : Op \cup {Null}, order : Orders \cup {Null},
             force : BOOLEAN, snap : Row, reply : Reply]
  BY ReqKnows
<1>3. /\ c.order \in Orders /\ exists(c.order) /\ c.op \in Op
      /\ c.pc = "replied" =>
            /\ c.reply \in ExchangeOrderState \cup {"ERR"} \cup Unparsed(c.op)
            /\ ProvenNext(c.order, c.reply)
  BY ReqKnows
<1> HIDE DEF c
<1> QED
  BY <1>1, <1>2, <1>3, ReqChanges

(* A request writes a row and leaves the exchange alone. *)
LEMMA ReqWriteFrames ==
    ASSUME IInv, ProvenKept, TruthKept, RowsKept,
           UNCHANGED <<exch, wire, stream, sub, recon, placed, kill_switch, inflight>>,
           marked' \subseteq Orders, guessed' \subseteq Orders
    PROVE  WireInv' /\ StreamInv' /\ SubInv' /\ RunInv' /\ PlaceInv' /\ HistoryTypeOK'
<1>1. WireInv' /\ StreamInv' /\ SubInv' /\ RunInv' /\ PlaceInv'
  BY Frames
<1>2. HistoryTypeOK'
  BY DEF IInv, TypeOK, HistoryTypeOK
<1> QED
  BY <1>1, <1>2

LEMMA CancelMarkKeeps ==
    ASSUME IInv, NEW r \in Requests, CancelMark(r)
    PROVE  IInv'
<1> DEFINE o == req[r].order
           snap == req[r].snap
<1>1. o \in Orders /\ exists(o) /\ snap \in Row /\ req[r].pc \notin {"idle", "done"}
  BY ReqKnows DEF CancelMark
<1>2. /\ UNCHANGED <<exch, wire, stream, sub, recon, placed, kill_switch, inflight,
                   marked, guessed>>
      /\ \/ /\ append_testnet_lifecycle_transition(
                  o, snap, "CANCEL_REQUESTED", "API_CANCEL", Null, Null, Null)
            /\ \/ req_goes(r, "marked", row'[o], Null)
               \/ req_goes(r, "marked", snap, Null)
         \/ UNCHANGED db /\ req_goes(r, "marked", snap, Null)
  BY DEF CancelMark, hist
<1> HIDE DEF o, snap
<1>3. ProvenKept /\ TruthKept
  BY <1>2, SameExchange
<1>4. "CANCEL_REQUESTED" \in TestnetExecutionState /\ "API_CANCEL" \in TransitionSource
  BY DEF TestnetExecutionState, TransitionSource
<1>5. TruthfulNext(o, "CANCEL_REQUESTED") /\ TruthfulNext(o, Null)
  BY NullIsTrue DEF TruthfulNext, ProvenNext, OverWords
<1>6. RowInv' /\ RowsKept
  <2>1. CASE UNCHANGED db
    BY <1>3, <2>1, NothingWritten, Parts
  <2>2. CASE append_testnet_lifecycle_transition(
                o, snap, "CANCEL_REQUESTED", "API_CANCEL", Null, Null, Null)
    BY <1>1, <1>3, <1>4, <1>5, <2>2, TransitionKeeps, Parts
  <2> QED
    BY <1>2, <2>1, <2>2
<1>7. row'[o] \in Row
  BY <1>1, <1>6 DEF RowInv, DbTypeOK
<1>8. ReqInv'
  BY <1>1, <1>2, <1>3, <1>6, <1>7, ReqGoes DEF Reply
<1>9. marked' \subseteq Orders /\ guessed' \subseteq Orders
  BY <1>2 DEF IInv, TypeOK, HistoryTypeOK
<1> QED
  BY <1>2, <1>3, <1>6, <1>8, <1>9, ReqWriteFrames, PartsNext

LEMMA SafeCancelMarkKeeps ==
    ASSUME IInv, NEW r \in Requests, SafeCancelMark(r)
    PROVE  IInv'
<1> DEFINE o == req[r].order
           p == req[r].snap.state
<1>1. /\ o \in Orders /\ exists(o) /\ req[r].snap \in Row
      /\ p \in TestnetExecutionState \cup {Null} /\ req[r].pc \notin {"idle", "done"}
  BY ReqKnows DEF SafeCancelMark, Row
<1>2. /\ UNCHANGED <<exch, wire, stream, sub, recon, placed, kill_switch, inflight,
                   marked, guessed>>
      /\ \/ /\ append_lifecycle_event_and_update_order(
                  o, p, "CANCEL_REQUESTED", "API_CANCEL", Null, "FORCE", Null)
            /\ req_goes(r, "marked", row'[o], Null)
         \/ UNCHANGED db /\ req_ends(r)
  BY SafeCancelMapped DEF SafeCancelMark, hist
<1> HIDE DEF o, p
<1>3. ProvenKept /\ TruthKept
  BY <1>2, SameExchange
<1>4. "CANCEL_REQUESTED" \in TestnetExecutionState /\ "API_CANCEL" \in TransitionSource
  BY DEF TestnetExecutionState, TransitionSource
<1>5. TruthfulNext(o, "CANCEL_REQUESTED") /\ TruthfulNext(o, Null)
  BY NullIsTrue DEF TruthfulNext, ProvenNext, OverWords
<1>6. RowInv' /\ RowsKept
  <2>1. CASE UNCHANGED db
    BY <1>3, <2>1, NothingWritten, Parts
  <2>2. CASE append_lifecycle_event_and_update_order(
                o, p, "CANCEL_REQUESTED", "API_CANCEL", Null, "FORCE", Null)
    <3>1. Wrote(o, "CANCEL_REQUESTED", Null)
      BY <1>1, <1>4, <2>2, Writes, Parts DEF RowInv
    <3> QED
      BY <1>1, <1>3, <1>4, <1>5, <3>1, WroteKeeps, Parts
  <2> QED
    BY <1>2, <2>1, <2>2
<1>7. row'[o] \in Row
  BY <1>1, <1>6 DEF RowInv, DbTypeOK
<1>8. ReqInv'
  BY <1>1, <1>2, <1>3, <1>6, <1>7, ReqGoes, ReqEnds DEF Reply
<1>9. marked' \subseteq Orders /\ guessed' \subseteq Orders
  BY <1>2 DEF IInv, TypeOK, HistoryTypeOK
<1> QED
  BY <1>2, <1>3, <1>6, <1>8, <1>9, ReqWriteFrames, PartsNext

(* The answer to a GET or a recheck is written. *)
LEMMA StatusReplyKeeps ==
    ASSUME IInv, NEW r \in Requests, StatusReply(r)
    PROVE  IInv'
<1> DEFINE o == req[r].order
           x == req[r].reply
           snap == req[r].snap
<1>1. /\ o \in Orders /\ exists(o) /\ snap \in Row
      /\ x \in ExchangeOrderState \cup {"ERR"} /\ Proven(o, x)
  BY ReqKnows DEF StatusReply, Unparsed
<1>2. /\ UNCHANGED <<exch, wire, stream, sub, recon, placed, kill_switch, inflight,
                     marked, guessed>>
      /\ req_ends(r)
      /\ x = "ERR" => UNCHANGED db
      /\ x # "ERR" =>
         \/ append_testnet_lifecycle_transition(
               o, snap, map_rest_reconciliation_status(x), "REST_RECONCILIATION", x, x, Null)
         \/ append_testnet_lifecycle_transition(
               o, snap, map_rest_reconciliation_status(x), "REST_RECONCILIATION",
               local_testnet_status(x), x, Null)
  BY DEF StatusReply, hist
<1> HIDE DEF o, x, snap
<1>3. ProvenKept /\ TruthKept
  BY <1>2, SameExchange
<1>4. ProvenNext(o, x)
  BY <1>1, <1>3 DEF ProvenKept
<1>5. RowInv' /\ RowsKept
  <2>1. CASE x = "ERR"
    BY <1>2, <1>3, <2>1, NothingWritten, Parts
  <2>2. CASE x # "ERR"
    <3>1. x \in ExchangeOrderState /\ x \in ExchangeExecutionStatus /\ x \in LocalStatus
      BY <1>1, <2>2 DEF ExchangeExecutionStatus, LocalStatus
    <3>2. /\ TruthfulNext(o, map_rest_reconciliation_status(x))
          /\ TruthfulNext(o, local_testnet_status(x))
      BY <1>4, <3>1, RestMapped, StatusMapped, RenderedTrue
    <3>3. TruthfulNext(o, x)
      BY <1>4 DEF TruthfulNext
    <3>4. "REST_RECONCILIATION" \in TransitionSource
      BY DEF TransitionSource
    <3>5. /\ map_rest_reconciliation_status(x) \in TestnetExecutionState
          /\ local_testnet_status(x) \in LocalStatus \cup {Null}
      BY <3>1, RestMapped, StatusMapped
    <3>6. CASE append_testnet_lifecycle_transition(
                  o, snap, map_rest_reconciliation_status(x), "REST_RECONCILIATION", x, x, Null)
      BY <1>1, <1>3, <3>1, <3>2, <3>3, <3>4, <3>5, <3>6, TransitionKeeps, Parts
    <3>7. CASE append_testnet_lifecycle_transition(
                  o, snap, map_rest_reconciliation_status(x), "REST_RECONCILIATION",
                  local_testnet_status(x), x, Null)
      BY <1>1, <1>3, <3>1, <3>2, <3>4, <3>5, <3>7, TransitionKeeps, Parts
    <3> QED
      BY <1>2, <2>2, <3>6, <3>7
  <2> QED
    BY <2>1, <2>2
<1>6. ReqInv'
  BY <1>2, <1>3, <1>5, ReqEnds
<1>7. marked' \subseteq Orders /\ guessed' \subseteq Orders
  BY <1>2 DEF IInv, TypeOK, HistoryTypeOK
<1> QED
  BY <1>2, <1>3, <1>5, <1>6, <1>7, ReqWriteFrames, PartsNext

(* The answer to a cancel is written; an answer that was not understood is *)
(* written as CANCELED, and the order counts as guessed.                   *)
LEMMA CancelReplyKeeps ==
    ASSUME IInv, NEW r \in Requests, CancelReply(r)
    PROVE  IInv'
<1> DEFINE o == req[r].order
           w == req[r].reply
           x == into_exchange_cancel_ack(w)
           snap == req[r].snap
<1>1. /\ o \in Orders /\ exists(o) /\ snap \in Row
      /\ w \in ExchangeOrderState \cup {"ERR", "UNKNOWN"} /\ Proven(o, w)
  BY ReqKnows DEF CancelReply, Unparsed
<1>2. /\ UNCHANGED <<exch, wire, stream, sub, recon, placed, kill_switch, inflight, marked>>
      /\ req_ends(r)
      /\ w = "ERR" => UNCHANGED db
      /\ w # "ERR" =>
            append_testnet_lifecycle_transition(
               o, snap, map_cancel_ack(x), "EXCHANGE_CANCEL_ACK", ack_local_status(x), w, Null)
      /\ guessed' = IF w = "UNKNOWN" THEN guessed \cup {o} ELSE guessed
  BY DEF CancelReply
<1> HIDE DEF o, w, x, snap
<1>3. ProvenKept /\ TruthKept
  BY <1>2, SameExchange
<1>4. ProvenNext(o, w)
  BY <1>1, <1>3 DEF ProvenKept
<1>5. RowInv' /\ RowsKept
  <2>1. CASE w = "ERR"
    BY <1>2, <1>3, <2>1, NothingWritten, Parts
  <2>2. CASE w # "ERR"
    <3>1. /\ w \in ExchangeOrderState \cup {"UNKNOWN"}
          /\ w \in ExchangeExecutionStatus \cup {Null, "FORCE"}
      BY <1>1, <2>2 DEF ExchangeExecutionStatus
    <3>2. x \in ExchangeOrderState
      BY <3>1, CancelParsed DEF x
    <3>3. TruthfulNext(o, map_cancel_ack(x)) /\ TruthfulNext(o, ack_local_status(x))
      <4>1. CASE w = "UNKNOWN"
        <5>1. x = "CANCELED" /\ o \in guessed'
          BY <1>2, <3>1, <4>1, CancelParsed DEF x
        <5>2. map_cancel_ack(x) = "CANCELLED" /\ ack_local_status(x) = "CANCELLED"
          BY <5>1, Zenon DEF map_cancel_ack, ack_local_status, local_testnet_status
        <5> QED
          BY <5>1, <5>2 DEF TruthfulNext
      <4>2. CASE w # "UNKNOWN"
        <5>1. x = w
          BY <3>1, <4>2, CancelParsed DEF x
        <5> QED
          BY <1>4, <3>2, <5>1, CancelMapped, AckStatusMapped, RenderedTrue
      <4> QED
        BY <4>1, <4>2
    <3>4. "EXCHANGE_CANCEL_ACK" \in TransitionSource
      BY DEF TransitionSource
    <3>5. map_cancel_ack(x) \in TestnetExecutionState /\ ack_local_status(x) \in LocalStatus
      BY <3>2, CancelMapped, AckStatusMapped
    <3>6. append_testnet_lifecycle_transition(
             o, snap, map_cancel_ack(x), "EXCHANGE_CANCEL_ACK", ack_local_status(x), w, Null)
      BY <1>2, <2>2
    <3> QED
      BY <1>1, <1>3, <3>1, <3>3, <3>4, <3>5, <3>6, TransitionKeeps, Parts
  <2> QED
    BY <2>1, <2>2
<1>6. ReqInv'
  BY <1>2, <1>3, <1>5, ReqEnds
<1>7. marked' \subseteq Orders /\ guessed' \subseteq Orders
  BY <1>1, <1>2 DEF IInv, TypeOK, HistoryTypeOK
<1> QED
  BY <1>2, <1>3, <1>5, <1>6, <1>7, ReqWriteFrames, PartsNext

(* An operator's mark: the order counts as marked if the mark says it is over. *)
LEMMA RepairMarkKeeps ==
    ASSUME IInv, NEW r \in Requests, RepairMark(r)
    PROVE  IInv'
<1> DEFINE o == req[r].order
           a == req[r].op
           p == req[r].snap.state
           payload == IF a = "MARK_RECONCILIATION_REQUIRED" THEN Null ELSE "FORCE"
<1>1. /\ o \in Orders /\ exists(o) /\ a \in MarkAction
      /\ p \in TestnetExecutionState \cup {Null}
      /\ payload \in ExchangeExecutionStatus \cup {Null, "FORCE"}
  BY ReqKnows DEF RepairMark, Row
<1>2. /\ UNCHANGED <<exch, wire, stream, sub, recon, placed, kill_switch, inflight,
                     guessed>>
      /\ req_ends(r)
      /\ \/ /\ append_lifecycle_event_and_update_order(
                  o, p, repair_target(a), repair_source(a), repair_status(a), payload, Null)
            /\ marked' = IF is_terminal(repair_target(a)) THEN marked \cup {o} ELSE marked
         \/ UNCHANGED <<db, marked>>
  BY DEF RepairMark
<1> HIDE DEF o, a, p, payload
<1>3. marked \subseteq marked'
  BY <1>2
<1>4. marked' \subseteq Orders
  BY <1>1, <1>2 DEF IInv, TypeOK, HistoryTypeOK
<1>8. guessed' \subseteq Orders
  BY <1>2 DEF IInv, TypeOK, HistoryTypeOK
<1>5. ProvenKept /\ TruthKept
  BY <1>2, <1>3, SameExchange
<1>6. RowInv' /\ RowsKept
  <2>1. CASE UNCHANGED <<db, marked>>
    BY <1>5, <2>1, NothingWritten, Parts
  <2>2. CASE /\ append_lifecycle_event_and_update_order(
                   o, p, repair_target(a), repair_source(a), repair_status(a), payload, Null)
             /\ marked' = IF is_terminal(repair_target(a)) THEN marked \cup {o} ELSE marked
    <3>1. Wrote(o, repair_target(a), repair_status(a))
      BY <1>1, <2>2, MarkMapped, Writes, Parts DEF RowInv
    <3>2. TruthfulNext(o, repair_target(a)) /\ TruthfulNext(o, repair_status(a))
      BY <1>1, <2>2, MarkMapped DEF TruthfulNext, ProvenNext
    <3> QED
      BY <1>1, <1>5, <3>1, <3>2, MarkMapped, WroteKeeps, Parts
  <2> QED
    BY <1>2, <2>1, <2>2
<1>7. ReqInv'
  BY <1>2, <1>5, <1>6, ReqEnds
<1> QED
  BY <1>2, <1>4, <1>5, <1>6, <1>7, <1>8, ReqWriteFrames, PartsNext

LEMMA StreamApplyKeeps ==
    ASSUME IInv, StreamApply
    PROVE  IInv'
<1> DEFINE o == stream.report.order
           x == stream.report.status
           snap == stream.snap
<1>1. /\ o \in Orders /\ exists(o) /\ x \in ExchangeExecutionStatus /\ snap \in Row
      /\ Proven(o, x)
  <2>1. stream.pc = "handling" /\ stream.report \in Report /\ snap \in Row
    BY DEF StreamApply, IInv, TypeOK, StreamTypeOK
  <2>2. o \in Orders /\ x \in ExchangeExecutionStatus
    BY <2>1 DEF Report
  <2> QED
    BY <2>1, <2>2 DEF IInv, StreamEvidence
<1>2. /\ append_or_flag(o, snap, map_private_execution_report(x), "PRIVATE_STREAM", x, x)
      /\ stream' = [pc |-> "up", report |-> NoReport, snap |-> Absent]
      /\ UNCHANGED <<kill_switch, exch, wire, sub, req, recon, placed, marked, guessed, inflight>>
  BY DEF StreamApply, hist
<1> HIDE DEF o, x, snap
<1>3. ProvenKept /\ TruthKept
  BY <1>2, SameExchange
<1>4. ProvenNext(o, x)
  BY <1>1, <1>3 DEF ProvenKept
<1>5. /\ TruthfulNext(o, x) /\ TruthfulNext(o, map_private_execution_report(x))
      /\ map_private_execution_report(x) \in TestnetExecutionState
      /\ x \in LocalStatus /\ "PRIVATE_STREAM" \in TransitionSource
  BY <1>1, <1>4, ReportMapped, RenderedTrue DEF TruthfulNext, LocalStatus, TransitionSource
<1>6. RowInv' /\ RowsKept
  BY <1>1, <1>2, <1>3, <1>5, FlaggingKeeps, Parts
<1>7. WireInv' /\ SubInv' /\ ReqInv' /\ RunInv' /\ PlaceInv'
  BY <1>2, <1>3, <1>6, Frames
<1>8. Absent \in Row
  BY DEF Absent, Row
<1>9. StreamInv'
  BY <1>2, <1>8 DEF StreamInv, StreamTypeOK, StreamEvidence
<1>10. HistoryTypeOK'
  BY <1>2 DEF IInv, TypeOK, HistoryTypeOK
<1> QED
  BY <1>6, <1>7, <1>9, <1>10, PartsNext

LEMMA CountedType ==
    ASSUME NEW c \in Counts, NEW kind
    PROVE  counted(c, kind) \in Counts
BY DEF counted, Counts

LEMMA RunReplyKeeps ==
    ASSUME IInv, NEW k \in Runs, RunReply(k)
    PROVE  IInv'
<1> DEFINE o == run[k].order
           x == run[k].reply
           s == run[k].snap[o]
           rest == [run[k].snap EXCEPT ![o] = Absent]
           status == coalesce(local_testnet_status(x), s.status)
<1>1. /\ o \in run[k].todo /\ o \in Orders /\ exists(o) /\ s \in Row /\ Proven(o, x)
      /\ Truthful(o, s.status)
  BY RunKnows DEF RunReply
<1>2. Absent \in Row
  BY DEF Absent, Row
<1>3. /\ rest \in [Orders -> Row]
      /\ \A q \in run[k].todo \ {o} : rest[q] = run[k].snap[q]
  BY <1>1, <1>2, RunKnows
<1>4. /\ UNCHANGED <<kill_switch, exch, wire, stream, sub, req, placed, marked, guessed, inflight>>
      /\ \/ /\ x \in ExchangeOrderState
            /\ append_or_flag(o, s, map_rest_reconciliation_status(x),
                              "REST_RECONCILIATION", status, x)
         \/ UNCHANGED db
      /\ \/ \E kind : /\ run_goes(k, "listed", run[k].todo \ {o}, Null, Null, rest)
                      /\ summary' = [summary EXCEPT ![k] = counted(summary[k], kind)]
         \/ /\ summary' = summary
            /\ run_goes(k, "failed", run[k].todo, Null, Null, run[k].snap)
  BY DEF RunReply, order_done, hist
<1>5. ProvenKept /\ TruthKept
  BY <1>4, SameExchange
<1>6. ProvenNext(o, x) /\ TruthfulNext(o, s.status)
  BY <1>1, <1>5 DEF ProvenKept, TruthKept
<1>7. RowInv' /\ RowsKept
  <2>1. CASE UNCHANGED db
    BY <1>5, <2>1, NothingWritten, Parts
  <2>2. CASE /\ x \in ExchangeOrderState
             /\ append_or_flag(o, s, map_rest_reconciliation_status(x),
                               "REST_RECONCILIATION", status, x)
    <3>1. status \in LocalStatus \cup {Null}
      BY <1>1, <2>2, StatusMapped DEF coalesce, Row
    <3>2. TruthfulNext(o, local_testnet_status(x))
          /\ TruthfulNext(o, map_rest_reconciliation_status(x))
      BY <1>6, <2>2, StatusMapped, RestMapped, RenderedTrue
    <3>3. TruthfulNext(o, status)
      BY <1>6, <3>2 DEF coalesce
    <3>4. /\ x \in ExchangeExecutionStatus /\ "REST_RECONCILIATION" \in TransitionSource
          /\ map_rest_reconciliation_status(x) \in TestnetExecutionState
      BY <2>2, RestMapped DEF ExchangeExecutionStatus, TransitionSource
    <3> HIDE DEF o, x, s, status
    <3> QED
      BY <1>1, <1>5, <2>2, <3>1, <3>2, <3>3, <3>4, FlaggingKeeps, Parts
  <2> QED
    BY <1>4, <2>1, <2>2
<1>8. WireInv' /\ StreamInv' /\ SubInv' /\ ReqInv' /\ PlaceInv'
  BY <1>4, <1>5, <1>7, Frames
<1>9. summary' \in [Runs -> Counts]
  <2>1. summary \in [Runs -> Counts] /\ \A kind : counted(summary[k], kind) \in Counts
    BY RunKnows, CountedType
  <2>2. summary' = summary \/ \E kind : summary' = [summary EXCEPT ![k] = counted(summary[k], kind)]
    BY <1>4
  <2> QED
    BY <2>1, <2>2
<1>10. \A q \in run[k].todo : exists(q) /\ TruthfulNext(q, run[k].snap[q].status)
  BY <1>5, RunKnows DEF TruthKept
<1>11. Null \in Reply /\ run[k].todo \in SUBSET Orders /\ run[k].snap \in [Orders -> Row]
  BY RunKnows DEF Reply
<1>12. RunInv'
  <2> HIDE DEF o, x, s, rest, status
  <2>1. CASE run_goes(k, "listed", run[k].todo \ {o}, Null, Null, rest)
    <3>1. run[k].todo \ {o} \in SUBSET Orders
      BY <1>11
    <3>2. \A q \in run[k].todo \ {o} : exists(q) /\ TruthfulNext(q, rest[q].status)
      BY <1>3, <1>10
    <3> QED
      BY <1>3, <1>5, <1>7, <1>9, <1>11, <2>1, <3>1, <3>2, RunGoes
  <2>2. CASE run_goes(k, "failed", run[k].todo, Null, Null, run[k].snap)
    BY <1>5, <1>7, <1>9, <1>10, <1>11, <2>2, RunGoes
  <2> QED
    BY <1>4, <2>1, <2>2
<1>13. HistoryTypeOK'
  BY <1>4 DEF IInv, TypeOK, HistoryTypeOK
<1> QED
  BY <1>7, <1>8, <1>12, <1>13, PartsNext

-----------------------------------------------------------------------------
(* The steps in which the exchange's order moves. *)

(* A report says what is now so. *)
LEMMA ReportTrue ==
    ASSUME IInv, ProvenKept, NEW o \in Orders, NEW x \in ExchangeOrderState,
           exch' = [exch EXCEPT ![o] = x], report(o, x)
    PROVE  WireInv'
<1>1. exch' \in [Orders -> ExchangeOrderState \cup {Null}] /\ exch'[o] = x
  BY DEF IInv, TypeOK, ExchangeTypeOK
<1>2. wire \in Seq(Report) /\ \A i \in 1 .. Len(wire) : wire[i] \in Report
  BY DEF IInv, TypeOK, ExchangeTypeOK
<1>3. \A i \in 1 .. Len(wire) : ProvenNext(wire[i].order, wire[i].status)
  <2> SUFFICES ASSUME NEW i \in 1 .. Len(wire)
               PROVE  ProvenNext(wire[i].order, wire[i].status)
    OBVIOUS
  <2>1. wire[i].order \in Orders
    BY <1>2 DEF Report
  <2>2. Proven(wire[i].order, wire[i].status)
    BY DEF IInv, WireEvidence
  <2> QED
    BY <2>1, <2>2 DEF ProvenKept
<1>4. PICK w \in reports_of(x) :
         \/ wire' = wire
         \/ wire' = Append(wire, [order |-> o, status |-> w])
  BY DEF report
<1>5. /\ [order |-> o, status |-> w] \in Report
      /\ ProvenNext(o, w)
  BY <1>1, <1>4 DEF reports_of, Report, ExchangeExecutionStatus, ExchangeOrderState,
     ProvenNext, OverWords, exchange_word
<1>6. CASE wire' = wire
  BY <1>1, <1>2, <1>3, <1>6 DEF WireInv, ExchangeTypeOK, WireEvidence, Proven, ProvenNext
<1>7. CASE wire' = Append(wire, [order |-> o, status |-> w])
  <2> DEFINE new == [order |-> o, status |-> w]
  <2>0. new.order = o /\ new.status = w /\ new \in Report
    BY <1>5
  <2> HIDE DEF new
  <2>1. /\ wire' \in Seq(Report) /\ Len(wire') = Len(wire) + 1
        /\ \A i \in 1 .. Len(wire) : wire'[i] = wire[i]
        /\ wire'[Len(wire) + 1] = new
    BY <1>2, <1>7, <2>0 DEF new
  <2>2. \A i \in 1 .. Len(wire') : i \in 1 .. Len(wire) \/ i = Len(wire) + 1
    BY <1>2, <2>1
  <2>3. \A i \in 1 .. Len(wire') : ProvenNext(wire'[i].order, wire'[i].status)
    BY <1>3, <1>5, <2>0, <2>1, <2>2
  <2> QED
    BY <1>1, <2>1, <2>3 DEF WireInv, ExchangeTypeOK, WireEvidence, Proven, ProvenNext
<1> QED
  BY <1>4, <1>6, <1>7

(* An order moves that has been placed already. *)
LEMMA MovePlaced ==
    ASSUME IInv, NEW o \in Orders, NEW x \in ExchangeOrderState,
           exch[o] # Null, ~exchange_final(exch[o]),
           exch' = [exch EXCEPT ![o] = x], report(o, x),
           UNCHANGED <<kill_switch, db, stream, sub, recon, placed, marked, guessed, inflight>>
    PROVE  /\ RowInv' /\ WireInv' /\ StreamInv' /\ SubInv' /\ RunInv' /\ PlaceInv'
           /\ HistoryTypeOK' /\ ProvenKept /\ TruthKept /\ RowsKept
<1>1. ProvenKept /\ TruthKept
  BY LiveOrderMoves DEF IInv, TypeOK
<1>2. RowInv' /\ RowsKept
  BY <1>1, NothingWritten, Parts
<1>3. WireInv'
  BY <1>1, ReportTrue
<1>4. StreamInv' /\ SubInv' /\ RunInv'
  BY <1>1, <1>2, Frames
<1>5. exists(o) /\ \A q \in Orders : q # o => exch'[q] = exch[q]
  BY DEF IInv, PlacedOnce, TypeOK, ExchangeTypeOK
<1>6. PlacedOnce' /\ NothingPlacedWithoutRow'
  BY <1>5 DEF IInv, PlacedOnce, NothingPlacedWithoutRow, exists, db
<1>7. OneCaller'
  BY <1>5 DEF IInv, OneCaller, TypeOK, SubTypeOK, exists, db
<1>8. HistoryTypeOK'
  BY DEF IInv, TypeOK, HistoryTypeOK
<1> QED
  BY <1>1, <1>2, <1>3, <1>4, <1>6, <1>7, <1>8 DEF PlaceInv

LEMMA ExchangeMoveTypes ==
    ASSUME NEW y \in ExchangeOrderState \cup {Null}, NEW x,
           x \in exchange_moves(y) \/ x \in exchange_cancels(y)
    PROVE  x \in ExchangeOrderState /\ y # Null /\ ~exchange_final(y)
<1>1. CASE x \in exchange_moves(y)
  BY <1>1, Zenon DEF exchange_moves, ExchangeOrderState, exchange_final, Null
<1>2. CASE x \in exchange_cancels(y)
  BY <1>2 DEF exchange_cancels, ExchangeOrderState, exchange_final, Null
<1> QED
  BY <1>1, <1>2

LEMMA ExchangeMovesKeeps ==
    ASSUME IInv, NEW o \in Orders, ExchangeMoves(o)
    PROVE  IInv'
<1>1. PICK x \in exchange_moves(exch[o]) : exch' = [exch EXCEPT ![o] = x] /\ report(o, x)
  BY DEF ExchangeMoves
<1>2. exch[o] \in ExchangeOrderState \cup {Null}
  BY DEF IInv, TypeOK, ExchangeTypeOK
<1>3. x \in ExchangeOrderState /\ exch[o] # Null /\ ~exchange_final(exch[o])
  BY <1>1, <1>2, ExchangeMoveTypes
<1>4. UNCHANGED <<kill_switch, db, stream, sub, req, recon, placed, marked, guessed, inflight>>
  BY DEF ExchangeMoves, hist
<1>5. /\ RowInv' /\ WireInv' /\ StreamInv' /\ SubInv' /\ RunInv' /\ PlaceInv'
      /\ HistoryTypeOK' /\ ProvenKept /\ TruthKept /\ RowsKept
  BY <1>1, <1>3, <1>4, MovePlaced
<1>6. ReqInv'
  BY <1>4, <1>5, Frames
<1> QED
  BY <1>5, <1>6, PartsNext

LEMMA CancelCallKeeps ==
    ASSUME IInv, NEW r \in Requests, CancelCall(r)
    PROVE  IInv'
<1> DEFINE o == req[r].order
<1>1. /\ o \in Orders /\ exists(o) /\ req[r].snap \in Row /\ req[r].pc \notin {"idle", "done"}
      /\ req[r].op \in {"CANCEL", "SAFE_CANCEL_REQUEST"}
      /\ exch[o] \in ExchangeOrderState \cup {Null}
  BY ReqKnows DEF CancelCall, IInv, TypeOK, ExchangeTypeOK
<1>2. UNCHANGED <<kill_switch, db, stream, sub, recon, placed, marked, guessed, inflight>>
  BY DEF CancelCall, hist
<1>3. ASSUME NEW x \in exchange_cancels(exch[o]), NEW reply \in answers_of(x),
             exch' = [exch EXCEPT ![o] = x], report(o, x),
             req_goes(r, "replied", req[r].snap, reply)
      PROVE  IInv'
  <2>1. x \in ExchangeOrderState /\ exch[o] # Null /\ ~exchange_final(exch[o])
    BY <1>1, <1>3, ExchangeMoveTypes
  <2>2. /\ RowInv' /\ WireInv' /\ StreamInv' /\ SubInv' /\ RunInv' /\ PlaceInv'
        /\ HistoryTypeOK' /\ ProvenKept /\ TruthKept /\ RowsKept
    BY <1>1, <1>2, <1>3, <2>1, MovePlaced
  <2>3. exch'[o] = x
    BY <1>1, <1>3 DEF IInv, TypeOK, ExchangeTypeOK
  <2>4. ProvenNext(o, reply) /\ reply \in ExchangeOrderState \cup {"ERR"} \cup Unparsed(req[r].op)
    BY <1>1, <1>3, <2>1, <2>3 DEF ProvenNext, OverWords, exchange_word, ExchangeOrderState,
       answers_of, Unparsed
  <2>5. ReqInv'
    BY <1>1, <1>3, <2>2, <2>4, ReqGoes DEF Reply, Unparsed
  <2> QED
    BY <2>2, <2>5, PartsNext
<1>4. ASSUME NEW reply \in answers_of(exch[o]), UNCHANGED <<exch, wire>>,
             req_goes(r, "replied", req[r].snap, reply)
      PROVE  IInv'
  <2>1. RowInv' /\ ProvenKept /\ TruthKept /\ RowsKept
    BY <1>2, <1>4, Quiet
  <2>2. /\ WireInv' /\ StreamInv' /\ SubInv' /\ RunInv' /\ PlaceInv'
    BY <1>2, <1>4, <2>1, Frames
  <2>3. HistoryTypeOK'
    BY <1>2 DEF IInv, TypeOK, HistoryTypeOK
  <2>4. ProvenNext(o, reply) /\ reply \in ExchangeOrderState \cup {"ERR"} \cup Unparsed(req[r].op)
    BY <1>1, <1>4 DEF ProvenNext, OverWords, exchange_word, ExchangeOrderState,
       answers_of, Unparsed
  <2>5. ReqInv'
    BY <1>1, <1>4, <2>1, <2>4, ReqGoes DEF Reply, Unparsed
  <2> QED
    BY <2>1, <2>2, <2>3, <2>5, PartsNext
<1> HIDE DEF o
<1>5. \/ \E x \in exchange_cancels(exch[o]) : \E reply \in answers_of(x) :
             /\ exch' = [exch EXCEPT ![o] = x]
             /\ report(o, x)
             /\ req_goes(r, "replied", req[r].snap, reply)
      \/ \E reply \in answers_of(exch[o]) :
             /\ req_goes(r, "replied", req[r].snap, reply)
             /\ UNCHANGED <<exch, wire>>
  BY DEF CancelCall, o
<1> QED
  BY <1>3, <1>4, <1>5

LEMMA SubmitCallKeeps ==
    ASSUME IInv, NEW s \in Submits, SubmitCall(s)
    PROVE  IInv'
<1> DEFINE o == sub[s].order
<1>1. /\ sub[s].pc = "requested" /\ o \in Orders /\ exists(o)
      /\ placed[o] = 0 /\ exch[o] = Null
      /\ \A t \in Submits \ {s} : sub[t].pc \in {"inserted", "requested"} => sub[t].order # o
  BY DEF SubmitCall, IInv, TypeOK, SubTypeOK, OneCaller
<1>2. UNCHANGED <<kill_switch, db, stream, req, recon, marked, guessed, inflight>>
  BY DEF SubmitCall
<1>3. ASSUME NEW x \in Placements, NEW reply \in answers_of(x),
             exch' = [exch EXCEPT ![o] = x], report(o, x),
             placed' = [placed EXCEPT ![o] = @ + 1],
             sub_goes(s, "replied", o, reply)
      PROVE  IInv'
  <2>1. x \in ExchangeOrderState
    BY <1>3, InputsAssumption
  <2>2. ProvenKept /\ TruthKept
    BY <1>1, <1>2, <1>3, LiveOrderMoves DEF IInv, TypeOK, exchange_final, Null
  <2>3. RowInv' /\ RowsKept
    BY <1>2, <2>2, NothingWritten, Parts
  <2>4. WireInv'
    BY <1>1, <1>3, <2>1, <2>2, ReportTrue
  <2>5. StreamInv' /\ ReqInv' /\ RunInv'
    BY <1>2, <2>2, <2>3, Frames
  <2>6. /\ exch'[o] = x /\ placed'[o] = 1 /\ placed' \in [Orders -> Nat]
        /\ \A q \in Orders : q # o => exch'[q] = exch[q] /\ placed'[q] = placed[q]
    BY <1>1, <1>3 DEF IInv, TypeOK, ExchangeTypeOK, HistoryTypeOK
  <2>7. ProvenNext(o, reply) /\ reply \in ExchangeOrderState \cup {"ERR", "UNKNOWN"}
    BY <1>3, <2>1, <2>6 DEF ProvenNext, OverWords, exchange_word, ExchangeOrderState,
       answers_of
  <2>8. SubInv'
    BY <1>1, <1>3, <2>2, <2>7, SubGoes DEF Reply
  <2>9. PlacedOnce' /\ NothingPlacedWithoutRow'
    BY <1>1, <1>2, <2>6 DEF IInv, PlacedOnce, NothingPlacedWithoutRow, exists, db
  <2>10. OneCaller'
    BY <1>1, <1>2, <1>3, <2>6 DEF IInv, OneCaller, TypeOK, SubTypeOK, sub_goes, exists, db
  <2>11. HistoryTypeOK'
    BY <1>2, <2>6 DEF IInv, TypeOK, HistoryTypeOK
  <2> QED
    BY <2>3, <2>4, <2>5, <2>8, <2>9, <2>10, <2>11, PartsNext DEF PlaceInv
<1>4. ASSUME UNCHANGED <<exch, wire, placed>>, sub_goes(s, "replied", o, "ERR")
      PROVE  IInv'
  <2>1. RowInv' /\ ProvenKept /\ TruthKept /\ RowsKept
    BY <1>2, <1>4, Quiet
  <2>2. WireInv' /\ StreamInv' /\ ReqInv' /\ RunInv'
    BY <1>2, <1>4, <2>1, Frames
  <2>3. HistoryTypeOK'
    BY <1>2, <1>4 DEF IInv, TypeOK, HistoryTypeOK
  <2>4. SubInv'
    BY <1>1, <1>4, <2>1, SubGoes DEF Reply, ProvenNext, OverWords
  <2>5. PlacedOnce' /\ NothingPlacedWithoutRow'
    BY <1>2, <1>4 DEF IInv, PlacedOnce, NothingPlacedWithoutRow, exists, db
  <2>6. OneCaller'
    BY <1>1, <1>2, <1>4 DEF IInv, OneCaller, TypeOK, SubTypeOK, sub_goes, exists, db
  <2> QED
    BY <2>1, <2>2, <2>3, <2>4, <2>5, <2>6, PartsNext DEF PlaceInv
<1> HIDE DEF o
<1>5. \/ \E x \in Placements : \E reply \in answers_of(x) :
            /\ exch' = [exch EXCEPT ![o] = x]
            /\ report(o, x)
            /\ placed' = [placed EXCEPT ![o] = @ + 1]
            /\ sub_goes(s, "replied", o, reply)
      \/ sub_goes(s, "replied", o, "ERR") /\ UNCHANGED <<exch, wire, placed>>
  BY DEF SubmitCall, o
<1> QED
  BY <1>3, <1>4, <1>5

-----------------------------------------------------------------------------
(* The invariant. *)

LEMMA InitKeeps == Init => IInv
<1> SUFFICES ASSUME Init PROVE IInv
  OBVIOUS
<1> USE DEF Init
<1>1. Absent \in Row /\ NoEvent \in Event /\ NoneChecked(0) \in Counts
  BY DEF Absent, Row, NoEvent, Event, NoneChecked, Counts
<1>2. DbTypeOK /\ EventMatchesRow
  BY <1>1 DEF DbTypeOK, EventMatchesRow
<1>3. TerminalIsTrue
  BY DEF TerminalIsTrue, Truthful, Proven, OverWords, Absent, Null
<1>4. WireInv
  BY DEF WireInv, ExchangeTypeOK, WireEvidence
<1>5. StreamInv
  BY <1>1 DEF StreamInv, StreamTypeOK, StreamEvidence
<1>6. SubInv
  BY DEF SubInv, SubTypeOK, SubEvidence, Reply
<1>7. ReqInv
  BY <1>1 DEF ReqInv, ReqTypeOK, ReqEvidence, NoRequest, Reply
<1>8. RunInv
  BY <1>1 DEF RunInv, RunTypeOK, RunEvidence, Reply, Counts
<1>9. PlaceInv
  <2>1. /\ \A o \in Orders : placed[o] = 0 /\ exch[o] = Null
        /\ \A s \in Submits : sub[s].pc = "idle"
    OBVIOUS
  <2>2. PlacedOnce /\ NothingPlacedWithoutRow
    BY <2>1 DEF PlacedOnce, NothingPlacedWithoutRow
  <2>3. OneCaller
    BY <2>1 DEF OneCaller
  <2> QED
    BY <2>2, <2>3 DEF PlaceInv
<1>10. HistoryTypeOK
  BY DEF HistoryTypeOK
<1> QED
  BY <1>2, <1>3, <1>4, <1>5, <1>6, <1>7, <1>8, <1>9, <1>10, Parts DEF RowInv

LEMMA NextKeeps == IInv /\ [Next]_vars => IInv'
<1> SUFFICES ASSUME IInv, [Next]_vars PROVE IInv'
  OBVIOUS
<1>1. ASSUME NEW s \in Submits, Submit(s) PROVE IInv'
  BY <1>1, SubmitQuietKeeps, SubmitInsertKeeps, SubmitRecordKeeps, SubmitCallKeeps,
     SubmitReplyKeeps DEF Submit
<1>2. ASSUME NEW r \in Requests, Request(r) PROVE IInv'
  BY <1>2, RequestQuietKeeps, CancelMarkKeeps, SafeCancelMarkKeeps, CancelCallKeeps,
     CancelReplyKeeps, StatusReplyKeeps, RepairMarkKeeps DEF Request
<1>3. ASSUME NEW k \in Runs, Reconcile(k) PROVE IInv'
  BY <1>3, RunQuietKeeps, RunReplyKeeps DEF Reconcile
<1>4. CASE Stream
  BY <1>4, StreamQuietKeeps, StreamApplyKeeps DEF Stream
<1>5. ASSUME NEW o \in Orders, ExchangeMoves(o) \/ ExchangeReportsUnknown(o) PROVE IInv'
  BY <1>5, ExchangeMovesKeeps, UnknownReportKeeps
<1>6. ASSUME NEW on \in Switchings, set_kill_switch_state(on) PROVE IInv'
  BY <1>6, KillSwitchKeeps, InputsAssumption
<1>7. CASE UNCHANGED vars
  <2>1. RowInv' /\ ProvenKept /\ TruthKept /\ RowsKept
    BY <1>7, Quiet DEF vars, db
  <2>2. /\ WireInv' /\ StreamInv' /\ SubInv' /\ ReqInv' /\ RunInv' /\ PlaceInv'
    BY <1>7, <2>1, Frames DEF vars, recon
  <2>3. HistoryTypeOK'
    BY <1>7 DEF vars, IInv, TypeOK, HistoryTypeOK
  <2> QED
    BY <2>1, <2>2, <2>3, PartsNext
<1> QED
  BY <1>1, <1>2, <1>3, <1>4, <1>5, <1>6, <1>7 DEF Next

(* IInv is an invariant of every instance of the lifecycle: the submit,    *)
(* cancel, GET and repair handlers of the API, the private-stream worker   *)
(* and reconciliation runs, in every interleaving.                         *)
THEOREM Invariant == Spec => []IInv
BY InitKeeps, NextKeeps, PTL DEF Spec

(* Every variable keeps its type (the tables of TestnetLifecycle give an   *)
(* execution state for every word of the exchange).                        *)
THEOREM TypeCorrect == Spec => []TypeOK
<1>1. IInv => TypeOK
  BY DEF IInv
<1> QED
  BY <1>1, Invariant, PTL

(* However many submit requests share a correlation id, the exchange is    *)
(* asked to place an order at most once, and never without a row.          *)
THEOREM NeverPlacedTwice == Spec => []PlacedOnce
<1>1. IInv => PlacedOnce
  BY DEF IInv
<1> QED
  BY <1>1, Invariant, PTL

(* A row that says an order is over is right, unless an operator marked it *)
(* or, for a cancelled order, its cancel was answered with a word that     *)
(* into_exchange_cancel_ack does not know; FILLED is never wrong.  The     *)
(* proof carries the exchange's words along: what it said of an order that *)
(* is over stays so.                                                       *)
THEOREM RowsAreTruthful == Spec => []TerminalIsTrue
<1>1. IInv => TerminalIsTrue
  BY DEF IInv
<1> QED
  BY <1>1, Invariant, PTL

(* The latest lifecycle event and the row never disagree on the state      *)
(* (append_exchange_testnet_lifecycle_event_and_update_order).             *)
THEOREM EventsTellTheState == Spec => []EventMatchesRow
<1>1. IInv => EventMatchesRow
  BY DEF IInv
<1> QED
  BY <1>1, Invariant, PTL

-----------------------------------------------------------------------------
(* The counters of a run. *)

\* What SummaryAdds says of one run.
Adds(k) ==
    /\ summary[k].checked = summary[k].matched + summary[k].mismatched
    /\ summary[k].unknown <= summary[k].mismatched
    /\ summary[k].checked + Cardinality(run[k].todo) = summary[k].listed
    /\ run[k].pc = "completed" => summary[k].checked = summary[k].listed

(* Steps of the other processes leave the runs alone. *)
LEMMA ReconAlone ==
    ASSUME [Next]_vars
    PROVE  UNCHANGED recon \/ \E k \in Runs : Reconcile(k)
<1>1. ASSUME NEW s \in Submits, Submit(s) PROVE UNCHANGED recon
  BY <1>1 DEF Submit, SubmitAdmitted, SubmitRefused, SubmitInsert, SubmitRecord, SubmitCall,
     SubmitReply, SubmitAborted, recon
<1>2. ASSUME NEW r \in Requests, Request(r) PROVE UNCHANGED recon
  BY <1>2 DEF Request, RequestRead, CancelMark, SafeCancelMark, CancelCall, CancelReply,
     StatusCall, StatusReply, RepairMark, RequestAborted, recon
<1>3. ASSUME Stream PROVE UNCHANGED recon
  BY <1>3 DEF Stream, StreamConnect, StreamLost, StreamTake, StreamApply, recon
<1>4. ASSUME NEW o \in Orders, ExchangeMoves(o) \/ ExchangeReportsUnknown(o)
      PROVE  UNCHANGED recon
  BY <1>4 DEF ExchangeMoves, ExchangeReportsUnknown, recon
<1>5. ASSUME NEW on \in Switchings, set_kill_switch_state(on) PROVE UNCHANGED recon
  BY <1>5 DEF set_kill_switch_state, recon
<1>6. ASSUME UNCHANGED vars PROVE UNCHANGED recon
  BY <1>6 DEF vars, recon
<1> QED
  BY <1>1, <1>2, <1>3, <1>4, <1>5, <1>6 DEF Next

(* Sets of orders are finite, and counting one off removes one. *)
LEMMA OrdersCounted ==
    ASSUME NEW T, T \subseteq Orders
    PROVE  /\ Cardinality(T) \in Nat
           /\ \A o \in T : Cardinality(T \ {o}) = Cardinality(T) - 1
<1>1. IsFiniteSet(T)
  BY OrdersAssumption, FS_Subset
<1> QED
  BY <1>1, FS_CardinalityType, FS_RemoveElement

(* An order that is counted is a match or a mismatch, an unknown one too.  *)
LEMMA CountedOnce ==
    ASSUME NEW c \in Counts, NEW kind
    PROVE  LET d == counted(c, kind) IN
           /\ d \in Counts /\ d.listed = c.listed /\ d.checked = c.checked + 1
           /\ d.matched + d.mismatched = c.matched + c.mismatched + 1
           /\ c.unknown <= c.mismatched => d.unknown <= d.mismatched
<1> DEFINE d == counted(c, kind)
           unknown == kind \in {"EXCHANGE_ORDER_MISSING", "UNKNOWN_EXCHANGE_STATE"}
<1>1. /\ c.listed \in Nat /\ c.checked \in Nat /\ c.matched \in Nat
      /\ c.mismatched \in Nat /\ c.unknown \in Nat
  BY DEF Counts
<1>2. unknown => kind # Null
  BY DEF Null
<1>3. /\ d.listed = c.listed /\ d.checked = c.checked + 1
      /\ d.matched = c.matched + (IF kind = Null THEN 1 ELSE 0)
      /\ d.mismatched = c.mismatched + (IF kind = Null THEN 0 ELSE 1)
      /\ d.unknown = c.unknown + (IF unknown THEN 1 ELSE 0)
  BY DEF counted
<1>4. d \in Counts
  BY <1>1 DEF counted, Counts
<1> HIDE DEF d, unknown
<1>5. /\ d.matched + d.mismatched = c.matched + c.mismatched + 1
      /\ c.unknown <= c.mismatched => d.unknown <= d.mismatched
  BY <1>1, <1>2, <1>3
<1> QED
  BY <1>3, <1>4, <1>5 DEF d

(* A run that goes on with the same orders to check. *)
LEMMA RunGoesOn ==
    ASSUME IInv, NEW k \in Runs, NEW pc, NEW todo, NEW o, NEW reply, NEW snap,
           run_goes(k, pc, todo, o, reply, snap)
    PROVE  /\ run'[k].pc = pc /\ run'[k].todo = todo
           /\ \A j \in Runs : j # k => run'[j] = run[j]
<1>1. k \in DOMAIN run /\ DOMAIN run = Runs
  BY DEF IInv, TypeOK, RunTypeOK
<1> QED
  BY <1>1 DEF run_goes

(* Every step of a run keeps its counters in step with its list. *)
LEMMA AddsKept ==
    ASSUME IInv, SummaryAdds, NEW k \in Runs, Reconcile(k)
    PROVE  /\ Adds(k)'
           /\ \A j \in Runs : j # k => run'[j] = run[j] /\ summary'[j] = summary[j]
<1>1. /\ Adds(k) /\ run[k].todo \subseteq Orders /\ summary \in [Runs -> Counts]
      /\ summary[k] \in Counts
      /\ run[k].pc = "replied" => run[k].order \in run[k].todo
  BY RunKnows DEF SummaryAdds, Adds
<1>2. /\ summary[k].listed \in Nat /\ summary[k].checked \in Nat
      /\ summary[k].matched \in Nat /\ summary[k].mismatched \in Nat
      /\ Cardinality(run[k].todo) \in Nat
  BY <1>1, OrdersCounted DEF Counts
<1>3. CASE \E filter \in {DefaultFilter, {}} : RunList(k, filter)
  <2>1. PICK T \in SUBSET Orders :
          /\ run_goes(k, "listed", T, Null, Null, row)
          /\ summary' = [summary EXCEPT ![k] = NoneChecked(Cardinality(T))]
    BY <1>3 DEF RunList
  <2>2. /\ run'[k].pc = "listed" /\ run'[k].todo = T
        /\ \A j \in Runs : j # k => run'[j] = run[j]
    BY <2>1, RunGoesOn
  <2>3. Cardinality(T) \in Nat
    BY OrdersCounted
  <2>4. /\ summary'[k] = NoneChecked(Cardinality(T))
        /\ \A j \in Runs : j # k => summary'[j] = summary[j]
    BY <1>1, <2>1
  <2>5. Adds(k)'
    BY <2>2, <2>3, <2>4 DEF Adds, NoneChecked
  <2> QED
    BY <2>2, <2>4, <2>5
<1>4. CASE /\ UNCHANGED summary
           /\ \E pc \in {"replied", "failed", "abandoned"} : \E o, reply, snap :
                 run_goes(k, pc, run[k].todo, o, reply, snap)
  <2>1. /\ run'[k].pc # "completed" /\ run'[k].todo = run[k].todo
        /\ \A j \in Runs : j # k => run'[j] = run[j]
    BY <1>4, RunGoesOn
  <2> QED
    BY <1>1, <1>4, <2>1 DEF Adds
<1>5. CASE RunComplete(k)
  <2>1. /\ run[k].todo = {} /\ UNCHANGED summary
        /\ run_goes(k, "completed", {}, Null, Null, run[k].snap)
    BY <1>5 DEF RunComplete
  <2>2. run'[k].todo = {} /\ \A j \in Runs : j # k => run'[j] = run[j]
    BY <2>1, RunGoesOn
  <2>3. Cardinality({}) = 0
    BY FS_EmptySet
  <2> QED
    BY <1>1, <1>2, <2>1, <2>2, <2>3 DEF Adds
<1>6. CASE run[k].pc = "replied" /\ \E kind : order_done(k, kind)
  <2>1. PICK kind : order_done(k, kind)
    BY <1>6
  <2> DEFINE todo == run[k].todo \ {run[k].order}
             c == counted(summary[k], kind)
  <2>2. /\ run'[k].pc = "listed" /\ run'[k].todo = todo
        /\ \A j \in Runs : j # k => run'[j] = run[j]
    BY <2>1, RunGoesOn DEF order_done
  <2>3. /\ summary'[k] = c /\ \A j \in Runs : j # k => summary'[j] = summary[j]
    BY <1>1, <2>1 DEF order_done
  <2>4. Cardinality(todo) = Cardinality(run[k].todo) - 1
    BY <1>1, <1>6, OrdersCounted
  <2>5. /\ c.listed = summary[k].listed /\ c.checked = summary[k].checked + 1
        /\ c.matched + c.mismatched = summary[k].matched + summary[k].mismatched + 1
        /\ summary[k].unknown <= summary[k].mismatched => c.unknown <= c.mismatched
    BY <1>1, CountedOnce
  <2> HIDE DEF todo, c
  <2>6. Adds(k)'
    BY <1>1, <1>2, <2>2, <2>3, <2>4, <2>5 DEF Adds
  <2> QED
    BY <2>2, <2>3, <2>6
<1> QED
  BY <1>3, <1>4, <1>5, <1>6 DEF Reconcile, RunCall, RunReply, RunAborted

(* The counters of a reconciliation run add up at every point of its loop,  *)
(* for any number of orders: a COMPLETED run has checked every order it     *)
(* listed, and each is counted once.                                        *)
THEOREM SummariesAdd == Spec => []SummaryAdds
<1>1. Init => SummaryAdds
  <2> SUFFICES ASSUME Init, NEW k \in Runs PROVE Adds(k)
    BY DEF SummaryAdds, Adds
  <2>1. summary[k] = NoneChecked(0) /\ run[k].todo = {} /\ run[k].pc = "idle"
    BY DEF Init
  <2>2. Cardinality({}) = 0
    BY FS_EmptySet
  <2> QED
    BY <2>1, <2>2 DEF Adds, NoneChecked
<1>2. IInv /\ SummaryAdds /\ [Next]_vars => SummaryAdds'
  <2> SUFFICES ASSUME IInv, SummaryAdds, [Next]_vars PROVE SummaryAdds'
    OBVIOUS
  <2>1. CASE UNCHANGED recon
    BY <2>1 DEF recon, SummaryAdds
  <2>2. ASSUME NEW k \in Runs, Reconcile(k) PROVE SummaryAdds'
    BY <2>2, AddsKept DEF SummaryAdds, Adds
  <2> QED
    BY <2>1, <2>2, ReconAlone
<1> QED
  BY <1>1, <1>2, Invariant, PTL DEF Spec

-----------------------------------------------------------------------------
(* The kill switch. *)

\* A submission between its admission and its call.
OnItsWay(pc) == pc \in {"admitted", "inserted", "requested"}

(* Only submissions and operators touch what DrainEvidence is about. *)
LEMMA SubmitsAlone ==
    ASSUME [Next]_vars
    PROVE  \/ UNCHANGED <<kill_switch, sub, placed, inflight>>
           \/ \E s \in Submits : Submit(s)
           \/ \E on \in Switchings : set_kill_switch_state(on)
<1>1. ASSUME NEW r \in Requests, Request(r)
      PROVE  UNCHANGED <<kill_switch, sub, placed, inflight>>
  BY <1>1 DEF Request, RequestRead, CancelMark, SafeCancelMark, CancelCall, CancelReply,
     StatusCall, StatusReply, RepairMark, RequestAborted, hist
<1>2. ASSUME NEW k \in Runs, Reconcile(k)
      PROVE  UNCHANGED <<kill_switch, sub, placed, inflight>>
  BY <1>2 DEF Reconcile, RunList, RunCall, RunReply, RunComplete, RunAborted, hist
<1>3. ASSUME Stream PROVE UNCHANGED <<kill_switch, sub, placed, inflight>>
  BY <1>3 DEF Stream, StreamConnect, StreamLost, StreamTake, StreamApply, hist
<1>4. ASSUME NEW o \in Orders, ExchangeMoves(o) \/ ExchangeReportsUnknown(o)
      PROVE  UNCHANGED <<kill_switch, sub, placed, inflight>>
  BY <1>4 DEF ExchangeMoves, ExchangeReportsUnknown, hist
<1>5. ASSUME UNCHANGED vars PROVE UNCHANGED <<kill_switch, sub, placed, inflight>>
  BY <1>5 DEF vars
<1> QED
  BY <1>1, <1>2, <1>3, <1>4, <1>5 DEF Next

(* A submission gets on its way only while the switch is off, and only its *)
(* call places an order.                                                   *)
LEMMA SubmitEffect ==
    ASSUME IInv, NEW s \in Submits, Submit(s)
    PROVE  /\ UNCHANGED <<kill_switch, inflight>>
           /\ \A t \in Submits : t # s => sub'[t] = sub[t]
           /\ OnItsWay(sub'[s].pc) => ~kill_switch \/ OnItsWay(sub[s].pc)
           /\ \A o \in Orders : placed'[o] # placed[o] =>
                 sub[s].pc = "requested" /\ sub[s].order = o
<1>1. DOMAIN sub = Submits /\ placed \in [Orders -> Nat]
  BY DEF IInv, TypeOK, SubTypeOK, HistoryTypeOK
<1>2. UNCHANGED <<kill_switch, inflight>>
  BY DEF Submit, SubmitAdmitted, SubmitRefused, SubmitInsert, SubmitRecord, SubmitCall,
     SubmitReply, SubmitAborted, hist
<1>3. PICK pc : \E o, reply :
        /\ sub' = [sub EXCEPT ![s] = [pc |-> pc, order |-> o, reply |-> reply]]
        /\ OnItsWay(pc) => ~kill_switch \/ OnItsWay(sub[s].pc)
  <2>1. ASSUME NEW o \in Orders, SubmitAdmitted(s, o)
        PROVE  sub_goes(s, "admitted", o, Null) /\ ~kill_switch
    BY <2>1 DEF SubmitAdmitted
  <2>2. ASSUME SubmitInsert(s) PROVE sub_ends(s) \/ \E o : sub_goes(s, "inserted", o, Null)
    BY <2>2 DEF SubmitInsert
  <2>3. ASSUME SubmitRecord(s) PROVE \E o : sub_goes(s, "requested", o, Null)
    BY <2>3 DEF SubmitRecord
  <2>4. ASSUME SubmitCall(s) PROVE \E o, reply : sub_goes(s, "replied", o, reply)
    BY <2>4 DEF SubmitCall
  <2>5. ASSUME SubmitRefused(s) \/ SubmitReply(s) \/ SubmitAborted(s) PROVE sub_ends(s)
    BY <2>5 DEF SubmitRefused, SubmitReply, SubmitAborted
  <2>6. /\ SubmitInsert(s) => OnItsWay(sub[s].pc)
        /\ SubmitRecord(s) => OnItsWay(sub[s].pc)
    BY DEF SubmitInsert, SubmitRecord, OnItsWay
  <2> QED
    BY <2>1, <2>2, <2>3, <2>4, <2>5, <2>6 DEF Submit, sub_goes, sub_ends, OnItsWay
<1>4. /\ \A t \in Submits : t # s => sub'[t] = sub[t]
      /\ OnItsWay(sub'[s].pc) => ~kill_switch \/ OnItsWay(sub[s].pc)
  BY <1>1, <1>3
<1>5. \/ UNCHANGED placed
      \/ /\ sub[s].pc = "requested"
         /\ placed' = [placed EXCEPT ![sub[s].order] = placed[sub[s].order] + 1]
  BY DEF Submit, SubmitAdmitted, SubmitRefused, SubmitInsert, SubmitRecord, SubmitCall,
     SubmitReply, SubmitAborted, hist
<1>6. \A o \in Orders : placed'[o] # placed[o] => sub[s].pc = "requested" /\ sub[s].order = o
  BY <1>1, <1>5
<1> QED
  BY <1>2, <1>4, <1>6

(* What is on its way under the kill switch was admitted before. *)
LEMMA DrainHolds == Spec => []DrainEvidence
<1>1. Init => DrainEvidence
  BY DEF Init, DrainEvidence
<1>2. IInv /\ DrainEvidence /\ [Next]_vars => DrainEvidence'
  <2> SUFFICES ASSUME IInv, DrainEvidence, [Next]_vars PROVE DrainEvidence'
    OBVIOUS
  <2>1. CASE UNCHANGED <<kill_switch, sub, placed, inflight>>
    BY <2>1 DEF DrainEvidence
  <2>2. ASSUME NEW s \in Submits, Submit(s) PROVE DrainEvidence'
    BY <2>2, SubmitEffect DEF DrainEvidence, OnItsWay
  <2>3. ASSUME NEW on \in Switchings, set_kill_switch_state(on) PROVE DrainEvidence'
    BY <2>3 DEF set_kill_switch_state, DrainEvidence
  <2> QED
    BY <2>1, <2>2, <2>3, SubmitsAlone
<1> QED
  BY <1>1, <1>2, Invariant, PTL DEF Spec

(* While the kill switch is on, only submissions that had passed their      *)
(* check before it went on still place an order, however many there are     *)
(* (ensure_testnet_submission_allowed reads the switch once).               *)
THEOREM KillSwitchStops == Spec => KillSwitchDrains
<1>1. IInv /\ DrainEvidence /\ [Next]_vars =>
        \A o \in Orders : kill_switch /\ placed'[o] # placed[o] =>
           \E s \in inflight : sub[s].order = o /\ sub[s].pc = "requested"
  <2> SUFFICES ASSUME IInv, DrainEvidence, [Next]_vars,
                      NEW o \in Orders, kill_switch, placed'[o] # placed[o]
               PROVE  \E s \in inflight : sub[s].order = o /\ sub[s].pc = "requested"
    OBVIOUS
  <2>1. PICK s \in Submits : Submit(s)
    BY SubmitsAlone DEF set_kill_switch_state
  <2>2. sub[s].pc = "requested" /\ sub[s].order = o
    BY <2>1, SubmitEffect
  <2> QED
    BY <2>2 DEF DrainEvidence
<1>2. IInv /\ DrainEvidence /\ [Next]_vars =>
        [\A o \in Orders : kill_switch /\ placed'[o] # placed[o] =>
           \E s \in inflight : sub[s].order = o /\ sub[s].pc = "requested"]_vars
  BY <1>1
<1> QED
  BY <1>2, Invariant, DrainHolds, PTL DEF Spec, KillSwitchDrains

-----------------------------------------------------------------------------
(* Writers whose view of the row is current. *)

\* The step moves the terminal order q with an event that names its state.
FreshMove(q) ==
    /\ is_terminal(row[q].state) /\ row'[q].state # row[q].state
    /\ last'[q].prev = row[q].state

\* An operator's repair of an order that is not FILLED.
Repaired(q) ==
    /\ row[q].state # "FILLED"
    /\ \E r \in Requests : req'[r] # req[r] /\ req[r].op \in RepairAction \ {"MANUAL_RECHECK"}

FreshKeeps ==
    \A q \in Orders : FreshMove(q) => requires_reconciliation(row'[q].state) \/ Repaired(q)

(* The common write tells the state its writer read. *)
LEMMA WriteNames ==
    ASSUME IInv, NEW o \in Orders, NEW prev, NEW next, NEW source, NEW status,
           NEW payload, NEW ack,
           append_lifecycle_event_and_update_order(o, prev, next, source, status, payload, ack)
    PROVE  /\ row'[o].state = next /\ last'[o].prev = prev
           /\ \A q \in Orders : q # o => row'[q] = row[q]
<1>1. row \in [Orders -> Row] /\ last \in [Orders -> Event]
  BY DEF IInv, TypeOK, DbTypeOK
<1> QED
  BY <1>1 DEF append_lifecycle_event_and_update_order

(* No write, no move. *)
LEMMA FreshUnchanged ==
    ASSUME \A q \in Orders : exists(q) => row'[q] = row[q]
    PROVE  FreshKeeps
<1>1. \A q \in Orders : is_terminal(row[q].state) => exists(q)
  BY DEF is_terminal, exists, Null
<1> QED
  BY <1>1 DEF FreshKeeps, FreshMove

(* The validator lets a terminal order pass only to UNKNOWN_EXCHANGE_STATE. *)
LEMMA FreshTransition ==
    ASSUME IInv, NEW o \in Orders, NEW snap, NEW next, NEW source, NEW status,
           NEW payload, NEW ack,
           append_testnet_lifecycle_transition(o, snap, next, source, status, payload, ack)
    PROVE  FreshKeeps
<1>1. CASE UNCHANGED db
  BY <1>1, FreshUnchanged DEF db
<1>2. CASE /\ validate_testnet_transition(snap.state, next)
           /\ append_lifecycle_event_and_update_order(
                 o, snap.state, next, source, status, payload, ack)
  <2>1. /\ row'[o].state = next /\ last'[o].prev = snap.state
        /\ \A q \in Orders : q # o => row'[q] = row[q]
    BY <1>2, WriteNames
  <2>2. FreshMove(o) => next = "UNKNOWN_EXCHANGE_STATE"
    BY <1>2, <2>1, TerminalAccepts DEF FreshMove
  <2> QED
    BY <2>1, <2>2 DEF FreshKeeps, FreshMove, requires_reconciliation
<1> QED
  BY <1>1, <1>2 DEF append_testnet_lifecycle_transition

(* What the validator refuses is flagged. *)
LEMMA FreshFlagging ==
    ASSUME IInv, NEW o \in Orders, NEW snap, NEW next, NEW source, NEW status, NEW payload,
           append_or_flag(o, snap, next, source, status, payload)
    PROVE  FreshKeeps
<1> DEFINE n == IF validate_testnet_transition(snap.state, next)
                THEN next ELSE "RECONCILIATION_REQUIRED"
<1>1. append_lifecycle_event_and_update_order(
         o, snap.state, n, source, status, payload, Null)
  BY DEF append_or_flag
<1>2. is_terminal(snap.state) => n \in {"UNKNOWN_EXCHANGE_STATE", "RECONCILIATION_REQUIRED"}
  BY TerminalAccepts
<1> HIDE DEF n
<1>3. /\ row'[o].state = n /\ last'[o].prev = snap.state
      /\ \A q \in Orders : q # o => row'[q] = row[q]
  BY <1>1, WriteNames
<1> QED
  BY <1>2, <1>3 DEF FreshKeeps, FreshMove, requires_reconciliation

(* A write after a state that is not terminal moves no terminal order. *)
LEMMA FreshFirst ==
    ASSUME IInv, NEW o \in Orders, NEW prev, ~is_terminal(prev), NEW next, NEW source,
           NEW status, NEW payload, NEW ack,
           append_lifecycle_event_and_update_order(o, prev, next, source, status, payload, ack)
    PROVE  FreshKeeps
<1>1. /\ last'[o].prev = prev /\ \A q \in Orders : q # o => row'[q] = row[q]
  BY WriteNames
<1> QED
  BY <1>1 DEF FreshKeeps, FreshMove

(* The repair validator refuses a FILLED order. *)
LEMMA FreshRepair ==
    ASSUME IInv, NEW r \in Requests, NEW o \in Orders, NEW prev, prev # "FILLED", NEW next,
           NEW source, NEW status, NEW payload, NEW ack,
           append_lifecycle_event_and_update_order(o, prev, next, source, status, payload, ack),
           req'[r] # req[r], req[r].op \in RepairAction \ {"MANUAL_RECHECK"}
    PROVE  FreshKeeps
<1>1. /\ last'[o].prev = prev /\ \A q \in Orders : q # o => row'[q] = row[q]
  BY WriteNames
<1>2. FreshMove(o) => Repaired(o)
  BY <1>1 DEF FreshMove, Repaired
<1> QED
  BY <1>1, <1>2 DEF FreshKeeps, FreshMove

(* The submit handlers. *)
LEMMA FreshSubmit ==
    ASSUME IInv, NEW s \in Submits, Submit(s)
    PROVE  FreshKeeps
<1>1. sub[s].pc \notin {"idle", "done"} => sub[s].order \in Orders
  BY DEF IInv, TypeOK, SubTypeOK
<1>2. CASE UNCHANGED db
  BY <1>2, FreshUnchanged DEF db
<1>3. CASE SubmitInsert(s)
  <2>1. sub[s].order \in Orders
    BY <1>1, <1>3 DEF SubmitInsert
  <2>2. UNCHANGED row \/ (~exists(sub[s].order) /\ row' = [row EXCEPT ![sub[s].order] = Inserted])
    BY <1>3 DEF SubmitInsert
  <2>3. \A q \in Orders : exists(q) => row'[q] = row[q]
    BY <2>1, <2>2 DEF IInv, TypeOK, DbTypeOK
  <2> QED
    BY <2>3, FreshUnchanged
<1>4. CASE SubmitRecord(s)
  <2>1. sub[s].order \in Orders /\ ~is_terminal(Null)
    BY <1>1, <1>4 DEF SubmitRecord, is_terminal, Null
  <2> QED
    BY <1>2, <1>4, <2>1, FreshFirst DEF SubmitRecord
<1>5. CASE SubmitReply(s)
  <2>1. sub[s].order \in Orders
    BY <1>1, <1>5 DEF SubmitReply
  <2> QED
    BY <1>2, <1>5, <2>1, FreshTransition DEF SubmitReply
<1>6. CASE \/ \E o \in Orders : SubmitAdmitted(s, o)
           \/ SubmitRefused(s) \/ SubmitCall(s) \/ SubmitAborted(s)
  BY <1>2, <1>6 DEF SubmitAdmitted, SubmitRefused, SubmitCall, SubmitAborted
<1> QED
  BY <1>3, <1>4, <1>5, <1>6 DEF Submit

(* The cancel, GET and repair handlers. *)
LEMMA FreshRequest ==
    ASSUME IInv, NEW r \in Requests, Request(r)
    PROVE  FreshKeeps
<1>1. /\ req[r].pc \notin {"idle", "done"} => req[r].order \in Orders
      /\ DOMAIN req = Requests
  BY DEF IInv, TypeOK, ReqTypeOK
<1>2. CASE UNCHANGED db
  BY <1>2, FreshUnchanged DEF db
<1>3. CASE CancelMark(r)
  <2>1. req[r].order \in Orders
    BY <1>1, <1>3 DEF CancelMark
  <2> QED
    BY <1>2, <1>3, <2>1, FreshTransition DEF CancelMark
<1>4. CASE CancelReply(r)
  <2>1. req[r].order \in Orders
    BY <1>1, <1>4 DEF CancelReply
  <2> QED
    BY <1>2, <1>4, <2>1, FreshTransition DEF CancelReply
<1>5. CASE StatusReply(r)
  <2>1. req[r].order \in Orders
    BY <1>1, <1>5 DEF StatusReply
  <2> QED
    BY <1>2, <1>5, <2>1, FreshTransition DEF StatusReply
<1>6. CASE SafeCancelMark(r)
  <2>1. /\ req[r].order \in Orders /\ req[r].pc = "read"
        /\ req[r].op \in RepairAction \ {"MANUAL_RECHECK"}
    BY <1>1, <1>6 DEF SafeCancelMark, RepairAction, MarkAction
  <2>2. \/ UNCHANGED db
        \/ /\ req[r].snap.state # "FILLED"
           /\ append_lifecycle_event_and_update_order(
                 req[r].order, req[r].snap.state, repair_target("SAFE_CANCEL_REQUEST"),
                 repair_source("SAFE_CANCEL_REQUEST"), Null, "FORCE", Null)
           /\ req_goes(r, "marked", row'[req[r].order], Null)
    BY <1>6 DEF SafeCancelMark, validate_testnet_repair_transition
  <2>3. req_goes(r, "marked", row'[req[r].order], Null) => req'[r] # req[r]
    BY <1>1, <2>1 DEF req_goes
  <2> QED
    BY <1>2, <2>1, <2>2, <2>3, FreshRepair
<1>7. CASE RepairMark(r)
  <2>1. /\ req[r].order \in Orders /\ req[r].pc = "read"
        /\ req[r].op \in RepairAction \ {"MANUAL_RECHECK"}
    BY <1>1, <1>7 DEF RepairMark, RepairAction, MarkAction
  <2>2. \/ UNCHANGED db
        \/ /\ req[r].snap.state # "FILLED"
           /\ \E next, source, status, payload :
                 append_lifecycle_event_and_update_order(
                    req[r].order, req[r].snap.state, next, source, status, payload, Null)
    BY <1>7 DEF RepairMark, validate_testnet_repair_transition
  <2>3. req'[r] # req[r]
    <3>1. req' = [req EXCEPT ![r] = NoRequest("done")] /\ NoRequest("done").pc = "done"
      BY <1>7 DEF RepairMark, req_ends, NoRequest
    <3> QED
      BY <1>1, <2>1, <3>1
  <2> QED
    BY <1>2, <2>1, <2>2, <2>3, FreshRepair
<1>8. ASSUME NEW op, NEW o, NEW force, RequestRead(r, op, o, force) PROVE UNCHANGED db
  BY <1>8 DEF RequestRead
<1>9. ASSUME CancelCall(r) \/ StatusCall(r) \/ RequestAborted(r) PROVE UNCHANGED db
  BY <1>9 DEF CancelCall, StatusCall, RequestAborted
<1> QED
  BY <1>2, <1>3, <1>4, <1>5, <1>6, <1>7, <1>8, <1>9 DEF Request

(* The stream and the runs. *)
LEMMA FreshFlags ==
    ASSUME IInv, Stream \/ \E k \in Runs : Reconcile(k)
    PROVE  FreshKeeps
<1>1. CASE UNCHANGED db
  BY <1>1, FreshUnchanged DEF db
<1>2. CASE StreamApply
  <2>1. stream.report.order \in Orders
    BY <1>2 DEF StreamApply, IInv, TypeOK, StreamTypeOK, Report
  <2> QED
    BY <1>2, <2>1, FreshFlagging DEF StreamApply
<1>3. ASSUME NEW k \in Runs, RunReply(k) PROVE FreshKeeps
  <2>1. run[k].order \in Orders
    BY <1>3, RunKnows DEF RunReply
  <2>2. UNCHANGED db \/ \E snap, next, source, status, payload :
           append_or_flag(run[k].order, snap, next, source, status, payload)
    BY <1>3 DEF RunReply, db
  <2> QED
    BY <1>1, <2>1, <2>2, FreshFlagging
<1>4. ASSUME StreamConnect \/ StreamLost \/ StreamTake PROVE UNCHANGED db
  BY <1>4 DEF StreamConnect, StreamLost, StreamTake
<1>5. ASSUME NEW k \in Runs,
             \/ \E filter : RunList(k, filter)
             \/ RunCall(k) \/ RunComplete(k) \/ RunAborted(k)
      PROVE  UNCHANGED db
  BY <1>5 DEF RunList, RunCall, RunComplete, RunAborted
<1> QED
  BY <1>1, <1>2, <1>3, <1>4, <1>5 DEF Stream, Reconcile

(* A writer whose view of the row is current moves a terminal order only to *)
(* a state that asks for reconciliation; only an operator's repair reopens  *)
(* one, and never a FILLED one (validate_testnet_transition and             *)
(* validate_testnet_repair_transition, wherever they are applied).          *)
THEOREM FreshWritersKeepTerminal == Spec => FreshWritesKeepTerminal
<1>1. IInv /\ [Next]_vars => FreshKeeps
  <2> SUFFICES ASSUME IInv, [Next]_vars PROVE FreshKeeps
    OBVIOUS
  <2>1. ASSUME NEW o \in Orders, ExchangeMoves(o) \/ ExchangeReportsUnknown(o)
        PROVE  UNCHANGED db
    BY <2>1 DEF ExchangeMoves, ExchangeReportsUnknown
  <2>2. ASSUME NEW on \in Switchings, set_kill_switch_state(on) PROVE UNCHANGED db
    BY <2>2 DEF set_kill_switch_state
  <2>3. UNCHANGED vars => UNCHANGED db
    BY DEF vars, db
  <2>4. UNCHANGED db => FreshKeeps
    BY FreshUnchanged DEF db
  <2> QED
    BY <2>1, <2>2, <2>3, <2>4, FreshSubmit, FreshRequest, FreshFlags DEF Next
<1>2. FreshKeeps =>
        \A o \in Orders :
         /\ is_terminal(row[o].state) /\ row'[o].state # row[o].state
         /\ last'[o].prev = row[o].state
         => \/ requires_reconciliation(row'[o].state)
            \/ /\ row[o].state # "FILLED"
               /\ \E r \in Requests : /\ req'[r] # req[r]
                                      /\ req[r].op \in RepairAction \ {"MANUAL_RECHECK"}
  BY DEF FreshKeeps, FreshMove, Repaired
<1>3. IInv /\ [Next]_vars =>
        [\A o \in Orders :
         /\ is_terminal(row[o].state) /\ row'[o].state # row[o].state
         /\ last'[o].prev = row[o].state
         => \/ requires_reconciliation(row'[o].state)
            \/ /\ row[o].state # "FILLED"
               /\ \E r \in Requests : /\ req'[r] # req[r]
                                      /\ req[r].op \in RepairAction \ {"MANUAL_RECHECK"}]_vars
  BY <1>1, <1>2
<1> QED
  BY <1>3, Invariant, PTL DEF Spec, FreshWritesKeepTerminal
=============================================================================
