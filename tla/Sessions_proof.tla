--------------------------- MODULE Sessions_proof ---------------------------
(***************************************************************************)
(* Proofs about Sessions, for any number of sessions, tasks, tokens and    *)
(* requests: the types, that a refresh token is exchanged at most once,    *)
(* that only a lost answer takes a client's token away, and that a         *)
(* revocation is final.                                                    *)
(***************************************************************************)
EXTENDS Sessions, TLAPS

JobRow == [session : SessionIds \cup {NoSession}, token : Nat]
SessionRow == [token : Nat, state : States]

(***************************************************************************)
(* Types.  The session a task rotates or revokes is one by JobEvidence.    *)
(***************************************************************************)

(* The initial state has the types. *)
LEMMA InitTypes == Init => TypeOK
  BY DEF Init, TypeOK, Labels, States, Session, Job, NoJob

(* Ending a request keeps the types of the tasks. *)
LEMMA DoneTypes ==
    ASSUME TypeOK, NEW w \in Workers, Done(w)
    PROVE  pc' \in [Workers -> Labels] /\ job' \in [Workers -> JobRow]
  BY DEF TypeOK, Done, Goto, SetJob, NoJob, Job, Labels, JobRow

(* A step that begins, answers or ends a request keeps the types. *)
LEMMA RequestTypes ==
    ASSUME TypeOK, NEW w \in Workers,
           \/ CountUsers(w) \/ InsertOwner(w) \/ Login(w) \/ LoadSession(w)
           \/ AuthorizeLogout(w) \/ GiveUp(w) \/ LoseAnswer(w)
    PROVE  TypeOK'
<1>1. CASE CountUsers(w)
  BY <1>1 DEF TypeOK, CountUsers, Start, Goto, SetJob, Job, Labels
<1>2. CASE InsertOwner(w)
  <2>1. users' \subseteq Nat
    BY <1>2 DEF TypeOK, InsertOwner
  <2> QED
    BY <1>2, <2>1, DoneTypes DEF TypeOK, InsertOwner, JobRow
<1>3. CASE Login(w)
  BY <1>3 DEF TypeOK, Login, Start, Goto, Labels
<1>4. CASE LoadSession(w)
  <2>1. PICK s \in SessionIds : \E token \in known[s] : SetJob(w, Job(s, token))
    BY <1>4 DEF LoadSession
  <2>2. job' \in [Workers -> JobRow]
    BY <2>1 DEF TypeOK, SetJob, Job, JobRow
  <2>3. /\ pc' \in [Workers -> Labels] /\ begun' \in Nat
        /\ UNCHANGED <<users, sessions, known, exchanges, lost, issued>>
    BY <1>4 DEF TypeOK, LoadSession, Start, Goto, Labels
  <2> QED
    BY <1>4, <2>2, <2>3 DEF TypeOK, JobRow
<1>5. CASE AuthorizeLogout(w)
  BY <1>5 DEF TypeOK, AuthorizeLogout, Start, Goto, SetJob, Job, Labels
<1>6. CASE GiveUp(w)
  BY <1>6, DoneTypes DEF TypeOK, GiveUp, JobRow
<1>7. CASE LoseAnswer(w)
  <2>1. lost' \subseteq Nat
    BY <1>7 DEF TypeOK, LoseAnswer
  <2> QED
    BY <1>7, <2>1, DoneTypes DEF TypeOK, LoseAnswer, JobRow
<1> QED
  BY <1>1, <1>2, <1>3, <1>4, <1>5, <1>6, <1>7

(* So does the insertion of a session. *)
LEMMA InsertTypes ==
    ASSUME TypeOK, NEW w \in Workers, InsertSession(w)
    PROVE  TypeOK'
<1>1. PICK s \in SessionIds :
        /\ sessions' = [sessions EXCEPT ![s] = Session(issued + 1, "live")]
        /\ SetJob(w, Job(s, issued + 1))
  BY DEF InsertSession
<1>2. sessions' \in [SessionIds -> SessionRow] /\ job' \in [Workers -> JobRow]
  BY <1>1 DEF TypeOK, Session, States, SetJob, Job, JobRow, SessionRow
<1>3. /\ pc' \in [Workers -> Labels] /\ issued' \in Nat
      /\ UNCHANGED <<users, known, exchanges, lost, begun>>
  BY DEF TypeOK, InsertSession, Goto, Labels
<1> QED
  BY <1>2, <1>3 DEF TypeOK, JobRow, SessionRow

(* And a rotation, refused or not. *)
LEMMA RotateTypes ==
    ASSUME TypeOK, NEW w \in Workers, Rotate(w), job[w].session \in SessionIds
    PROVE  TypeOK'
<1>1. CASE ~Rotatable(job[w].session, job[w].token)
  BY <1>1, DoneTypes DEF TypeOK, Rotate, JobRow
<1>2. CASE Rotatable(job[w].session, job[w].token)
  <2>1. Rotated(job[w].session, issued + 1) \in SessionRow
    BY DEF TypeOK, Rotated, Session, States, SessionRow
  <2>2. sessions' \in [SessionIds -> SessionRow]
    BY <1>2, <2>1 DEF TypeOK, Rotate, SessionRow
  <2>3. exchanges' \subseteq [session : SessionIds, old : Nat, new : Nat]
    BY <1>2 DEF TypeOK, Rotate
  <2>4. job' \in [Workers -> JobRow]
    BY <1>2 DEF TypeOK, Rotate, SetJob, Job, Carried, JobRow
  <2>5. pc' \in [Workers -> Labels]
    BY <1>2 DEF TypeOK, Rotate, Goto, Labels
  <2>6. issued' = issued + 1 /\ UNCHANGED <<users, known, lost, begun>>
    BY DEF Rotate
  <2> QED
    BY <2>2, <2>3, <2>4, <2>5, <2>6 DEF TypeOK, JobRow, SessionRow
<1> QED
  BY <1>1, <1>2

(* And an answer that arrives. *)
LEMMA AnswerTypes ==
    ASSUME TypeOK, NEW w \in Workers, Answer(w), job[w].session \in SessionIds
    PROVE  TypeOK'
<1>1. known' \in [SessionIds -> SUBSET Nat]
  BY DEF TypeOK, Answer
<1> QED
  BY <1>1, DoneTypes DEF TypeOK, Answer, JobRow

(***************************************************************************)
(* The inductive invariant, one lemma per kind of step.                    *)
(***************************************************************************)

(* The initial state satisfies it: there is no session yet. *)
LEMMA InitInv == Init => IInv
<1> SUFFICES ASSUME Init PROVE IInv
  OBVIOUS
<1>1. TypeOK
  BY InitTypes
<1>2. AbsentEvidence /\ TokenEvidence /\ ExchangedOnce /\ TokenReachable
  BY DEF Init, AbsentEvidence, TokenEvidence, ExchangedOnce, TokenReachable, Session
<1>3. JobEvidence
  BY DEF Init, JobEvidence, Knows
<1> QED
  BY <1>1, <1>2, <1>3 DEF IInv

(* A step that leaves the sessions and the tokens alone, and of whose task *)
(* what it has just read is true, keeps the invariant.                     *)
LEMMA BystanderInv ==
    ASSUME IInv, TypeOK', NEW w \in Workers,
           UNCHANGED <<sessions, known, exchanges, lost, issued>>,
           \A v \in Workers : v # w => pc'[v] = pc[v] /\ job'[v] = job[v],
           pc[w] # "answer",
           Knows(pc'[w], job'[w])
    PROVE  IInv'
<1>1. AbsentEvidence' /\ TokenEvidence' /\ ExchangedOnce'
  BY DEF IInv, AbsentEvidence, TokenEvidence, ExchangedOnce
<1>2. JobEvidence'
  BY DEF IInv, JobEvidence, Knows
<1>3. TokenReachable'
  BY DEF IInv, TokenReachable
<1> QED
  BY <1>1, <1>2, <1>3 DEF IInv

(* The requests as they begin and end. *)
LEMMA RequestInv ==
    ASSUME IInv, NEW w \in Workers,
           \/ CountUsers(w) \/ InsertOwner(w) \/ Login(w) \/ LoadSession(w)
           \/ AuthorizeLogout(w) \/ GiveUp(w)
    PROVE  IInv'
<1>1. TypeOK'
  BY RequestTypes DEF IInv
<1>2. /\ UNCHANGED <<sessions, known, exchanges, lost, issued>>
      /\ \A v \in Workers : v # w => pc'[v] = pc[v] /\ job'[v] = job[v]
      /\ pc[w] # "answer"
  BY DEF CountUsers, InsertOwner, Login, LoadSession, AuthorizeLogout, GiveUp,
         Start, Done, Goto, SetJob, IInv, TypeOK
<1>3. Knows(pc'[w], job'[w])
  <2>1. CASE LoadSession(w)
    <3>1. PICK s \in SessionIds : \E t \in known[s] :
            Live(s) /\ SetJob(w, Job(s, t))
      BY <2>1 DEF LoadSession
    <3>2. PICK t \in known[s] : Live(s) /\ SetJob(w, Job(s, t))
      BY <3>1
    <3>3. pc'[w] = "rotate" /\ job'[w].session = s /\ job'[w].token = t
      BY <2>1, <3>2 DEF LoadSession, Goto, SetJob, Job, IInv, TypeOK
    <3>4. t > 0 /\ sessions[s].state # "absent"
      BY <3>2 DEF IInv, TokenEvidence, Live
    <3> QED
      BY <3>3, <3>4 DEF Knows
  <2>2. CASE AuthorizeLogout(w)
    <3>1. PICK s \in SessionIds : Live(s) /\ SetJob(w, Job(s, 0))
      BY <2>2 DEF AuthorizeLogout
    <3>2. pc'[w] = "revoke" /\ job'[w].session = s
      BY <2>2, <3>1 DEF AuthorizeLogout, Goto, SetJob, Job, IInv, TypeOK
    <3> QED
      BY <3>1, <3>2 DEF Knows, Live
  <2>3. CASE CountUsers(w) \/ InsertOwner(w) \/ Login(w) \/ GiveUp(w)
    <3>1. pc'[w] \in {"idle", "owner", "login"}
      BY <2>3 DEF CountUsers, InsertOwner, Login, GiveUp, Done, Goto, IInv, TypeOK
    <3> QED
      BY <3>1 DEF Knows
  <2> QED
    BY <2>1, <2>2, <2>3
<1> QED
  BY <1>1, <1>2, <1>3, BystanderInv

(* The insertion of a session gives it a token nobody has seen. *)
LEMMA InsertInv ==
    ASSUME IInv, NEW w \in Workers, InsertSession(w)
    PROVE  IInv'
<1>1. TypeOK'
  BY InsertTypes DEF IInv
<1>2. PICK s \in SessionIds :
        /\ sessions[s].state = "absent"
        /\ sessions' = [sessions EXCEPT ![s] = Session(issued + 1, "live")]
        /\ SetJob(w, Job(s, issued + 1))
  BY DEF InsertSession
<1>3. /\ sessions'[s].token = issued + 1 /\ sessions'[s].state = "live"
      /\ \A t \in SessionIds : t # s => sessions'[t] = sessions[t]
  BY <1>2 DEF Session, IInv, TypeOK
<1>4. /\ issued' = issued + 1
      /\ UNCHANGED <<known, exchanges, lost>>
      /\ pc[w] = "login" /\ pc'[w] = "answer" /\ job'[w] = Job(s, issued + 1)
      /\ \A v \in Workers : v # w => pc'[v] = pc[v] /\ job'[v] = job[v]
  BY <1>2 DEF InsertSession, SetJob, Goto, IInv, TypeOK
<1>5. known[s] = {} /\ \A x \in exchanges : x.session # s
  BY <1>2 DEF IInv, AbsentEvidence
<1> USE <1>3, <1>4, <1>5
<1>6. /\ issued \in Nat
      /\ \A t \in SessionIds : sessions[t].token \in Nat /\ sessions[t].token <= issued
      /\ \A x \in exchanges : /\ x.session \in SessionIds /\ x.old \in Nat
                              /\ x.new \in Nat /\ x.old < x.new /\ x.new <= issued
  BY DEF IInv, TypeOK, TokenEvidence
<1>7. AbsentEvidence'
  <2>1. \A t \in SessionIds : sessions'[t].state = "absent" <=> sessions'[t].token = 0
    BY <1>6 DEF IInv, AbsentEvidence
  <2>2. \A t \in SessionIds : sessions'[t].state = "absent" => known'[t] = {}
    BY DEF IInv, AbsentEvidence
  <2>3. \A x \in exchanges' : sessions'[x.session].state # "absent"
    BY <1>6 DEF IInv, AbsentEvidence
  <2> QED
    BY <2>1, <2>2, <2>3 DEF AbsentEvidence
<1>8. TokenEvidence'
  <2>1. \A t \in SessionIds : sessions'[t].token <= issued'
    BY <1>6
  <2>2. \A t, u \in SessionIds :
          sessions'[t].token = sessions'[u].token => t = u \/ sessions'[t].token = 0
    BY <1>6 DEF IInv, TokenEvidence
  <2>3. \A t \in SessionIds : \A u \in known'[t] : u > 0
    BY DEF IInv, TokenEvidence
  <2>4. \A x \in exchanges' : 0 < x.old /\ x.old < x.new /\ x.new <= issued'
    BY <1>6 DEF IInv, TokenEvidence
  <2>5. \A x \in exchanges' : \A t \in SessionIds : x.old # sessions'[t].token
    BY <1>6 DEF IInv, TokenEvidence
  <2> QED
    BY <2>1, <2>2, <2>3, <2>4, <2>5 DEF TokenEvidence
<1>9. ExchangedOnce'
  <2>1. \A x \in exchanges' : x.old # sessions'[x.session].token
    BY <1>6 DEF IInv, ExchangedOnce
  <2>2. \A t \in SessionIds : \A u \in known'[t] :
          u = sessions'[t].token \/ \E x \in exchanges' : x.session = t /\ x.old = u
    BY DEF IInv, ExchangedOnce
  <2> QED
    BY <2>1, <2>2 DEF IInv, ExchangedOnce
<1>10. JobEvidence'
  <2> SUFFICES ASSUME NEW v \in Workers PROVE Knows(pc[v], job[v])'
    BY DEF JobEvidence
  <2>1. CASE v = w
    BY <2>1 DEF Knows, Job, IInv, TypeOK
  <2>2. CASE v # w
    <3>1. Knows(pc[v], job[v])
      BY DEF IInv, JobEvidence
    <3> QED
      BY <1>2, <2>2, <3>1 DEF Knows
  <2> QED
    BY <2>1, <2>2
<1>11. TokenReachable'
  BY DEF IInv, TokenReachable
<1> QED
  BY <1>1, <1>7, <1>8, <1>9, <1>10, <1>11 DEF IInv

(* A rotation exchanges the token the session has, which no exchange has   *)
(* seen; an answer that is under way with it is now about an exchanged one. *)
LEMMA RotateInv ==
    ASSUME IInv, NEW w \in Workers, Rotate(w)
    PROVE  IInv'
<1> DEFINE s == job[w].session
           old == job[w].token
           x == [session |-> s, old |-> old, new |-> issued + 1]
<1>1. s \in SessionIds /\ sessions[s].state # "absent" /\ old > 0 /\ old \in Nat
  BY DEF Rotate, IInv, JobEvidence, Knows, TypeOK
<1>2. TypeOK'
  BY <1>1, RotateTypes DEF IInv
<1>3. CASE ~Rotatable(s, old)
  <2>1. /\ UNCHANGED <<sessions, known, exchanges, lost>>
        /\ issued' = issued + 1
        /\ pc[w] = "rotate" /\ pc'[w] = "idle"
        /\ \A v \in Workers : v # w => pc'[v] = pc[v] /\ job'[v] = job[v]
    BY <1>3 DEF Rotate, Done, Goto, SetJob, IInv, TypeOK
  <2>2. AbsentEvidence' /\ ExchangedOnce'
    BY <2>1 DEF IInv, AbsentEvidence, ExchangedOnce
  <2>3. TokenEvidence'
    BY <2>1 DEF IInv, TokenEvidence, TypeOK
  <2>4. JobEvidence'
    BY <2>1 DEF IInv, JobEvidence, Knows
  <2>5. TokenReachable'
    BY <2>1 DEF IInv, TokenReachable
  <2> QED
    BY <1>2, <2>2, <2>3, <2>4, <2>5 DEF IInv
<1>4. CASE Rotatable(s, old)
  <2>1. /\ sessions' = [sessions EXCEPT ![s] = Rotated(s, issued + 1)]
        /\ exchanges' = exchanges \cup {x}
        /\ job' = [job EXCEPT ![w] = Job(s, issued + 1)]
        /\ pc[w] = "rotate" /\ pc' = [pc EXCEPT ![w] = "answer"]
        /\ issued' = issued + 1
        /\ UNCHANGED <<known, lost>>
    BY <1>4 DEF Rotate, SetJob, Carried, Goto
  <2>2. /\ sessions'[s].token = issued + 1 /\ sessions'[s].state # "absent"
        /\ \A t \in SessionIds : t # s => sessions'[t] = sessions[t]
    BY <1>1, <2>1 DEF Rotated, Session, IInv, TypeOK
  <2>3. /\ pc'[w] = "answer" /\ job'[w] = Job(s, issued + 1)
        /\ \A v \in Workers : v # w => pc'[v] = pc[v] /\ job'[v] = job[v]
    BY <2>1 DEF IInv, TypeOK
  <2>4. sessions[s].token = old
    BY <1>4 DEF Rotatable
  <2>5. /\ x.session = s /\ x.old = old /\ x.new = issued + 1
        /\ \A y \in exchanges' : y \in exchanges \/ y = x
        /\ x \in exchanges' /\ \A y \in exchanges : y \in exchanges'
    BY <2>1
  <2>6. issued' = issued + 1 /\ pc[w] = "rotate" /\ UNCHANGED <<known, lost>>
    BY <2>1
  <2>7. \A y \in exchanges : y.old # old /\ y.old \in Nat /\ y.new \in Nat
    BY <1>1, <2>4 DEF IInv, TokenEvidence, TypeOK
  <2> HIDE DEF x, s, old
  <2>8. AbsentEvidence'
    <3>1. /\ \A t \in SessionIds :
                sessions'[t].state = "absent" <=> sessions'[t].token = 0
          /\ \A t \in SessionIds : sessions'[t].state = "absent" => known'[t] = {}
      BY <2>2, <2>6 DEF IInv, AbsentEvidence, TypeOK
    <3>2. \A y \in exchanges : y.session \in SessionIds
      BY DEF IInv, TypeOK
    <3>3. \A y \in exchanges' : sessions'[y.session].state # "absent"
      BY <1>1, <2>2, <2>5, <3>2 DEF IInv, AbsentEvidence
    <3> QED
      BY <3>1, <3>3 DEF AbsentEvidence
  <2>9. TokenEvidence'
    <3>1. issued \in Nat /\ old <= issued
      BY <1>1, <2>4 DEF IInv, TokenEvidence, TypeOK
    <3>2. /\ \A t \in SessionIds : sessions'[t].token <= issued'
          /\ \A t, u \in SessionIds :
                sessions'[t].token = sessions'[u].token
                   => t = u \/ sessions'[t].token = 0
      <4>1. \A t \in SessionIds : sessions[t].token \in Nat /\ sessions[t].token <= issued
        BY DEF IInv, TokenEvidence, TypeOK
      <4>2. \A t \in SessionIds : t # s => sessions'[t].token # issued + 1
        BY <2>2, <3>1, <4>1
      <4>3. \A t, u \in SessionIds : sessions[t].token = sessions[u].token
                                        => t = u \/ sessions[t].token = 0
        BY DEF IInv, TokenEvidence
      <4>4. \A t \in SessionIds : sessions'[t].token <= issued'
        BY <2>2, <2>6, <3>1, <4>1
      <4> QED
        BY <2>2, <4>2, <4>3, <4>4
    <3>3. \A t \in SessionIds : \A u \in known'[t] : u > 0
      BY <2>6 DEF IInv, TokenEvidence
    <3>4. \A y \in exchanges' : 0 < y.old /\ y.old < y.new /\ y.new <= issued'
      BY <1>1, <2>5, <2>6, <2>7, <3>1 DEF IInv, TokenEvidence
    <3>5. \A y \in exchanges' : \A t \in SessionIds : y.old # sessions'[t].token
      <4> SUFFICES ASSUME NEW y \in exchanges', NEW t \in SessionIds
                   PROVE  y.old # sessions'[t].token
        OBVIOUS
      <4>1. CASE t = s
        <5>1. y.old <= issued
          BY <2>5, <2>7, <3>1 DEF IInv, TokenEvidence
        <5>2. y.old \in Nat
          BY <1>1, <2>5, <2>7
        <5> QED
          BY <2>2, <3>1, <4>1, <5>1, <5>2
      <4>2. CASE t # s
        <5>1. y \in exchanges => y.old # sessions[t].token
          BY DEF IInv, TokenEvidence
        <5>2. sessions[t].token # old
          BY <1>1, <2>4, <4>2 DEF IInv, TokenEvidence
        <5> QED
          BY <2>2, <2>5, <4>2, <5>1, <5>2
      <4> QED
        BY <4>1, <4>2
    <3> QED
      BY <3>2, <3>3, <3>4, <3>5 DEF TokenEvidence
  <2>10. ExchangedOnce'
    <3>1. \A y \in exchanges : y.new # issued + 1
      BY <2>7 DEF IInv, TokenEvidence, TypeOK
    <3>2. \A y, z \in exchanges' : y.old = z.old \/ y.new = z.new => y = z
      BY <2>5, <2>7, <3>1 DEF IInv, ExchangedOnce
    <3>3. \A y \in exchanges' : y.session \in SessionIds
      BY <1>2 DEF TypeOK
    <3>4. \A y \in exchanges' : y.old # sessions'[y.session].token
      BY <2>9, <3>3 DEF TokenEvidence
    <3>5. ASSUME NEW t \in SessionIds, NEW u \in known'[t]
          PROVE  \/ u = sessions'[t].token
                 \/ \E y \in exchanges' : y.session = t /\ y.old = u
      <4>1. \/ u = sessions[t].token
            \/ \E y \in exchanges : y.session = t /\ y.old = u
        BY <2>6, <3>5 DEF IInv, ExchangedOnce
      <4> QED
        BY <2>2, <2>4, <2>5, <4>1
    <3> QED
      BY <3>2, <3>4, <3>5 DEF ExchangedOnce
  <2>11. JobEvidence'
    <3> SUFFICES ASSUME NEW v \in Workers PROVE Knows(pc[v], job[v])'
      BY DEF JobEvidence
    <3>1. CASE v = w
      BY <1>1, <2>2, <2>3, <3>1 DEF Knows, Job, IInv, TypeOK
    <3>2. CASE v # w
      <4>1. Knows(pc[v], job[v])
        BY DEF IInv, JobEvidence
      <4>2. pc'[v] = pc[v] /\ job'[v] = job[v]
        BY <2>3, <3>2
      <4> QED
        BY <2>2, <2>4, <2>5, <4>1, <4>2 DEF Knows
    <3> QED
      BY <3>1, <3>2
  <2>12. TokenReachable'
    <3> SUFFICES ASSUME NEW t \in SessionIds, sessions'[t].state # "absent"
                 PROVE  \/ sessions'[t].token \in known'[t] \cup lost'
                        \/ \E v \in Workers :
                              pc'[v] = "answer" /\ job'[v] = Job(t, sessions'[t].token)
      BY DEF TokenReachable, Job
    <3>1. CASE t = s
      BY <2>2, <2>3, <3>1
    <3>2. CASE t # s
      BY <2>2, <2>3, <2>6, <3>2 DEF IInv, TokenReachable
    <3> QED
      BY <3>1, <3>2
  <2> QED
    BY <1>2, <2>8, <2>9, <2>10, <2>11, <2>12 DEF IInv
<1> QED
  BY <1>3, <1>4

(* An answer tells the client the session's token, or one that has been    *)
(* exchanged since; a lost one is remembered.                              *)
LEMMA AnswerInv ==
    ASSUME IInv, NEW w \in Workers, Answer(w) \/ LoseAnswer(w)
    PROVE  IInv'
<1> DEFINE s == job[w].session
           t == job[w].token
<1>1. /\ s \in SessionIds /\ sessions[s].state # "absent" /\ t > 0
      /\ t = sessions[s].token \/ \E x \in exchanges : x.session = s /\ x.old = t
  BY DEF Answer, LoseAnswer, IInv, JobEvidence, Knows
<1>2. TypeOK'
  BY <1>1, RequestTypes, AnswerTypes DEF IInv
<1>3. /\ UNCHANGED <<sessions, exchanges, issued>>
      /\ pc'[w] = "idle"
      /\ \A v \in Workers : v # w => pc'[v] = pc[v] /\ job'[v] = job[v]
  BY DEF Answer, LoseAnswer, Done, Goto, SetJob, IInv, TypeOK
<1>4. /\ \A u \in SessionIds : known[u] \subseteq known'[u]
      /\ \A u \in SessionIds : \A k \in known'[u] :
            k \in known[u] \/ (u = s /\ k = t)
      /\ lost \subseteq lost'
      /\ t \in known'[s] \cup lost'
  <2>1. CASE Answer(w)
    <3>1. /\ known'[s] = known[s] \cup {t} /\ lost' = lost
          /\ \A u \in SessionIds : u # s => known'[u] = known[u]
      BY <1>1, <2>1 DEF Answer, IInv, TypeOK
    <3> QED
      BY <3>1
  <2>2. CASE LoseAnswer(w)
    BY <2>2 DEF LoseAnswer
  <2> QED
    BY <2>1, <2>2
<1>5. AbsentEvidence'
  BY <1>1, <1>3, <1>4 DEF IInv, AbsentEvidence
<1>6. TokenEvidence'
  BY <1>1, <1>3, <1>4 DEF IInv, TokenEvidence
<1>7. ExchangedOnce'
  BY <1>1, <1>3, <1>4 DEF IInv, ExchangedOnce
<1>8. JobEvidence'
  BY <1>3 DEF IInv, JobEvidence, Knows
<1>9. TokenReachable'
  <2> SUFFICES ASSUME NEW u \in SessionIds, sessions[u].state # "absent"
               PROVE  \/ sessions[u].token \in known'[u] \cup lost'
                      \/ \E v \in Workers :
                            pc'[v] = "answer" /\ job'[v] = Job(u, sessions[u].token)
    BY <1>3 DEF TokenReachable, Job
  <2>1. CASE sessions[u].token \in known[u] \cup lost
    BY <1>4, <2>1
  <2>2. ASSUME NEW v \in Workers,
               pc[v] = "answer", job[v] = Job(u, sessions[u].token)
        PROVE  \/ sessions[u].token \in known'[u] \cup lost'
               \/ \E z \in Workers :
                     pc'[z] = "answer" /\ job'[z] = Job(u, sessions[u].token)
    <3>1. CASE v = w
      <4>1. s = u /\ t = sessions[u].token
        BY <2>2, <3>1 DEF Job
      <4> QED
        BY <1>4, <4>1
    <3>2. CASE v # w
      BY <1>3, <2>2, <3>2
    <3> QED
      BY <3>1, <3>2
  <2> QED
    BY <2>1, <2>2 DEF IInv, TokenReachable
<1> QED
  BY <1>2, <1>5, <1>6, <1>7, <1>8, <1>9 DEF IInv

(* A step that only ends a session, by revocation or expiry, keeps its     *)
(* token and with it everything said about tokens.                         *)
LEMMA EndInv ==
    ASSUME IInv, NEW s \in SessionIds, NEW st \in {"expired", "revoked"},
           sessions[s].state # "absent",
           sessions' = [sessions EXCEPT ![s] = Session(sessions[s].token, st)],
           UNCHANGED <<users, known, exchanges, lost, issued, begun>>,
           pc' \in [Workers -> Labels], job' \in [Workers -> JobRow],
           \A v \in Workers : \/ pc'[v] = pc[v] /\ job'[v] = job[v]
                              \/ pc[v] # "answer" /\ pc'[v] = "idle"
    PROVE  IInv'
<1>1. /\ \A t \in SessionIds : sessions'[t].token = sessions[t].token
      /\ \A t \in SessionIds : sessions'[t].state = "absent" <=> sessions[t].state = "absent"
  BY DEF Session, IInv, TypeOK
<1>2. TypeOK'
  BY DEF IInv, TypeOK, Session, States, JobRow
<1>3. AbsentEvidence'
  BY <1>1 DEF IInv, AbsentEvidence, TypeOK
<1>4. TokenEvidence'
  BY <1>1 DEF IInv, TokenEvidence
<1>5. ExchangedOnce'
  <2>1. \A x \in exchanges : x.session \in SessionIds
    BY DEF IInv, TypeOK
  <2> QED
    BY <1>1, <2>1 DEF IInv, ExchangedOnce
<1>6. JobEvidence'
  <2> SUFFICES ASSUME NEW v \in Workers PROVE Knows(pc[v], job[v])'
    BY DEF JobEvidence
  <2>1. Knows(pc[v], job[v])
    BY DEF IInv, JobEvidence
  <2> QED
    BY <1>1, <2>1 DEF Knows
<1>7. TokenReachable'
  BY <1>1 DEF IInv, TokenReachable
<1> QED
  BY <1>2, <1>3, <1>4, <1>5, <1>6, <1>7 DEF IInv

(* The two steps that do so. *)
LEMMA RevokeInv ==
    ASSUME IInv, NEW w \in Workers, RevokeSession(w)
    PROVE  IInv'
<1>1. job[w].session \in SessionIds /\ sessions[job[w].session].state # "absent"
  BY DEF RevokeSession, IInv, JobEvidence, Knows
<1>2. /\ sessions' = [sessions EXCEPT ![job[w].session] =
                        Session(sessions[job[w].session].token, "revoked")]
      /\ UNCHANGED <<users, known, exchanges, lost, issued, begun>>
  BY DEF RevokeSession, Revoked
<1>3. pc' \in [Workers -> Labels] /\ job' \in [Workers -> JobRow]
  BY DoneTypes DEF RevokeSession, IInv
<1>4. \A v \in Workers : \/ pc'[v] = pc[v] /\ job'[v] = job[v]
                         \/ pc[v] # "answer" /\ pc'[v] = "idle"
  BY DEF RevokeSession, Done, Goto, SetJob, IInv, TypeOK
<1> QED
  BY <1>1, <1>2, <1>3, <1>4, EndInv

LEMMA ExpireInv ==
    ASSUME IInv, NEW s \in SessionIds, Expire(s)
    PROVE  IInv'
<1>1. pc' \in [Workers -> Labels] /\ job' \in [Workers -> JobRow]
  BY DEF Expire, IInv, TypeOK, JobRow
<1> QED
  BY <1>1, EndInv DEF Expire, Live

(* Every step keeps the invariant. *)
LEMMA NextInv == IInv /\ [Next]_vars => IInv'
<1> SUFFICES ASSUME IInv, [Next]_vars PROVE IInv'
  OBVIOUS
<1>1. CASE UNCHANGED vars
  BY <1>1 DEF vars, IInv, TypeOK, AbsentEvidence, TokenEvidence, ExchangedOnce,
              JobEvidence, Knows, TokenReachable
<1>2. ASSUME NEW w \in Workers, Step(w) PROVE IInv'
  BY <1>2, RequestInv, InsertInv, RotateInv, AnswerInv, RevokeInv DEF Step
<1>3. ASSUME NEW s \in SessionIds, Expire(s) PROVE IInv'
  BY <1>3, ExpireInv
<1> QED
  BY <1>1, <1>2, <1>3 DEF Next

LEMMA Invariance == Spec => []IInv
  BY InitInv, NextInv, PTL DEF Spec

(***************************************************************************)
(* The theorems.                                                           *)
(***************************************************************************)

(* Every variable keeps its type, for any sessions, tasks and requests. *)
THEOREM TypeCorrect == Spec => []TypeOK
<1>1. IInv => TypeOK
  BY DEF IInv
<1> QED
  BY <1>1, Invariance, PTL

(* However refreshes of one token overlap, one of them is exchanged: the   *)
(* conditional update of rotate_session_refresh_token decides, not the     *)
(* check before it.                                                        *)
THEOREM TokensExchangedOnce == Spec => []ExchangedOnce
<1>1. IInv => ExchangedOnce
  BY DEF IInv
<1> QED
  BY <1>1, Invariance, PTL

(* Only an answer that is lost leaves a client without its session's token. *)
THEOREM TokensReachClients == Spec => []TokenReachable
<1>1. IInv => TokenReachable
  BY DEF IInv
<1> QED
  BY <1>1, Invariance, PTL

(* No step changes a session that logout has revoked, a refresh that read  *)
(* it before included.                                                     *)
THEOREM RevocationIsFinal == Spec => RevocationHolds
<1> DEFINE Kept(s) == sessions[s].state = "revoked" => sessions'[s] = sessions[s]
<1>1. IInv /\ [Next]_vars => [\A s \in SessionIds : Kept(s)]_vars
  <2> SUFFICES ASSUME IInv, Next, NEW s \in SessionIds, sessions[s].state = "revoked"
               PROVE  sessions'[s] = sessions[s]
    OBVIOUS
  <2>1. sessions \in [SessionIds -> SessionRow]
    BY DEF IInv, TypeOK, SessionRow
  <2>2. sessions[s] = Session(sessions[s].token, "revoked")
    BY <2>1 DEF Session, SessionRow
  <2>3. ASSUME NEW w \in Workers, InsertSession(w) PROVE sessions'[s] = sessions[s]
    BY <2>1, <2>3 DEF InsertSession
  <2>4. ASSUME NEW w \in Workers, Rotate(w) PROVE sessions'[s] = sessions[s]
    BY <2>1, <2>4 DEF Rotate, Rotatable
  <2>5. ASSUME NEW w \in Workers, RevokeSession(w) PROVE sessions'[s] = sessions[s]
    BY <2>1, <2>2, <2>5 DEF RevokeSession, Revoked
  <2>6. ASSUME NEW t \in SessionIds, Expire(t) PROVE sessions'[s] = sessions[s]
    BY <2>1, <2>6 DEF Expire, Live
  <2>7. ASSUME NEW w \in Workers, Step(w) PROVE sessions'[s] = sessions[s]
    BY <2>3, <2>4, <2>5, <2>7
       DEF Step, CountUsers, InsertOwner, Login, LoadSession, Answer, LoseAnswer,
           AuthorizeLogout, GiveUp
  <2> QED
    BY <2>6, <2>7 DEF Next
<1> QED
  BY <1>1, Invariance, PTL DEF Spec, RevocationHolds
=============================================================================
