------------------------------ MODULE Sessions ------------------------------
(***************************************************************************)
(* Login sessions: the bootstrap of the owner, login, refresh, logout and  *)
(* the authorization of other requests.  A refresh token is exchanged for  *)
(* the next one by a single conditional UPDATE, after the handler has      *)
(* checked the session it read; the answer that carries the new token may  *)
(* be lost.  Access tokens carry the session's id and are checked against  *)
(* its row at every request.                                               *)
(*                                                                         *)
(* Refresh tokens are numbered as they are issued; a row holds the number  *)
(* where the code holds the token's hash.                                  *)
(***************************************************************************)
EXTENDS Naturals

CONSTANTS
    SessionIds,     \* the uuids logins draw
    NoSession,
    Workers,        \* tasks of the server
    MaxTokens,      \* bound on the refresh tokens issued
    MaxRequests     \* bound on the requests

ASSUME NoSessionAssumption == NoSession \notin SessionIds
ASSUME BoundsAssumption == MaxTokens \in Nat /\ MaxRequests \in Nat

VARIABLES
    users,          \* users, by the number of the request that made them
    sessions,       \* sessions
    pc, job,        \* each task's next step and its locals
    known,          \* the refresh tokens delivered to each session's client
    exchanges,      \* history: each rotation, old token and new
    lost,           \* history: tokens whose answer did not arrive
    issued, begun   \* tokens and requests so far

vars == <<users, sessions, pc, job, known, exchanges, lost, issued, begun>>

-----------------------------------------------------------------------------
Labels == {"idle", "owner", "login", "rotate", "answer", "revoke"}

\* revoked_at and expires_at: a revoked session may also have expired.
States == {"absent", "live", "expired", "revoked"}
Session(token, state) == [token |-> token, state |-> state]

\* The number of a bootstrap request is its user's.
Job(s, token) == [session |-> s, token |-> token]
NoJob == Job(NoSession, 0)

Init ==
    /\ users = {}
    /\ sessions = [s \in SessionIds |-> Session(0, "absent")]
    /\ pc = [w \in Workers |-> "idle"]
    /\ job = [w \in Workers |-> NoJob]
    /\ known = [s \in SessionIds |-> {}]
    /\ exchanges = {} /\ lost = {}
    /\ issued = 0 /\ begun = 0

Goto(w, label) == pc' = [pc EXCEPT ![w] = label]
SetJob(w, j) == job' = [job EXCEPT ![w] = j]
Done(w) == Goto(w, "idle") /\ SetJob(w, NoJob)

Start(w) ==
    /\ pc[w] = "idle"
    /\ begun < MaxRequests
    /\ begun' = begun + 1

Live(s) == sessions[s].state = "live"

-----------------------------------------------------------------------------
(* bootstrap_owner.                                                        *)

\* count_users.
CountUsers(w) ==
    /\ Start(w)
    /\ users = {}
    /\ SetJob(w, Job(NoSession, begun + 1))
    /\ Goto(w, "owner")
    /\ UNCHANGED <<users, sessions, known, exchanges, lost, issued>>

\* The unique email: every bootstrap takes it from the same configuration.
EmailFree == users = {}

\* insert_user.
InsertOwner(w) ==
    /\ pc[w] = "owner"
    /\ EmailFree
    /\ users' = users \cup {job[w].token}
    /\ Done(w)
    /\ UNCHANGED <<sessions, known, exchanges, lost, issued, begun>>

-----------------------------------------------------------------------------
(* login.                                                                  *)

\* The user is read, the password is right and the user active;
\* update_user_last_login.
Login(w) ==
    /\ Start(w)
    /\ users # {}
    /\ Goto(w, "login")
    /\ UNCHANGED <<users, sessions, job, known, exchanges, lost, issued>>

\* issue_refresh_token and insert_session, with a new id.
InsertSession(w) ==
    /\ pc[w] = "login"
    /\ issued < MaxTokens
    /\ issued' = issued + 1
    /\ \E s \in SessionIds :
          /\ sessions[s].state = "absent"
          /\ sessions' = [sessions EXCEPT ![s] = Session(issued + 1, "live")]
          /\ SetJob(w, Job(s, issued + 1))
    /\ Goto(w, "answer")
    /\ UNCHANGED <<users, known, exchanges, lost, begun>>

-----------------------------------------------------------------------------
(* refresh.                                                                *)

\* get_session_by_id_and_hash, for a token the client was given; a revoked or
\* expired session is refused.
LoadSession(w) ==
    /\ Start(w)
    /\ \E s \in SessionIds : \E token \in known[s] :
          /\ sessions[s].token = token
          /\ Live(s)
          /\ SetJob(w, Job(s, token))
    /\ Goto(w, "rotate")
    /\ UNCHANGED <<users, sessions, known, exchanges, lost, issued>>

\* Mutant: the update only names the session.
RotatableById(s, token) == sessions[s].state # "revoked"

\* Mutant: the update leaves out the revocation.
RotatableRevoked(s, token) == sessions[s].token = token

\* The WHERE clause of rotate_session_refresh_token: it does not ask again
\* whether the session has expired.
Rotatable(s, token) == sessions[s].token = token /\ sessions[s].state # "revoked"

\* The row after it; a new expires_at, revoked_at is as it was.
Rotated(s, token) ==
    Session(token, IF sessions[s].state = "revoked" THEN "revoked" ELSE "live")

\* Mutant: the answer carries the token of the request.
CarriedOld(old, new) == old

\* The token of the answer.
Carried(old, new) == new

Rotate(w) ==
    LET s == job[w].session
    IN  /\ pc[w] = "rotate"
        /\ issued < MaxTokens
        /\ issued' = issued + 1
        /\ IF Rotatable(s, job[w].token)
           THEN /\ sessions' = [sessions EXCEPT ![s] = Rotated(s, issued + 1)]
                /\ exchanges' = exchanges \cup {[session |-> s, old |-> job[w].token,
                                                 new |-> issued + 1]}
                /\ SetJob(w, Job(s, Carried(job[w].token, issued + 1)))
                /\ Goto(w, "answer")
           ELSE Done(w) /\ UNCHANGED <<sessions, exchanges>>
        /\ UNCHANGED <<users, known, lost, begun>>

\* The answer of a login or a refresh reaches the client.
Answer(w) ==
    /\ pc[w] = "answer"
    /\ known' = [known EXCEPT ![job[w].session] = @ \cup {job[w].token}]
    /\ Done(w)
    /\ UNCHANGED <<users, sessions, exchanges, lost, issued, begun>>

\* The user cannot be loaded, the access token cannot be made, the process
\* stops or the answer is lost on its way.
LoseAnswer(w) ==
    /\ pc[w] = "answer"
    /\ lost' = lost \cup {job[w].token}
    /\ Done(w)
    /\ UNCHANGED <<users, sessions, known, exchanges, issued, begun>>

-----------------------------------------------------------------------------
(* authorize_request and logout.                                           *)

\* A client with an access token: its session must be live.
AuthorizeLogout(w) ==
    /\ Start(w)
    /\ \E s \in SessionIds :
          /\ known[s] # {}
          /\ Live(s)
          /\ SetJob(w, Job(s, 0))
    /\ Goto(w, "revoke")
    /\ UNCHANGED <<users, sessions, known, exchanges, lost, issued>>

\* Mutant: a logout writes a state nobody looks for.
RevokedUnknown(s) == Session(sessions[s].token, "logged_out")

\* revoke_session keeps everything but revoked_at.
Revoked(s) == Session(sessions[s].token, "revoked")

RevokeSession(w) ==
    /\ pc[w] = "revoke"
    /\ sessions' = [sessions EXCEPT ![job[w].session] = Revoked(job[w].session)]
    /\ Done(w)
    /\ UNCHANGED <<users, known, exchanges, lost, issued, begun>>

-----------------------------------------------------------------------------
\* expires_at passes.
Expire(s) ==
    /\ Live(s)
    /\ sessions' = [sessions EXCEPT ![s] = Session(sessions[s].token, "expired")]
    /\ UNCHANGED <<users, pc, job, known, exchanges, lost, issued, begun>>

\* A statement fails or the process stops.  A logout answers logged_out also
\* when the revocation fails.
GiveUp(w) ==
    /\ pc[w] \in Labels \ {"idle", "answer"}
    /\ Done(w)
    /\ UNCHANGED <<users, sessions, known, exchanges, lost, issued, begun>>

Step(w) ==
    \/ CountUsers(w) \/ InsertOwner(w)
    \/ Login(w) \/ InsertSession(w)
    \/ LoadSession(w) \/ Rotate(w) \/ Answer(w) \/ LoseAnswer(w)
    \/ AuthorizeLogout(w) \/ RevokeSession(w) \/ GiveUp(w)

Next == (\E w \in Workers : Step(w)) \/ (\E s \in SessionIds : Expire(s))

Spec == Init /\ [][Next]_vars

-----------------------------------------------------------------------------
(* Properties.                                                             *)

\* Every variable keeps its type.
TypeOK ==
    /\ users \subseteq Nat
    /\ sessions \in [SessionIds -> [token : Nat, state : States]]
    /\ pc \in [Workers -> Labels]
    /\ job \in [Workers -> [session : SessionIds \cup {NoSession}, token : Nat]]
    /\ known \in [SessionIds -> SUBSET Nat]
    /\ exchanges \subseteq [session : SessionIds, old : Nat, new : Nat]
    /\ lost \subseteq Nat
    /\ issued \in Nat /\ begun \in Nat

\* However refreshes overlap, a refresh token is exchanged at most once, no two
\* exchanges give one token, and the session's own token has not been
\* exchanged.  A token a client holds is the session's or has been exchanged.
ExchangedOnce ==
    /\ \A x, y \in exchanges : x.old = y.old \/ x.new = y.new => x = y
    /\ \A x \in exchanges : x.old # sessions[x.session].token
    /\ \A s \in SessionIds : \A t \in known[s] :
          t = sessions[s].token \/ \E x \in exchanges : x.session = s /\ x.old = t

\* A session's token is with its client, in an answer under way, or was lost
\* with one: a refused refresh never takes the client's token away.
TokenReachable ==
    \A s \in SessionIds : sessions[s].state # "absent" =>
        \/ sessions[s].token \in known[s] \cup lost
        \/ \E w \in Workers : pc[w] = "answer" /\ job[w] = Job(s, sessions[s].token)

\* A revoked session stays revoked and its token is never exchanged, also by a
\* refresh that had found it live before the logout.
RevocationHolds ==
    [][\A s \in SessionIds :
          sessions[s].state = "revoked" => sessions'[s] = sessions[s]]_vars

-----------------------------------------------------------------------------
(* The inductive invariant.                                                *)

\* A session that is absent has no token, no client and no exchange.
AbsentEvidence ==
    /\ \A s \in SessionIds : sessions[s].state = "absent" <=> sessions[s].token = 0
    /\ \A s \in SessionIds : sessions[s].state = "absent" => known[s] = {}
    /\ \A x \in exchanges : sessions[x.session].state # "absent"

\* Tokens are numbered as they are issued and belong to one session.
TokenEvidence ==
    /\ \A s \in SessionIds : sessions[s].token <= issued
    /\ \A s, t \in SessionIds :
          sessions[s].token = sessions[t].token => s = t \/ sessions[s].token = 0
    /\ \A s \in SessionIds : \A t \in known[s] : t > 0
    /\ \A x \in exchanges : 0 < x.old /\ x.old < x.new /\ x.new <= issued
    /\ \A x \in exchanges : \A s \in SessionIds : x.old # sessions[s].token

\* What a task knows of the session it is about to change or to answer for.
Knows(label, j) ==
    /\ label \in {"rotate", "answer", "revoke"} =>
          j.session \in SessionIds /\ sessions[j.session].state # "absent"
    /\ label \in {"rotate", "answer"} => j.token > 0
    /\ label = "answer" =>
          \/ j.token = sessions[j.session].token
          \/ \E x \in exchanges : x.session = j.session /\ x.old = j.token

JobEvidence == \A w \in Workers : Knows(pc[w], job[w])

IInv == /\ TypeOK /\ AbsentEvidence /\ TokenEvidence
        /\ ExchangedOnce /\ JobEvidence /\ TokenReachable
=============================================================================
