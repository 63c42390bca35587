------------------------ MODULE AccountService_proofs ------------------------
(***************************************************************************)
(* Accounts, for any number of devices, sessions, tabs, calls and sweeps:   *)
(* the rows keep their types, a scheduled deletion keeps its date, an ended *)
(* session stays ended, and reuse detection spares orderly browsers.        *)
(***************************************************************************)
EXTENDS AccountService, FiniteSetTheorems, TLAPS

PCs == {"idle", "login:sweep", "login:create", "reply", "refresh:read",
        "refresh:rotate", "refresh:grace", "refresh:revoke",
        "forgotPassword:create", "resetPassword:write",
        "requestDeletion:write", "cancelDeletion:write", "anonymizeUser"}

CallState == [pc : PCs, d : Devices \cup {NoSession}, s : Sessions \cup {NoSession},
              tok : 0..MaxToken, next : 0..MaxToken, k : ResetTokens \cup {NoSession}]

SessionRow == [state : {"none", "live", "expired"} \cup Ended,
               current : 0..MaxToken, previous : 0..MaxToken, grace : BOOLEAN]

Cookie == [s : Sessions \cup {NoSession}, tok : 0..MaxToken, access : BOOLEAN]

UserOK ==
  /\ user \in [status : UserStatus, due : {"none", "future", "past"},
               password : BOOLEAN, scrubbed : BOOLEAN]
  /\ user.status = "PENDING_DELETION" => user.due # "none"

SessionsOK == session \in [Sessions -> SessionRow]
ResetOK == reset \in [ResetTokens -> {"none", "unused", "used", "deleted"}]
CookiesOK == cookie \in [Devices -> Cookie] /\ signed \in 0..MaxToken
CallsOK == rq \in [Actors -> CallState]

(* The type invariant, and the types of the calls in progress.              *)
AccountInv == UserOK /\ SessionsOK /\ ResetOK /\ CookiesOK /\ CallsOK

(* No session leaves the states in which it ended.                          *)
StayEnded ==
  \A s \in Sessions : session[s].state \in Ended => session'[s].state = session[s].state

-----------------------------------------------------------------------------
(* A call that returns to idle, or moves on without touching its locals.    *)
LEMMA IdleType == Idle \in CallState
  BY BoundAssumption DEF Idle, CallState, PCs

LEMMA DoneType ==
  ASSUME CallsOK, NEW a \in Actors, Done(a)
  PROVE  CallsOK'
  BY IdleType DEF CallsOK, Done

LEMMA GotoType ==
  ASSUME CallsOK, NEW a \in Actors, NEW pc \in PCs, Goto(a, pc)
  PROVE  CallsOK'
<1>1. [rq[a] EXCEPT !.pc = pc] \in CallState
  BY DEF CallsOK, CallState
<1> QED BY <1>1 DEF CallsOK, Goto

(* Deleting the account's session rows, whatever the reason.                *)
LEMMA EndSessionsType ==
  ASSUME SessionsOK, NEW why \in Ended, EndSessions(why)
  PROVE  SessionsOK' /\ StayEnded
<1>1. ASSUME NEW s \in Sessions PROVE [session[s] EXCEPT !.state = why] \in SessionRow
  BY DEF SessionsOK, SessionRow
<1>2. SessionsOK'
  BY <1>1 DEF SessionsOK, EndSessions
<1>3. StayEnded
  BY DEF StayEnded, EndSessions, HasRow, Ended
<1> QED BY <1>2, <1>3

(* One session's row is replaced; it had not ended.                         *)
LEMMA ReplaceRow ==
  ASSUME SessionsOK, NEW s, NEW row \in SessionRow,
         s \in Sessions => session[s].state \notin Ended,
         session' = [session EXCEPT ![s] = row]
  PROVE  SessionsOK' /\ StayEnded
  BY DEF SessionsOK, StayEnded

LEMMA KeepRows ==
  ASSUME SessionsOK, UNCHANGED session
  PROVE  SessionsOK' /\ StayEnded
  BY DEF SessionsOK, StayEnded

-----------------------------------------------------------------------------
(* The type of every row, call and cookie.                                  *)
LEMMA AccountInvInit == AccountInit => AccountInv
<1> SUFFICES ASSUME AccountInit PROVE AccountInv
  OBVIOUS
<1> USE BoundAssumption DEF AccountInit
<1>1. UserOK BY DEF UserOK, UserStatus
<1>2. SessionsOK BY DEF SessionsOK, SessionRow
<1>3. ResetOK BY DEF ResetOK
<1>4. CookiesOK BY DEF CookiesOK, Cookie, NoCookie
<1>5. CallsOK BY IdleType DEF CallsOK
<1> QED BY <1>1, <1>2, <1>3, <1>4, <1>5 DEF AccountInv

(* Sign-in and refresh.                                                     *)
LEMMA SessionStepKeeps ==
  ASSUME AccountInv, NEW r \in Requests, SessionStep(r)
  PROVE  AccountInv' /\ StayEnded
<1> USE DEF AccountInv
<1>0. r \in Actors BY DEF Actors
<1>1. CASE SweepExpired(r)
  <2>1. ASSUME NEW s \in Sessions PROVE [session[s] EXCEPT !.state = "swept"] \in SessionRow
    BY DEF SessionsOK, SessionRow, Ended
  <2>2. SessionsOK' BY <1>1, <2>1 DEF SweepExpired, SessionsOK
  <2>3. StayEnded BY <1>1 DEF SweepExpired, StayEnded, Ended
  <2>4. CallsOK' BY <1>0, <1>1, GotoType DEF SweepExpired, PCs
  <2> QED BY <1>1, <2>2, <2>3, <2>4 DEF SweepExpired, UserOK, ResetOK, CookiesOK
<1>2. CASE CreateSession(r)
  <2>1. PICK s \in Sessions :
          /\ session[s].state = "none"
          /\ session' = [session EXCEPT ![s] =
               [state |-> "live", current |-> signed + 1, previous |-> 0, grace |-> FALSE]]
          /\ rq' = [rq EXCEPT ![r].pc = "reply", ![r].s = s, ![r].next = signed + 1]
    BY <1>2 DEF CreateSession
  <2>2. signed + 1 \in 0..MaxToken
    BY <1>2, BoundAssumption DEF CreateSession, CookiesOK
  <2>3. [state |-> "live", current |-> signed + 1, previous |-> 0, grace |-> FALSE]
          \in SessionRow
    BY <2>2, BoundAssumption DEF SessionRow
  <2>4. SessionsOK' /\ StayEnded
    BY <2>1, <2>3, ReplaceRow DEF Ended
  <2>5. [rq[r] EXCEPT !.pc = "reply", !.s = s, !.next = signed + 1] \in CallState
    BY <1>0, <2>2 DEF CallsOK, CallState, PCs
  <2>6. CallsOK' BY <1>0, <2>1, <2>5 DEF CallsOK
  <2> QED BY <1>2, <2>2, <2>4, <2>6 DEF CreateSession, UserOK, ResetOK, CookiesOK
<1>3. CASE ReadSession(r)
  <2>1. SessionsOK' /\ StayEnded
    BY <1>3, KeepRows DEF ReadSession, rows
  <2>2. UserOK' /\ ResetOK'
    BY <1>3 DEF ReadSession, rows, UserOK, ResetOK
  <2>3. CASE Done(r) /\ UNCHANGED signed
    BY <1>0, <1>3, <2>1, <2>2, <2>3, DoneType DEF ReadSession, CookiesOK
  <2>4. CASE /\ signed < MaxToken /\ signed' = signed + 1
             /\ rq' = [rq EXCEPT ![r].next = signed + 1,
                            ![r].pc = IF session[rq[r].s].current = rq[r].tok
                                      THEN "refresh:rotate" ELSE "refresh:grace"]
    <3>1. signed + 1 \in 0..MaxToken
      BY <2>4, BoundAssumption DEF CookiesOK
    <3>2. [rq[r] EXCEPT !.next = signed + 1,
                        !.pc = IF session[rq[r].s].current = rq[r].tok
                               THEN "refresh:rotate" ELSE "refresh:grace"] \in CallState
      BY <1>0, <3>1 DEF CallsOK, CallState, PCs
    <3>3. CallsOK' BY <1>0, <2>4, <3>2 DEF CallsOK
    <3> QED BY <1>3, <2>1, <2>2, <2>4, <3>1, <3>3 DEF ReadSession, CookiesOK
  <2> QED BY <1>3, <2>3, <2>4 DEF ReadSession
<1>4. CASE Rotate(r)
  <2> DEFINE s == rq[r].s
             row == [state |-> "live", current |-> rq[r].next, previous |-> rq[r].tok,
                     grace |-> TRUE]
  <2>1. row \in SessionRow
    BY <1>0 DEF SessionRow, CallsOK, CallState
  <2>2. SessionsOK' /\ StayEnded
    <3>1. CASE HasRow(s) /\ session' = [session EXCEPT ![s] = row]
      BY <2>1, <3>1, ReplaceRow DEF HasRow, Ended
    <3>2. CASE UNCHANGED session BY <3>2, KeepRows
    <3> QED BY <1>4, <3>1, <3>2 DEF Rotate
  <2>3. CallsOK'
    BY <1>0, <1>4, GotoType DEF Rotate, PCs
  <2> QED BY <1>4, <2>2, <2>3 DEF Rotate, UserOK, ResetOK, CookiesOK
<1>5. CASE AcceptPrevious(r)
  <2> DEFINE s == rq[r].s
             row == [session[s] EXCEPT !.state = "live", !.current = rq[r].next]
  <2>2. SessionsOK' /\ StayEnded
    <3>1. CASE HasRow(s) /\ session' = [session EXCEPT ![s].state = "live",
                                                       ![s].current = rq[r].next]
      <4>1. s \in Sessions => row \in SessionRow
        BY <1>0 DEF SessionsOK, SessionRow, CallsOK, CallState
      <4>2. SessionsOK' BY <3>1, <4>1 DEF SessionsOK
      <4>3. StayEnded BY <3>1 DEF SessionsOK, StayEnded, HasRow, Ended
      <4> QED BY <4>2, <4>3
    <3>2. CASE UNCHANGED session BY <3>2, KeepRows
    <3> QED BY <1>5, <3>1, <3>2 DEF AcceptPrevious
  <2>3. CallsOK'
    BY <1>0, <1>5, GotoType DEF AcceptPrevious, PCs
  <2> QED BY <1>5, <2>2, <2>3 DEF AcceptPrevious, UserOK, ResetOK, CookiesOK
<1>6. CASE RevokeReplayed(r)
  <2> DEFINE s == rq[r].s
  <2>1. s \in Sessions => [session[s] EXCEPT !.state = "replayed"] \in SessionRow
    BY DEF SessionsOK, SessionRow, Ended
  <2>2. SessionsOK' BY <1>6, <2>1 DEF RevokeReplayed, SessionsOK
  <2>3. StayEnded
    BY <1>6 DEF RevokeReplayed, SessionsOK, StayEnded, HasRow, Ended
  <2>4. CallsOK' BY <1>0, <1>6, DoneType DEF RevokeReplayed
  <2> QED BY <1>6, <2>2, <2>3, <2>4 DEF RevokeReplayed, UserOK, ResetOK, CookiesOK
<1>7. CASE Reply(r)
  <2>1. [s |-> rq[r].s, tok |-> rq[r].next, access |-> TRUE] \in Cookie
    BY <1>0 DEF CallsOK, CallState, Cookie
  <2>2. NoCookie \in Cookie BY BoundAssumption DEF NoCookie, Cookie
  <2>3. CookiesOK' BY <1>7, <2>1, <2>2 DEF Reply, CookiesOK
  <2>4. CallsOK' BY <1>0, <1>7, DoneType DEF Reply
  <2>5. SessionsOK' /\ StayEnded BY <1>7, KeepRows DEF Reply, rows
  <2> QED BY <1>7, <2>3, <2>4, <2>5 DEF Reply, rows, UserOK, ResetOK
<1>8. CASE CreateResetToken(r)
  <2>1. ResetOK' BY <1>8 DEF CreateResetToken, ResetOK
  <2>2. CallsOK' BY <1>0, <1>8, DoneType DEF CreateResetToken
  <2>3. SessionsOK' /\ StayEnded BY <1>8, KeepRows DEF CreateResetToken
  <2> QED BY <1>8, <2>1, <2>2, <2>3 DEF CreateResetToken, UserOK, CookiesOK
<1>9. CASE WritePassword(r)
  <2>1. CallsOK' BY <1>0, <1>9, DoneType, GotoType DEF WritePassword, PCs
  <2>2. CookiesOK' BY <1>9 DEF WritePassword, CookiesOK
  <2>3. CASE UNCHANGED rows
    BY <2>1, <2>2, <2>3, KeepRows DEF rows, UserOK, ResetOK
  <2>4. CASE /\ user' = [user EXCEPT !.password = TRUE]
             /\ reset' = [reset EXCEPT ![rq[r].k] = "used"]
             /\ EndSessions("reset")
    <3>1. UserOK' BY <2>4 DEF UserOK
    <3>2. ResetOK' BY <2>4 DEF ResetOK
    <3>3. SessionsOK' /\ StayEnded BY <2>4, EndSessionsType DEF Ended
    <3> QED BY <2>1, <2>2, <3>1, <3>2, <3>3
  <2> QED BY <1>9, <2>3, <2>4 DEF WritePassword
<1> QED BY <1>1, <1>2, <1>3, <1>4, <1>5, <1>6, <1>7, <1>8, <1>9 DEF SessionStep

(* The first step of a call reads; only a logout writes.                    *)
LEMMA CallKeeps ==
  ASSUME AccountInv, NEW r \in Requests, SessionCall(r) \/ DeletionCall(r)
  PROVE  AccountInv' /\ StayEnded
<1> USE DEF AccountInv
<1>0. r \in Actors BY DEF Actors
<1>1. ASSUME NEW d \in Devices, SignIn(r, d) PROVE AccountInv' /\ StayEnded
  <2>1. [Idle EXCEPT !.pc = "login:sweep", !.d = d] \in CallState
    BY IdleType DEF CallState, PCs
  <2>2. CallsOK' BY <1>0, <1>1, <2>1 DEF SignIn, CallsOK
  <2>3. SessionsOK' /\ StayEnded BY <1>1, KeepRows DEF SignIn, rows
  <2> QED BY <1>1, <2>2, <2>3 DEF SignIn, rows, UserOK, ResetOK, CookiesOK
<1>2. ASSUME NEW d \in Devices, Refresh(r, d) PROVE AccountInv' /\ StayEnded
  <2>1. [Idle EXCEPT !.pc = "refresh:read", !.d = d, !.s = cookie[d].s,
                     !.tok = cookie[d].tok] \in CallState
    BY IdleType DEF CallState, PCs, CookiesOK, Cookie
  <2>2. CallsOK' BY <1>0, <1>2, <2>1 DEF Refresh, CallsOK
  <2>3. SessionsOK' /\ StayEnded BY <1>2, KeepRows DEF Refresh, rows
  <2> QED BY <1>2, <2>2, <2>3 DEF Refresh, rows, UserOK, ResetOK, CookiesOK
<1>3. ASSUME NEW d \in Devices, Logout(r, d) PROVE AccountInv' /\ StayEnded
  <2> DEFINE s == cookie[d].s
  <2>1. s \in Sessions => [session[s] EXCEPT !.state = "loggedOut"] \in SessionRow
    BY DEF SessionsOK, SessionRow, Ended
  <2>2. SessionsOK' BY <1>3, <2>1 DEF Logout, SessionsOK
  <2>3. StayEnded BY <1>3 DEF Logout, SessionsOK, StayEnded, HasRow, Ended
  <2>4. [Idle EXCEPT !.pc = "reply", !.d = d] \in CallState
    BY IdleType DEF CallState, PCs
  <2>5. CallsOK' BY <1>0, <1>3, <2>4 DEF Logout, CallsOK
  <2> QED BY <1>3, <2>2, <2>3, <2>5 DEF Logout, UserOK, ResetOK, CookiesOK
<1>4. ASSUME ForgotPassword(r) PROVE AccountInv' /\ StayEnded
  <2>1. [Idle EXCEPT !.pc = "forgotPassword:create"] \in CallState
    BY IdleType DEF CallState, PCs
  <2>2. CallsOK' BY <1>0, <1>4, <2>1 DEF ForgotPassword, CallsOK
  <2>3. SessionsOK' /\ StayEnded BY <1>4, KeepRows DEF ForgotPassword, rows
  <2> QED BY <1>4, <2>2, <2>3 DEF ForgotPassword, rows, UserOK, ResetOK, CookiesOK
<1>5. ASSUME NEW d \in Devices, NEW k \in ResetTokens, ResetPassword(r, d, k)
      PROVE  AccountInv' /\ StayEnded
  <2>1. [Idle EXCEPT !.pc = "resetPassword:write", !.d = d, !.k = k] \in CallState
    BY IdleType DEF CallState, PCs
  <2>2. CallsOK' BY <1>0, <1>5, <2>1 DEF ResetPassword, CallsOK
  <2>3. SessionsOK' /\ StayEnded BY <1>5, KeepRows DEF ResetPassword, rows
  <2> QED BY <1>5, <2>2, <2>3 DEF ResetPassword, rows, UserOK, ResetOK, CookiesOK
<1>6. ASSUME NEW d \in Devices, RequestDeletion(r, d) PROVE AccountInv' /\ StayEnded
  <2>1. CallsOK' BY <1>0, <1>6, GotoType DEF RequestDeletion, PCs
  <2>2. SessionsOK' /\ StayEnded BY <1>6, KeepRows DEF RequestDeletion, rows
  <2> QED BY <1>6, <2>1, <2>2 DEF RequestDeletion, rows, UserOK, ResetOK, CookiesOK
<1>7. ASSUME NEW d \in Devices, CancelDeletion(r, d) PROVE AccountInv' /\ StayEnded
  <2>1. CallsOK' BY <1>0, <1>7, GotoType DEF CancelDeletion, PCs
  <2>2. SessionsOK' /\ StayEnded BY <1>7, KeepRows DEF CancelDeletion, rows
  <2> QED BY <1>7, <2>1, <2>2 DEF CancelDeletion, rows, UserOK, ResetOK, CookiesOK
<1> QED
  BY <1>1, <1>2, <1>3, <1>4, <1>5, <1>6, <1>7 DEF SessionCall, DeletionCall

(* The writes of the account's status.                                      *)
LEMMA StatusKeeps ==
  ASSUME AccountInv,
         \/ \E r \in Requests : DeletionStep(r)
         \/ \E status \in {"ACTIVE", "BANNED"} : SetStatus(status)
         \/ \E a \in Sweepers : Sweep(a) \/ AnonymizeUser(a)
  PROVE  AccountInv' /\ StayEnded
<1> USE DEF AccountInv
<1>1. ASSUME NEW r \in Requests, WriteDeletion(r) PROVE AccountInv' /\ StayEnded
  <2>1. UserOK' BY <1>1 DEF WriteDeletion, UserOK, UserStatus
  <2>2. CallsOK' BY <1>1, DoneType DEF WriteDeletion, Actors
  <2>3. SessionsOK' /\ StayEnded BY <1>1, KeepRows DEF WriteDeletion
  <2> QED BY <1>1, <2>1, <2>2, <2>3 DEF WriteDeletion, ResetOK, CookiesOK
<1>2. ASSUME NEW r \in Requests, WriteCancellation(r) PROVE AccountInv' /\ StayEnded
  <2>1. UserOK' BY <1>2 DEF WriteCancellation, UserOK, UserStatus
  <2>2. CallsOK' BY <1>2, DoneType DEF WriteCancellation, Actors
  <2>3. SessionsOK' /\ StayEnded BY <1>2, KeepRows DEF WriteCancellation
  <2> QED BY <1>2, <2>1, <2>2, <2>3 DEF WriteCancellation, ResetOK, CookiesOK
<1>3. ASSUME NEW status \in {"ACTIVE", "BANNED"}, SetStatus(status)
      PROVE  AccountInv' /\ StayEnded
  <2>1. UserOK' BY <1>3 DEF SetStatus, UserOK, UserStatus
  <2>2. SessionsOK' /\ StayEnded
    <3>1. CASE EndSessions("banned") BY <3>1, EndSessionsType DEF Ended
    <3>2. CASE UNCHANGED session BY <3>2, KeepRows
    <3> QED BY <1>3, <3>1, <3>2 DEF SetStatus
  <2> QED BY <1>3, <2>1, <2>2 DEF SetStatus, ResetOK, CookiesOK, CallsOK
<1>4. ASSUME NEW a \in Sweepers, Sweep(a) PROVE AccountInv' /\ StayEnded
  <2>1. CallsOK' BY <1>4, GotoType DEF Sweep, Actors, PCs
  <2>2. SessionsOK' /\ StayEnded BY <1>4, KeepRows DEF Sweep, rows
  <2> QED BY <1>4, <2>1, <2>2 DEF Sweep, rows, UserOK, ResetOK, CookiesOK
<1>5. ASSUME NEW a \in Sweepers, AnonymizeUser(a) PROVE AccountInv' /\ StayEnded
  <2>1. UserOK' BY <1>5 DEF AnonymizeUser, UserOK, UserStatus
  <2>2. ResetOK' BY <1>5 DEF AnonymizeUser, ResetOK
  <2>3. SessionsOK' /\ StayEnded BY <1>5, EndSessionsType DEF AnonymizeUser, Ended
  <2>4. CallsOK' BY <1>5, DoneType DEF AnonymizeUser, Actors
  <2> QED BY <1>5, <2>1, <2>2, <2>3, <2>4 DEF AnonymizeUser, CookiesOK
<1> QED BY <1>1, <1>2, <1>3, <1>4, <1>5 DEF DeletionStep

(* Time passes, and calls are abandoned.                                    *)
LEMMA TimeKeeps ==
  ASSUME AccountInv, Clock \/ \E a \in Actors : Abandon(a)
  PROVE  AccountInv' /\ StayEnded
<1> USE DEF AccountInv
<1>1. ASSUME DatePasses PROVE AccountInv' /\ StayEnded
  <2>1. UserOK' BY <1>1 DEF DatePasses, UserOK
  <2>2. SessionsOK' /\ StayEnded BY <1>1, KeepRows DEF DatePasses
  <2> QED BY <1>1, <2>1, <2>2 DEF DatePasses, ResetOK, CookiesOK, CallsOK
<1>2. ASSUME NEW s \in Sessions, Expire(s) PROVE AccountInv' /\ StayEnded
  <2>1. [session[s] EXCEPT !.state = "expired"] \in SessionRow
    BY DEF SessionsOK, SessionRow
  <2>2. SessionsOK' BY <1>2, <2>1 DEF Expire, SessionsOK
  <2>3. StayEnded BY <1>2 DEF Expire, SessionsOK, StayEnded, Ended
  <2> QED BY <1>2, <2>2, <2>3 DEF Expire, UserOK, ResetOK, CookiesOK, CallsOK
<1>3. ASSUME NEW s \in Sessions, GraceEnds(s) PROVE AccountInv' /\ StayEnded
  <2>1. [session[s] EXCEPT !.grace = FALSE] \in SessionRow
    BY DEF SessionsOK, SessionRow
  <2>2. SessionsOK' BY <1>3, <2>1 DEF GraceEnds, SessionsOK
  <2>3. ASSUME NEW t \in Sessions PROVE session'[t].state = session[t].state
    BY <1>3 DEF GraceEnds, SessionsOK, SessionRow
  <2> QED BY <1>3, <2>2, <2>3 DEF GraceEnds, UserOK, ResetOK, CookiesOK, CallsOK, StayEnded
<1>4. ASSUME NEW d \in Devices, AccessExpires(d) PROVE AccountInv' /\ StayEnded
  <2>1. [cookie[d] EXCEPT !.access = FALSE] \in Cookie
    BY DEF CookiesOK, Cookie
  <2>2. CookiesOK' BY <1>4, <2>1 DEF AccessExpires, CookiesOK
  <2>3. SessionsOK' /\ StayEnded BY <1>4, KeepRows DEF AccessExpires, rows
  <2> QED BY <1>4, <2>2, <2>3 DEF AccessExpires, rows, UserOK, ResetOK, CallsOK
<1>5. ASSUME NEW a \in Actors, Abandon(a) PROVE AccountInv' /\ StayEnded
  <2>1. CallsOK' BY <1>5, DoneType DEF Abandon
  <2>2. SessionsOK' /\ StayEnded BY <1>5, KeepRows DEF Abandon, rows
  <2> QED BY <1>5, <2>1, <2>2 DEF Abandon, rows, UserOK, ResetOK, CookiesOK
<1> QED BY <1>1, <1>2, <1>3, <1>4, <1>5 DEF Clock

(* Every step keeps the types and leaves ended sessions ended.              *)
LEMMA AccountStepKeeps ==
  ASSUME AccountInv, [AccountNext]_accountVars
  PROVE  AccountInv' /\ StayEnded
<1>1. CASE AccountNext
  BY <1>1, CallKeeps, SessionStepKeeps, StatusKeeps, TimeKeeps DEF AccountNext
<1>2. CASE UNCHANGED accountVars
  BY <1>2, KeepRows DEF accountVars, AccountInv, UserOK, SessionsOK, ResetOK,
     CookiesOK, CallsOK
<1> QED BY <1>1, <1>2

LEMMA AccountInvInvariant == AccountSpec => []AccountInv
<1>1. AccountInv /\ [AccountNext]_accountVars => AccountInv'
  BY AccountStepKeeps
<1> QED BY AccountInvInit, <1>1, PTL DEF AccountSpec

-----------------------------------------------------------------------------
(* User and RefreshSession rows keep their types, and whatever writes an    *)
(* account's status, an account pending deletion has the date the sweep     *)
(* looks for (account.service.ts, customer.service.ts).                     *)
THEOREM AccountTypeCorrect == AccountSpec => []AccountTypeOK
<1>1. AccountInv => AccountTypeOK
  BY DEF AccountInv, AccountTypeOK, UserOK, SessionsOK, SessionRow, ResetOK,
     CookiesOK, Cookie
<1> QED BY AccountInvInvariant, <1>1, PTL

(* A refresh that was half way when its session ended cannot bring it back  *)
(* (the conditional updates of rotateSession, auth.service.ts).             *)
THEOREM SessionsStayEnded == AccountSpec => EndedSessionsStayEnded
<1>1. AccountInv /\ [AccountNext]_accountVars =>
        [\A s \in Sessions : session[s].state \in Ended =>
                               session'[s].state = session[s].state]_accountVars
  BY AccountStepKeeps DEF StayEnded
<1> QED BY AccountInvInvariant, <1>1, PTL DEF AccountSpec, EndedSessionsStayEnded

-----------------------------------------------------------------------------
(***************************************************************************)
(* Reuse detection never fires against a browser that refreshes one call at *)
(* a time and presents a rotated token again before the grace time is over, *)
(* for any number of devices, sessions, calls, lost answers and sweeps.     *)
(***************************************************************************)

RefreshPCs == {"refresh:read", "refresh:rotate", "refresh:grace", "refresh:revoke"}

(* A call is about no session, opens one, or renews one.                    *)
Calm(r) ==
  /\ rq[r].s = NoSession /\ rq[r].tok = 0 /\ rq[r].next = 0
  /\ rq[r].pc \notin RefreshPCs

Opening(r) ==
  /\ rq[r].pc = "reply" /\ rq[r].s \in Sessions /\ rq[r].tok = 0 /\ rq[r].next # 0

Renewing(r) ==
  /\ rq[r].s \in Sessions /\ rq[r].tok # 0
  /\ \/ rq[r].pc \in {"refresh:read", "refresh:revoke"}
     \/ rq[r].pc \in {"refresh:rotate", "refresh:grace", "reply"} /\ rq[r].next # 0

Accepts(s, tok) ==
  \/ tok = session[s].current
  \/ tok = session[s].previous /\ session[s].grace

KindsInv == \A r \in Requests : Calm(r) \/ Opening(r) \/ Renewing(r)

OneRenewalInv ==
  \A q, r \in Requests : Renewing(q) /\ Renewing(r) /\ rq[q].d = rq[r].d => q = r

(* Whoever knows a token of a session is at the device that opened it.      *)
OwnedBy(owner) ==
  /\ \A d \in Devices : cookie[d].s \in Sessions => owner[cookie[d].s] = d
  /\ \A r \in Requests : rq[r].s \in Sessions => owner[rq[r].s] = rq[r].d

OwnerInv == \E owner \in [Sessions -> Devices \cup {NoSession}] : OwnedBy(owner)

(* Nobody knows a token of a session that was not opened yet.               *)
UnbornInv ==
  \A s \in Sessions : session[s].state = "none" =>
    /\ \A d \in Devices : cookie[d].s # s
    /\ \A r \in Requests : rq[r].s # s

(* Until a sign-in is answered nobody else knows a token of its session.    *)
OpeningOK(r) ==
  /\ HasRow(rq[r].s) => rq[r].next = session[rq[r].s].current
  /\ \A d \in Devices : cookie[d].s # rq[r].s
  /\ \A q \in Requests \ {r} : rq[q].s # rq[r].s

OpeningInv == \A r \in Requests : Opening(r) => OpeningOK(r)

(* What a browser holds is accepted as long as the session lives.           *)
CookieInv ==
  \A d \in Devices :
    /\ cookie[d].s \in Sessions => cookie[d].tok # 0
    /\ cookie[d].s \notin Sessions => cookie[d].tok = 0 /\ ~cookie[d].access
    /\ cookie[d].s \in Sessions /\ HasRow(cookie[d].s) =>
         Accepts(cookie[d].s, cookie[d].tok)

(* A renewal presents what its browser holds, and what the row it comes to  *)
(* will accept.                                                             *)
RenewalOK(r) ==
  /\ \A d \in Devices : cookie[d].s = rq[r].s => cookie[d].tok = rq[r].tok
  /\ HasRow(rq[r].s) =>
       /\ At(r, "refresh:read") => Accepts(rq[r].s, rq[r].tok)
       /\ At(r, "refresh:rotate") => rq[r].tok = session[rq[r].s].current
       /\ At(r, "refresh:grace") =>
            rq[r].tok = session[rq[r].s].previous /\ session[rq[r].s].grace
       /\ ~At(r, "refresh:revoke")
       /\ At(r, "reply") => rq[r].next = session[rq[r].s].current

RenewalInv == \A r \in Requests : Renewing(r) => RenewalOK(r)

ReuseInv ==
  /\ AccountInv /\ NoFalseReuse
  /\ KindsInv /\ OneRenewalInv /\ OwnerInv /\ UnbornInv /\ OpeningInv
  /\ CookieInv /\ RenewalInv

(* The clients the theorem is about.                                        *)
OrderlyClients == Tabs = 1 /\ SlowClients = FALSE /\ IsFiniteSet(Requests)

-----------------------------------------------------------------------------
(* The first refresh of a device waits for the end of the one before.       *)
LEMMA NoOtherRenewal ==
  ASSUME OrderlyClients, NEW d, Cardinality(Refreshing(d)) < Tabs
  PROVE  Refreshing(d) = {}
<1>1. IsFiniteSet(Refreshing(d))
  BY FS_Subset DEF OrderlyClients, Refreshing
<1>2. Cardinality(Refreshing(d)) \in Nat
  BY <1>1, FS_CardinalityType
<1>3. Cardinality(Refreshing(d)) = 0
  BY <1>2 DEF OrderlyClients
<1> QED BY <1>1, <1>3, FS_EmptySet

(* Rows end or expire, none by reuse detection.                             *)
Aging ==
  \A s \in Sessions :
    /\ session'[s].state = "none" <=> session[s].state = "none"
    /\ session'[s].state = "replayed" => session[s].state = "replayed"
    /\ HasRow(s)' => /\ HasRow(s)
                     /\ session'[s].current = session[s].current
                     /\ session'[s].previous = session[s].previous
                     /\ session'[s].grace = session[s].grace

(* Steps that end or age rows, and in which calls become or stay calm.      *)
LEMMA CalmStep ==
  ASSUME ReuseInv, AccountInv', Aging,
         \A d \in Devices :
           /\ cookie'[d].s = cookie[d].s /\ cookie'[d].tok = cookie[d].tok
           /\ cookie'[d].access => cookie[d].access,
         \A r \in Requests : rq'[r] = rq[r] \/ Calm(r)'
  PROVE  ReuseInv'
<1> USE DEF ReuseInv
<1> USE DEF Aging
<1>0. NoSession \notin Sessions /\ NoFalseReuse'
  BY ActorAssumption DEF NoFalseReuse
<1>1. \A r \in Requests : Renewing(r)' => rq'[r] = rq[r] /\ Renewing(r)
  BY DEF Calm, Renewing
<1>2. \A r \in Requests : Opening(r)' => rq'[r] = rq[r] /\ Opening(r)
  BY DEF Calm, Opening
<1>3. KindsInv' BY DEF KindsInv, Calm, Opening, Renewing
<1>4. OneRenewalInv' BY <1>1 DEF OneRenewalInv
<1>5. OwnerInv'
  <2>1. PICK owner \in [Sessions -> Devices \cup {NoSession}] : OwnedBy(owner)
    BY DEF OwnerInv
  <2>2. OwnedBy(owner)' BY <2>1, <1>0 DEF OwnedBy, Calm
  <2> QED BY <2>2 DEF OwnerInv
<1>6. UnbornInv' BY <1>0 DEF UnbornInv, Calm
<1>7. OpeningInv' BY <1>0, <1>2 DEF OpeningInv, OpeningOK, Opening, Calm
<1>8. CookieInv' BY DEF CookieInv, Accepts
<1>9. RenewalInv'
  BY <1>1 DEF RenewalInv, RenewalOK, Renewing, Accepts, At
<1> QED BY <1>0, <1>3, <1>4, <1>5, <1>6, <1>7, <1>8, <1>9

LEMMA ReuseInvInit == AccountInit => ReuseInv
<1> SUFFICES ASSUME AccountInit PROVE ReuseInv
  OBVIOUS
<1>1. AccountInv BY AccountInvInit
<1>2. \A r \in Requests : Calm(r) /\ rq[r].s = NoSession
  BY DEF AccountInit, Actors, Idle, Calm, RefreshPCs
<1>3. \A d \in Devices : cookie[d] = NoCookie BY DEF AccountInit
<1>4. NoFalseReuse BY DEF AccountInit, NoFalseReuse
<1>5. KindsInv BY <1>2 DEF KindsInv
<1>6. \A r \in Requests : ~Opening(r) /\ ~Renewing(r)
  BY <1>2, ActorAssumption DEF Opening, Renewing
<1>7. OwnerInv
  <2> DEFINE owner == [s \in Sessions |-> NoSession]
  <2>1. OwnedBy(owner) BY <1>2, <1>3, ActorAssumption DEF OwnedBy, NoCookie
  <2> QED BY <2>1 DEF OwnerInv
<1>8. UnbornInv BY <1>2, <1>3, ActorAssumption DEF UnbornInv, NoCookie
<1>9. CookieInv BY <1>3, ActorAssumption DEF CookieInv, NoCookie
<1>10. OneRenewalInv /\ OpeningInv /\ RenewalInv
  BY <1>6 DEF OneRenewalInv, OpeningInv, RenewalInv
<1> QED BY <1>1, <1>4, <1>5, <1>7, <1>8, <1>9, <1>10 DEF ReuseInv

-----------------------------------------------------------------------------
(* A sign-in opens a session nobody knows yet.                              *)
LEMMA CreateSessionReuse ==
  ASSUME ReuseInv, AccountInv', NEW r \in Requests, CreateSession(r)
  PROVE  ReuseInv'
<1> USE DEF ReuseInv
<1>0. NoSession \notin Sessions /\ r \in Actors
  BY ActorAssumption DEF Actors
<1>1. PICK s \in Sessions :
        /\ session[s].state = "none"
        /\ session' = [session EXCEPT ![s] =
             [state |-> "live", current |-> signed + 1, previous |-> 0, grace |-> FALSE]]
        /\ rq' = [rq EXCEPT ![r].pc = "reply", ![r].s = s, ![r].next = signed + 1]
  BY DEF CreateSession
<1>2. cookie' = cookie /\ signed + 1 # 0
  BY DEF CreateSession, AccountInv, CookiesOK
<1>3. Calm(r)
  BY DEF CreateSession, KindsInv, Opening, Renewing, At, RefreshPCs
<1>4. /\ rq'[r].pc = "reply" /\ rq'[r].s = s /\ rq'[r].next = signed + 1
      /\ rq'[r].tok = 0 /\ rq'[r].d = rq[r].d
      /\ \A q \in Requests \ {r} : rq'[q] = rq[q]
  BY <1>0, <1>1, <1>3 DEF AccountInv, CallsOK, CallState, Actors, Calm
<1>5. /\ session'[s].current = signed + 1 /\ session'[s].state = "live"
      /\ \A t \in Sessions \ {s} : session'[t] = session[t]
  BY <1>1 DEF AccountInv, SessionsOK
<1>6. \A d \in Devices : cookie[d].s # s
  BY <1>1 DEF UnbornInv
<1>7. \A q \in Requests : rq[q].s # s
  BY <1>1 DEF UnbornInv
<1>8. NoFalseReuse' BY <1>5 DEF NoFalseReuse
<1>9. Opening(r)' /\ ~Renewing(r)'
  BY <1>2, <1>4 DEF Opening, Renewing
<1>10. KindsInv'
  BY <1>4, <1>9 DEF KindsInv, Calm, Opening, Renewing
<1>11. \A q \in Requests : Renewing(q)' => q # r /\ Renewing(q) /\ rq'[q] = rq[q]
  BY <1>4, <1>9 DEF Renewing
<1>12. OneRenewalInv' BY <1>11 DEF OneRenewalInv
<1>13. OwnerInv'
  <2>1. PICK owner \in [Sessions -> Devices \cup {NoSession}] : OwnedBy(owner)
    BY DEF OwnerInv
  <2>2. PICK d \in Devices \cup {NoSession} : d = rq[r].d
    BY <1>0 DEF AccountInv, CallsOK, CallState
  <2>3. PICK new \in [Sessions -> Devices \cup {NoSession}] :
          new = [owner EXCEPT ![s] = d]
    BY <2>2
  <2>4. OwnedBy(new)'
    <3>1. \A c \in Devices : cookie'[c].s \in Sessions => new[cookie'[c].s] = c
      BY <1>2, <1>6, <2>1, <2>3 DEF OwnedBy
    <3>2. \A q \in Requests : rq'[q].s \in Sessions => new[rq'[q].s] = rq'[q].d
      BY <1>4, <1>7, <2>1, <2>2, <2>3 DEF OwnedBy
    <3> QED BY <3>1, <3>2 DEF OwnedBy
  <2> QED BY <2>4 DEF OwnerInv
<1>14. UnbornInv'
  BY <1>2, <1>4, <1>5 DEF UnbornInv
<1>15. OpeningInv'
  <2> SUFFICES ASSUME NEW q \in Requests, Opening(q)'
               PROVE  OpeningOK(q)'
    BY DEF OpeningInv
  <2>1. CASE q = r
    BY <1>2, <1>4, <1>5, <1>6, <1>7, <2>1 DEF OpeningOK
  <2>2. CASE q # r
    BY <1>2, <1>4, <1>5, <1>7, <2>2 DEF OpeningInv, OpeningOK, Opening, HasRow
  <2> QED BY <2>1, <2>2
<1>16. CookieInv'
  BY <1>2, <1>5, <1>6 DEF CookieInv, HasRow, Accepts
<1>17. RenewalInv'
  <2> SUFFICES ASSUME NEW q \in Requests, Renewing(q)'
               PROVE  RenewalOK(q)'
    BY DEF RenewalInv
  <2> QED BY <1>2, <1>5, <1>7, <1>11 DEF RenewalInv, RenewalOK, HasRow, Accepts, At, Renewing
<1> QED BY <1>8, <1>10, <1>12, <1>13, <1>14, <1>15, <1>16, <1>17

(* A refresh starts with what the cookies hold; no other is under way.      *)
LEMMA RefreshReuse ==
  ASSUME ReuseInv, AccountInv', OrderlyClients,
         NEW r \in Requests, NEW d \in Devices, Refresh(r, d)
  PROVE  ReuseInv'
<1> USE DEF ReuseInv
<1>0. NoSession \notin Sessions /\ r \in Actors
  BY ActorAssumption DEF Actors
<1>1. /\ rq'[r] = [Idle EXCEPT !.pc = "refresh:read", !.d = d, !.s = cookie[d].s,
                              !.tok = cookie[d].tok]
      /\ \A q \in Requests \ {r} : rq'[q] = rq[q]
  BY <1>0 DEF Refresh, AccountInv, CallsOK, Actors
<1>2. /\ rq'[r].pc = "refresh:read" /\ rq'[r].s = cookie[d].s
      /\ rq'[r].tok = cookie[d].tok /\ rq'[r].d = d
  BY <1>1 DEF Idle
<1>3. cookie' = cookie /\ session' = session
  BY DEF Refresh, rows
<1>4. cookie[d].s \in Sessions /\ cookie[d].tok # 0
  <2>1. CASE cookie[d].s \in Sessions BY <2>1 DEF CookieInv
  <2>2. CASE cookie[d].s \notin Sessions
    <3>1. cookie[d].s = NoSession /\ cookie[d] \in Cookie
      BY <2>2 DEF AccountInv, CookiesOK, Cookie
    <3>2. cookie[d].tok = 0 /\ cookie[d].access = FALSE
      BY <2>2, <3>1 DEF CookieInv, Cookie
    <3>3. cookie[d] = NoCookie
      BY <3>1, <3>2 DEF Cookie, NoCookie
    <3> QED BY <3>3 DEF Refresh
  <2> QED BY <2>1, <2>2
<1>5. \A q \in Requests : Renewing(q) => rq[q].d # d
  <2>1. Refreshing(d) = {}
    BY NoOtherRenewal DEF Refresh
  <2>2. \A q \in Requests : Renewing(q) => ~At(q, "idle") /\ rq[q].tok # 0
    BY DEF Renewing, RefreshPCs, At
  <2> QED BY <2>1, <2>2 DEF Refreshing
<1>6. Renewing(r)' /\ ~Opening(r)'
  BY <1>2, <1>4 DEF Renewing, Opening, RefreshPCs
<1>7. \A q \in Requests : Renewing(q)' /\ q # r => Renewing(q) /\ rq'[q] = rq[q]
  BY <1>1 DEF Renewing
<1>8. \A q \in Requests : Opening(q)' => q # r /\ Opening(q) /\ rq'[q] = rq[q]
  BY <1>1, <1>6 DEF Opening
<1>9. NoFalseReuse' BY <1>3 DEF NoFalseReuse
<1>10. KindsInv' BY <1>1, <1>6 DEF KindsInv, Calm, Opening, Renewing
<1>11. OneRenewalInv' BY <1>2, <1>5, <1>7 DEF OneRenewalInv
<1>12. OwnerInv'
  <2>1. PICK owner \in [Sessions -> Devices \cup {NoSession}] : OwnedBy(owner)
    BY DEF OwnerInv
  <2>2. \A c \in Devices : cookie'[c].s \in Sessions => owner[cookie'[c].s] = c
    BY <1>3, <2>1 DEF OwnedBy
  <2>3. owner[rq'[r].s] = rq'[r].d
    BY <1>2, <1>4, <2>1 DEF OwnedBy
  <2>4. \A q \in Requests : rq'[q].s \in Sessions => owner[rq'[q].s] = rq'[q].d
    BY <1>1, <2>1, <2>3 DEF OwnedBy
  <2> QED BY <2>2, <2>4 DEF OwnedBy, OwnerInv
<1>13. UnbornInv'
  <2> SUFFICES ASSUME NEW s \in Sessions, session[s].state = "none"
               PROVE  /\ \A c \in Devices : cookie[c].s # s
                      /\ \A q \in Requests : rq'[q].s # s
    BY <1>3 DEF UnbornInv
  <2>1. rq'[r].s # s BY <1>2 DEF UnbornInv
  <2>2. \A q \in Requests \ {r} : rq'[q].s # s BY <1>1 DEF UnbornInv
  <2> QED BY <2>1, <2>2 DEF UnbornInv
<1>14. OpeningInv'
  <2> SUFFICES ASSUME NEW q \in Requests, Opening(q)'
               PROVE  OpeningOK(q)'
    BY DEF OpeningInv
  <2>1. q # r /\ rq'[q] = rq[q] /\ OpeningOK(q)
    BY <1>8 DEF OpeningInv
  <2>2. rq'[r].s # rq'[q].s
    BY <1>2, <2>1 DEF OpeningOK
  <2>3. \A p \in Requests \ {q} : rq'[p].s # rq'[q].s
    BY <1>1, <2>1, <2>2 DEF OpeningOK
  <2> QED BY <1>3, <2>1, <2>3 DEF OpeningOK, HasRow
<1>15. CookieInv' BY <1>3 DEF CookieInv, HasRow, Accepts
<1>16. RenewalInv'
  <2> SUFFICES ASSUME NEW q \in Requests, Renewing(q)'
               PROVE  RenewalOK(q)'
    BY DEF RenewalInv
  <2>1. CASE q # r
    BY <1>3, <1>7, <2>1 DEF RenewalInv, RenewalOK, HasRow, Accepts, At
  <2>2. CASE q = r
    <3>1. PICK owner \in [Sessions -> Devices \cup {NoSession}] : OwnedBy(owner)
      BY DEF OwnerInv
    <3>2. \A c \in Devices : cookie[c].s = cookie[d].s => c = d
      BY <1>4, <3>1 DEF OwnedBy
    <3>3. HasRow(cookie[d].s) => Accepts(cookie[d].s, cookie[d].tok)
      BY <1>4 DEF CookieInv
    <3> QED BY <1>2, <1>3, <2>2, <3>2, <3>3 DEF RenewalOK, HasRow, Accepts, At
  <2> QED BY <2>1, <2>2
<1> QED BY <1>9, <1>10, <1>11, <1>12, <1>13, <1>14, <1>15, <1>16

(* A renewal moves on, alone at its device; the row of its session, if      *)
(* there is one, may take new tokens that its browser's is accepted by.     *)
LEMMA RenewalStep ==
  ASSUME ReuseInv, AccountInv', NEW r \in Requests, Renewing(r), Renewing(r)',
         RenewalOK(r)',
         rq'[r].s = rq[r].s, rq'[r].tok = rq[r].tok, rq'[r].d = rq[r].d,
         \A q \in Requests \ {r} : rq'[q] = rq[q],
         \A s \in Sessions \ {rq[r].s} : session'[s] = session[s],
         session'[rq[r].s].state \notin {"none", "replayed"},
         HasRow(rq[r].s)' => Accepts(rq[r].s, rq[r].tok)',
         cookie' = cookie
  PROVE  ReuseInv'
<1> USE DEF ReuseInv
<1>0. NoSession \notin Sessions /\ rq[r].s \in Sessions
  BY ActorAssumption DEF Renewing
<1>1. NoFalseReuse' BY DEF NoFalseReuse
<1>2. ~Opening(r) /\ ~Opening(r)' BY DEF Opening, Renewing
<1>3. \A q \in Requests : Renewing(q)' => Renewing(q) BY DEF Renewing
<1>4. \A q \in Requests : Opening(q)' => q # r /\ Opening(q) /\ rq'[q] = rq[q]
  BY <1>2 DEF Opening
<1>5. KindsInv' BY DEF KindsInv, Calm, Opening, Renewing
<1>6. OneRenewalInv'
  <2>1. \A q \in Requests : rq'[q].d = rq[q].d
    OBVIOUS
  <2> QED BY <1>3, <2>1 DEF OneRenewalInv
<1>7. \A q \in Requests : rq'[q].s = rq[q].s /\ rq'[q].d = rq[q].d
  OBVIOUS
<1>8. OwnerInv'
  <2>1. PICK owner \in [Sessions -> Devices \cup {NoSession}] : OwnedBy(owner)
    BY DEF OwnerInv
  <2>2. OwnedBy(owner)' BY <1>7, <2>1 DEF OwnedBy
  <2> QED BY <2>2 DEF OwnerInv
<1>9. UnbornInv' BY <1>7 DEF UnbornInv
<1>10. \A q \in Requests : Opening(q) => rq[q].s # rq[r].s /\ rq[q].s \in Sessions
  BY <1>2 DEF OpeningInv, OpeningOK, Opening
<1>11. OpeningInv'
  <2> SUFFICES ASSUME NEW q \in Requests, Opening(q)'
               PROVE  OpeningOK(q)'
    BY DEF OpeningInv
  <2>1. rq'[q] = rq[q] /\ OpeningOK(q) /\ session'[rq[q].s] = session[rq[q].s]
    BY <1>4, <1>10 DEF OpeningInv
  <2> QED BY <1>7, <2>1 DEF OpeningOK, HasRow
<1>12. CookieInv'
  <2> SUFFICES ASSUME NEW d \in Devices, cookie[d].s \in Sessions, HasRow(cookie[d].s)'
               PROVE  Accepts(cookie[d].s, cookie[d].tok)'
    BY DEF CookieInv
  <2>1. CASE cookie[d].s = rq[r].s
    BY <2>1 DEF RenewalInv, RenewalOK
  <2>2. CASE cookie[d].s # rq[r].s
    BY <2>2 DEF CookieInv, HasRow, Accepts
  <2> QED BY <2>1, <2>2
<1>13. RenewalInv'
  <2> SUFFICES ASSUME NEW q \in Requests, Renewing(q)', q # r
               PROVE  RenewalOK(q)'
    BY DEF RenewalInv
  <2>1. Renewing(q) /\ rq'[q] = rq[q] /\ RenewalOK(q)
    BY <1>3 DEF RenewalInv
  <2>2. rq[q].s # rq[r].s
    <3>1. PICK owner \in [Sessions -> Devices \cup {NoSession}] : OwnedBy(owner)
      BY DEF OwnerInv
    <3> QED BY <1>0, <2>1, <3>1 DEF OwnedBy, OneRenewalInv
  <2>3. session'[rq[q].s] = session[rq[q].s]
    BY <2>1, <2>2 DEF Renewing
  <2> QED BY <2>1, <2>3 DEF RenewalOK, HasRow, Accepts, At
<1> QED BY <1>1, <1>5, <1>6, <1>8, <1>9, <1>11, <1>12, <1>13

(* A step that only moves on keeps the call's locals.                       *)
Moved(r, pc) ==
  /\ rq'[r].pc = pc /\ rq'[r].s = rq[r].s /\ rq'[r].tok = rq[r].tok
  /\ rq'[r].d = rq[r].d /\ rq'[r].next = rq[r].next
  /\ \A q \in Requests \ {r} : rq'[q] = rq[q]

LEMMA MovedOn ==
  ASSUME AccountInv, NEW r \in Requests, NEW pc, Goto(r, pc)
  PROVE  Moved(r, pc)
  BY DEF AccountInv, CallsOK, CallState, Goto, Moved, Actors

(* The session of a renewal ended under way: it will find no row.           *)
LEMMA LateRenewal ==
  ASSUME ReuseInv, AccountInv', NEW r \in Requests, Renewing(r), RenewalOK(r),
         rq[r].pc \in {"refresh:rotate", "refresh:grace"},
         ~HasRow(rq[r].s), cookie' = cookie, UNCHANGED session,
         NEW pc \in {"refresh:grace", "refresh:revoke"}, Moved(r, pc)
  PROVE  ReuseInv'
<1>1. rq[r].s \in Sessions BY DEF Renewing
<1>2. Renewing(r)' BY DEF Renewing, Moved
<1>3. ~HasRow(rq[r].s)' BY DEF HasRow, Moved
<1>4. RenewalOK(r)' BY <1>3 DEF RenewalOK, Moved
<1>5. session[rq[r].s].state \notin {"none", "replayed"}
  BY <1>1 DEF ReuseInv, NoFalseReuse, UnbornInv
<1> QED BY <1>1, <1>2, <1>3, <1>4, <1>5, RenewalStep DEF Moved

(* The steps of a renewal.                                                  *)
LEMMA ReadSessionReuse ==
  ASSUME ReuseInv, AccountInv', NEW r \in Requests, ReadSession(r), ~Done(r)
  PROVE  ReuseInv'
<1> USE DEF ReuseInv
<1>0. r \in Actors /\ rq[r].pc = "refresh:read"
  BY DEF Actors, ReadSession, At
<1>1. Renewing(r) /\ rq[r].s \in Sessions
  BY <1>0 DEF KindsInv, Calm, Opening, Renewing, RefreshPCs
<1>2. RenewalOK(r) BY <1>1 DEF RenewalInv
<1>3. /\ session[rq[r].s].state = "live"
      /\ rq'[r].pc = IF session[rq[r].s].current = rq[r].tok
                     THEN "refresh:rotate" ELSE "refresh:grace"
      /\ rq'[r].s = rq[r].s /\ rq'[r].tok = rq[r].tok /\ rq'[r].d = rq[r].d
      /\ rq'[r].next # 0
      /\ \A q \in Requests \ {r} : rq'[q] = rq[q]
  BY <1>0 DEF ReadSession, AccountInv, CallsOK, CallState, CookiesOK, Actors
<1>4. session' = session /\ cookie' = cookie
  BY DEF ReadSession, rows
<1>5. Accepts(rq[r].s, rq[r].tok)
  BY <1>0, <1>2, <1>3 DEF RenewalOK, HasRow, At
<1>6. Renewing(r)' BY <1>1, <1>3 DEF Renewing, RefreshPCs
<1>7. RenewalOK(r)'
  BY <1>2, <1>3, <1>4, <1>5 DEF RenewalOK, Accepts, At
<1> QED BY <1>1, <1>3, <1>4, <1>5, <1>6, <1>7, RenewalStep DEF Accepts

LEMMA RotateReuse ==
  ASSUME ReuseInv, AccountInv', NEW r \in Requests, Rotate(r)
  PROVE  ReuseInv'
<1> USE DEF ReuseInv
<1>0. r \in Actors /\ rq[r].pc = "refresh:rotate"
  BY DEF Actors, Rotate, At
<1>1. Renewing(r) /\ rq[r].s \in Sessions
  BY <1>0 DEF KindsInv, Calm, Opening, Renewing, RefreshPCs
<1>2. RenewalOK(r) BY <1>1 DEF RenewalInv
<1>3. cookie' = cookie BY DEF Rotate
<1>4. CASE /\ HasRow(rq[r].s)
           /\ session' = [session EXCEPT ![rq[r].s] =
                [state |-> "live", current |-> rq[r].next, previous |-> rq[r].tok,
                 grace |-> TRUE]]
           /\ Goto(r, "reply")
  <2>1. /\ session'[rq[r].s].state = "live" /\ session'[rq[r].s].current = rq[r].next
        /\ session'[rq[r].s].previous = rq[r].tok /\ session'[rq[r].s].grace = TRUE
        /\ \A s \in Sessions \ {rq[r].s} : session'[s] = session[s]
    BY <1>1, <1>4 DEF AccountInv, SessionsOK
  <2>2. Moved(r, "reply")
    BY <1>0, <1>4, MovedOn
  <2>3. Renewing(r)' BY <1>0, <1>1, <2>2 DEF Renewing, Moved
  <2>4. RenewalOK(r)'
    BY <1>2, <1>3, <2>1, <2>2 DEF RenewalOK, At, Moved
  <2>5. Accepts(rq[r].s, rq[r].tok)' BY <2>1, <2>2 DEF Accepts, Moved
  <2> QED BY <1>1, <1>3, <2>1, <2>2, <2>3, <2>4, <2>5, RenewalStep DEF Moved
<1>5. CASE /\ ~(HasRow(rq[r].s) /\ session[rq[r].s].current = rq[r].tok)
           /\ Goto(r, "refresh:grace")
           /\ UNCHANGED session
  <2>1. ~HasRow(rq[r].s)
    BY <1>0, <1>2, <1>5 DEF RenewalOK, At
  <2> QED BY <1>0, <1>1, <1>2, <1>3, <1>5, <2>1, MovedOn, LateRenewal DEF RefreshPCs
<1> QED BY <1>4, <1>5 DEF Rotate

LEMMA AcceptPreviousReuse ==
  ASSUME ReuseInv, AccountInv', NEW r \in Requests, AcceptPrevious(r)
  PROVE  ReuseInv'
<1> USE DEF ReuseInv
<1>0. r \in Actors /\ rq[r].pc = "refresh:grace"
  BY DEF Actors, AcceptPrevious, At
<1>1. Renewing(r) /\ rq[r].s \in Sessions
  BY <1>0 DEF KindsInv, Calm, Opening, Renewing, RefreshPCs
<1>2. RenewalOK(r) BY <1>1 DEF RenewalInv
<1>3. cookie' = cookie BY DEF AcceptPrevious
<1>4. CASE /\ HasRow(rq[r].s) /\ session[rq[r].s].previous = rq[r].tok
           /\ session[rq[r].s].grace
           /\ session' = [session EXCEPT ![rq[r].s].state = "live",
                                         ![rq[r].s].current = rq[r].next]
           /\ Goto(r, "reply")
  <2>1. /\ session'[rq[r].s].state = "live" /\ session'[rq[r].s].current = rq[r].next
        /\ session'[rq[r].s].previous = rq[r].tok /\ session'[rq[r].s].grace
        /\ \A s \in Sessions \ {rq[r].s} : session'[s] = session[s]
    BY <1>1, <1>4 DEF AccountInv, SessionsOK, SessionRow
  <2>2. Moved(r, "reply")
    BY <1>0, <1>4, MovedOn
  <2>3. Renewing(r)' BY <1>0, <1>1, <2>2 DEF Renewing, Moved
  <2>4. RenewalOK(r)'
    BY <1>2, <1>3, <2>1, <2>2 DEF RenewalOK, At, Moved
  <2>5. Accepts(rq[r].s, rq[r].tok)' BY <2>1, <2>2 DEF Accepts, Moved
  <2> QED BY <1>1, <1>3, <2>1, <2>2, <2>3, <2>4, <2>5, RenewalStep DEF Moved
<1>5. CASE /\ ~(/\ HasRow(rq[r].s) /\ session[rq[r].s].previous = rq[r].tok
                /\ session[rq[r].s].grace)
           /\ Goto(r, "refresh:revoke")
           /\ UNCHANGED session
  <2>1. ~HasRow(rq[r].s)
    BY <1>0, <1>2, <1>5 DEF RenewalOK, At
  <2> QED BY <1>0, <1>1, <1>2, <1>3, <1>5, <2>1, MovedOn, LateRenewal DEF RefreshPCs
<1> QED BY <1>4, <1>5 DEF AcceptPrevious

(* An answer hands the browser what the row now accepts, or clears it.      *)
LEMMA ReplyReuse ==
  ASSUME ReuseInv, AccountInv', NEW r \in Requests, Reply(r)
  PROVE  ReuseInv'
<1> USE DEF ReuseInv
<1> DEFINE dev == rq[r].d
           new == IF rq[r].next = 0 THEN NoCookie
                  ELSE [s |-> rq[r].s, tok |-> rq[r].next, access |-> TRUE]
<1>0. NoSession \notin Sessions /\ r \in Actors /\ rq[r].pc = "reply"
  BY ActorAssumption DEF Actors, Reply, At
<1>1. session' = session BY DEF Reply, rows
<1>2. /\ \A d \in Devices : cookie'[d] = IF d = dev THEN new ELSE cookie[d]
      /\ rq'[r] = Idle
      /\ \A q \in Requests \ {r} : rq'[q] = rq[q]
  BY <1>0 DEF Reply, Done, AccountInv, CookiesOK, CallsOK, Actors
<1>3. Calm(r)' /\ ~Opening(r)' /\ ~Renewing(r)'
  BY <1>0, <1>2 DEF Calm, Opening, Renewing, Idle, RefreshPCs
<1>4. \A q \in Requests : Renewing(q)' => q # r /\ Renewing(q) /\ rq'[q] = rq[q]
  BY <1>2, <1>3 DEF Renewing
<1>5. \A q \in Requests : Opening(q)' => q # r /\ Opening(q) /\ rq'[q] = rq[q]
  BY <1>2, <1>3 DEF Opening
<1>6. \/ rq[r].next = 0 /\ new = NoCookie
      \/ /\ Opening(r) \/ Renewing(r)
         /\ rq[r].next # 0 /\ rq[r].s \in Sessions
         /\ new = [s |-> rq[r].s, tok |-> rq[r].next, access |-> TRUE]
         /\ HasRow(rq[r].s) => rq[r].next = session[rq[r].s].current
  <2>1. CASE Calm(r) BY <2>1 DEF Calm
  <2>2. CASE Opening(r)
    BY <2>2 DEF Opening, OpeningInv, OpeningOK
  <2>3. CASE Renewing(r)
    BY <1>0, <2>3 DEF Renewing, RenewalInv, RenewalOK, At
  <2> QED BY <2>1, <2>2, <2>3 DEF KindsInv
<1>7. \A q \in Requests \ {r} : (Renewing(q) \/ Opening(q))
        /\ rq[r].next # 0 => rq[q].s # rq[r].s
  <2> SUFFICES ASSUME NEW q \in Requests \ {r}, Renewing(q) \/ Opening(q), rq[r].next # 0
               PROVE  rq[q].s # rq[r].s
    OBVIOUS
  <2>1. CASE Opening(q) BY <2>1 DEF OpeningInv, OpeningOK
  <2>2. CASE Opening(r) BY <2>2 DEF OpeningInv, OpeningOK
  <2>3. CASE Renewing(q) /\ Renewing(r)
    <3>1. PICK owner \in [Sessions -> Devices \cup {NoSession}] : OwnedBy(owner)
      BY DEF OwnerInv
    <3> QED BY <2>3, <3>1 DEF OwnedBy, OneRenewalInv, Renewing
  <2> QED BY <1>6, <2>1, <2>2, <2>3
<1>8. NoFalseReuse' BY <1>1 DEF NoFalseReuse
<1>9. KindsInv' BY <1>2, <1>3 DEF KindsInv, Calm, Opening, Renewing
<1>10. OneRenewalInv' BY <1>4 DEF OneRenewalInv
<1>11. OwnerInv'
  <2>1. PICK owner \in [Sessions -> Devices \cup {NoSession}] : OwnedBy(owner)
    BY DEF OwnerInv
  <2>2. \A d \in Devices : cookie'[d].s \in Sessions => owner[cookie'[d].s] = d
    BY <1>0, <1>2, <1>6, <2>1 DEF OwnedBy, NoCookie
  <2>3. \A q \in Requests : rq'[q].s \in Sessions => owner[rq'[q].s] = rq'[q].d
    BY <1>0, <1>2, <2>1 DEF OwnedBy, Idle
  <2> QED BY <2>2, <2>3 DEF OwnedBy, OwnerInv
<1>12. UnbornInv'
  <2> SUFFICES ASSUME NEW s \in Sessions, session[s].state = "none"
               PROVE  /\ \A d \in Devices : cookie'[d].s # s
                      /\ \A q \in Requests : rq'[q].s # s
    BY <1>1 DEF UnbornInv
  <2>1. \A d \in Devices : cookie'[d].s # s
    BY <1>0, <1>2, <1>6 DEF UnbornInv, NoCookie
  <2>2. \A q \in Requests : rq'[q].s # s
    BY <1>0, <1>2 DEF UnbornInv, Idle
  <2> QED BY <2>1, <2>2
<1>13. OpeningInv'
  <2> SUFFICES ASSUME NEW q \in Requests, Opening(q)'
               PROVE  OpeningOK(q)'
    BY DEF OpeningInv
  <2>1. q # r /\ Opening(q) /\ rq'[q] = rq[q] /\ OpeningOK(q) /\ rq[q].s \in Sessions
    BY <1>5 DEF OpeningInv, Opening
  <2>2. \A d \in Devices : cookie'[d].s # rq[q].s
    BY <1>0, <1>2, <1>6, <1>7, <2>1 DEF OpeningOK, NoCookie
  <2>3. \A p \in Requests \ {q} : rq'[p].s # rq[q].s
    BY <1>0, <1>2, <2>1 DEF OpeningOK, Idle
  <2> QED BY <1>1, <2>1, <2>2, <2>3 DEF OpeningOK, HasRow
<1>14. CookieInv'
  <2> SUFFICES ASSUME NEW d \in Devices
        PROVE  /\ cookie'[d].s \in Sessions => cookie'[d].tok # 0
               /\ cookie'[d].s \notin Sessions => cookie'[d].tok = 0 /\ ~cookie'[d].access
               /\ cookie'[d].s \in Sessions /\ HasRow(cookie'[d].s) =>
                    Accepts(cookie'[d].s, cookie'[d].tok)
    BY <1>1 DEF CookieInv, HasRow, Accepts
  <2>1. CASE d = dev
    BY <1>0, <1>2, <1>6, <2>1 DEF NoCookie, Accepts
  <2>2. CASE d # dev
    BY <1>2, <2>2 DEF CookieInv
  <2> QED BY <2>1, <2>2
<1>15. RenewalInv'
  <2> SUFFICES ASSUME NEW q \in Requests, Renewing(q)'
               PROVE  RenewalOK(q)'
    BY DEF RenewalInv
  <2>1. q # r /\ Renewing(q) /\ rq'[q] = rq[q] /\ RenewalOK(q) /\ rq[q].s \in Sessions
    BY <1>4 DEF RenewalInv, Renewing
  <2>2. \A d \in Devices : cookie'[d].s = rq[q].s => cookie'[d].tok = rq[q].tok
    BY <1>0, <1>2, <1>6, <1>7, <2>1 DEF RenewalOK, NoCookie
  <2> QED BY <1>1, <2>1, <2>2 DEF RenewalOK, HasRow, Accepts, At
<1> QED BY <1>8, <1>9, <1>10, <1>11, <1>12, <1>13, <1>14, <1>15

(* The grace time ends only when nobody holds the rotated token any more.   *)
LEMMA GraceEndsReuse ==
  ASSUME ReuseInv, AccountInv', OrderlyClients, NEW s \in Sessions, GraceEnds(s)
  PROVE  ReuseInv'
<1> USE DEF ReuseInv
<1>0. ~HeldBySomeone(s, session[s].previous)
  BY DEF GraceEnds, OrderlyClients
<1>1. /\ \A t \in Sessions : /\ session'[t].state = session[t].state
                             /\ session'[t].current = session[t].current
                             /\ session'[t].previous = session[t].previous
      /\ \A t \in Sessions \ {s} : session'[t] = session[t]
      /\ cookie' = cookie /\ rq' = rq
  BY DEF GraceEnds, AccountInv, SessionsOK, SessionRow
<1>2. \A t \in Sessions : HasRow(t)' <=> HasRow(t)
  BY <1>1 DEF HasRow
<1>3. NoFalseReuse' BY <1>1 DEF NoFalseReuse
<1>4. KindsInv' /\ OneRenewalInv'
  BY <1>1 DEF KindsInv, OneRenewalInv, Calm, Opening, Renewing
<1>5. OwnerInv' BY <1>1 DEF OwnerInv, OwnedBy
<1>6. UnbornInv' BY <1>1 DEF UnbornInv
<1>7. OpeningInv' BY <1>1, <1>2 DEF OpeningInv, OpeningOK, Opening
<1>8. CookieInv'
  <2> SUFFICES ASSUME NEW d \in Devices, cookie[d].s \in Sessions, HasRow(cookie[d].s)
               PROVE  Accepts(cookie[d].s, cookie[d].tok)'
    BY <1>1, <1>2 DEF CookieInv
  <2>1. Accepts(cookie[d].s, cookie[d].tok) BY DEF CookieInv
  <2> QED BY <1>0, <1>1, <2>1 DEF Accepts, HeldBySomeone
<1>9. RenewalInv'
  <2> SUFFICES ASSUME NEW q \in Requests, Renewing(q)
               PROVE  RenewalOK(q)'
    BY <1>1 DEF RenewalInv, Renewing
  <2>1. RenewalOK(q) /\ rq[q].s \in Sessions BY DEF RenewalInv, Renewing
  <2>2. rq[q].s = s => rq[q].tok # session[s].previous
    BY <1>0 DEF HeldBySomeone
  <2> QED BY <1>1, <1>2, <2>1, <2>2 DEF RenewalOK, Accepts, At
<1> QED BY <1>3, <1>4, <1>5, <1>6, <1>7, <1>8, <1>9

-----------------------------------------------------------------------------
LEMMA KeepAging == ASSUME UNCHANGED session PROVE Aging
  BY DEF Aging, HasRow

LEMMA EndAging ==
  ASSUME NEW why \in Ended \ {"replayed"}, EndSessions(why)
  PROVE  Aging
  BY DEF Aging, EndSessions, HasRow, Ended

LEMMA DoneCalm ==
  ASSUME AccountInv, NEW a \in Actors, Done(a)
  PROVE  \A r \in Requests : rq'[r] = rq[r] \/ Calm(r)'
  BY DEF AccountInv, CallsOK, Done, Calm, Idle, RefreshPCs, Actors

LEMMA GotoCalm ==
  ASSUME AccountInv, NEW a \in Actors, NEW pc, pc \notin RefreshPCs, Goto(a, pc),
         a \in Requests => Calm(a)
  PROVE  \A r \in Requests : rq'[r] = rq[r] \/ Calm(r)'
<1>1. \A r \in Requests : r # a => rq'[r] = rq[r]
  BY DEF AccountInv, CallsOK, Goto, Actors
<1>2. a \in Requests => Calm(a)'
  BY DEF AccountInv, CallsOK, CallState, Goto, Calm
<1> QED BY <1>1, <1>2

LEMMA StartCalm ==
  ASSUME AccountInv, NEW r \in Requests, NEW c,
         c.pc \notin RefreshPCs, c.s = NoSession, c.tok = 0, c.next = 0,
         rq' = [rq EXCEPT ![r] = c]
  PROVE  \A q \in Requests : rq'[q] = rq[q] \/ Calm(q)'
<1>1. rq'[r] = c
  BY DEF AccountInv, CallsOK, Actors
<1>2. Calm(r)' BY <1>1 DEF Calm
<1> QED BY <1>2 DEF AccountInv, CallsOK

(* A call that is not at one of the points of a renewal is calm.            *)
LEMMA AtCalm ==
  ASSUME KindsInv, NEW r \in Requests, rq[r].pc \notin RefreshPCs \cup {"reply"}
  PROVE  Calm(r)
  BY DEF KindsInv, Opening, Renewing, RefreshPCs

-----------------------------------------------------------------------------
(* The first step of a call.                                                *)
LEMMA CallReuse ==
  ASSUME ReuseInv, AccountInv', OrderlyClients,
         NEW r \in Requests, SessionCall(r) \/ DeletionCall(r)
  PROVE  ReuseInv'
<1>0. AccountInv /\ KindsInv /\ r \in Actors BY DEF ReuseInv, Actors
<1>1. ASSUME NEW d \in Devices, SignIn(r, d) PROVE ReuseInv'
  <2> DEFINE c == [Idle EXCEPT !.pc = "login:sweep", !.d = d]
  <2>1. c.pc = "login:sweep" /\ c.s = NoSession /\ c.tok = 0 /\ c.next = 0
    BY DEF Idle
  <2>2. \A q \in Requests : rq'[q] = rq[q] \/ Calm(q)'
    BY <1>0, <1>1, <2>1, StartCalm DEF SignIn, RefreshPCs
  <2>3. Aging BY <1>1, KeepAging DEF SignIn, rows
  <2> QED BY <1>1, <2>2, <2>3, CalmStep DEF SignIn
<1>2. ASSUME NEW d \in Devices, Refresh(r, d) PROVE ReuseInv'
  BY <1>2, RefreshReuse
<1>3. ASSUME NEW d \in Devices, Logout(r, d) PROVE ReuseInv'
  <2> DEFINE c == [Idle EXCEPT !.pc = "reply", !.d = d]
  <2>1. c.pc = "reply" /\ c.s = NoSession /\ c.tok = 0 /\ c.next = 0
    BY DEF Idle
  <2>2. \A q \in Requests : rq'[q] = rq[q] \/ Calm(q)'
    BY <1>0, <1>3, <2>1, StartCalm DEF Logout, RefreshPCs
  <2>3. Aging
    BY <1>0, <1>3 DEF Logout, Aging, HasRow, AccountInv, SessionsOK, SessionRow
  <2> QED BY <1>3, <2>2, <2>3, CalmStep DEF Logout
<1>4. ASSUME ForgotPassword(r) PROVE ReuseInv'
  <2> DEFINE c == [Idle EXCEPT !.pc = "forgotPassword:create"]
  <2>1. c.pc = "forgotPassword:create" /\ c.s = NoSession /\ c.tok = 0 /\ c.next = 0
    BY DEF Idle
  <2>2. \A q \in Requests : rq'[q] = rq[q] \/ Calm(q)'
    BY <1>0, <1>4, <2>1, StartCalm DEF ForgotPassword, RefreshPCs
  <2>3. Aging BY <1>4, KeepAging DEF ForgotPassword, rows
  <2> QED BY <1>4, <2>2, <2>3, CalmStep DEF ForgotPassword
<1>5. ASSUME NEW d \in Devices, NEW k \in ResetTokens, ResetPassword(r, d, k)
      PROVE  ReuseInv'
  <2> DEFINE c == [Idle EXCEPT !.pc = "resetPassword:write", !.d = d, !.k = k]
  <2>1. c.pc = "resetPassword:write" /\ c.s = NoSession /\ c.tok = 0 /\ c.next = 0
    BY DEF Idle
  <2>2. \A q \in Requests : rq'[q] = rq[q] \/ Calm(q)'
    BY <1>0, <1>5, <2>1, StartCalm DEF ResetPassword, RefreshPCs
  <2>3. Aging BY <1>5, KeepAging DEF ResetPassword, rows
  <2> QED BY <1>5, <2>2, <2>3, CalmStep DEF ResetPassword
<1>6. ASSUME NEW d \in Devices, RequestDeletion(r, d) \/ CancelDeletion(r, d)
      PROVE  ReuseInv'
  <2>1. Calm(r)
    BY <1>0, <1>6, AtCalm DEF RequestDeletion, CancelDeletion, At, RefreshPCs
  <2>2. \A q \in Requests : rq'[q] = rq[q] \/ Calm(q)'
    BY <1>0, <1>6, <2>1, GotoCalm DEF RequestDeletion, CancelDeletion, RefreshPCs
  <2>3. Aging BY <1>6, KeepAging DEF RequestDeletion, CancelDeletion, rows
  <2> QED BY <1>6, <2>2, <2>3, CalmStep DEF RequestDeletion, CancelDeletion
<1> QED BY <1>1, <1>2, <1>3, <1>4, <1>5, <1>6 DEF SessionCall, DeletionCall

(* The later steps of sign-in, refresh and password reset.                  *)
LEMMA SessionStepReuse ==
  ASSUME ReuseInv, AccountInv', OrderlyClients, NEW r \in Requests, SessionStep(r)
  PROVE  ReuseInv'
<1>0. AccountInv /\ KindsInv /\ r \in Actors BY DEF ReuseInv, Actors
<1>1. CASE SweepExpired(r)
  <2>1. Calm(r) BY <1>0, <1>1, AtCalm DEF SweepExpired, At, RefreshPCs
  <2>2. \A q \in Requests : rq'[q] = rq[q] \/ Calm(q)'
    BY <1>0, <1>1, <2>1, GotoCalm DEF SweepExpired, RefreshPCs
  <2>3. Aging BY <1>0, <1>1 DEF SweepExpired, Aging, HasRow
  <2> QED BY <1>1, <2>2, <2>3, CalmStep DEF SweepExpired
<1>2. CASE CreateSession(r) BY <1>2, CreateSessionReuse
<1>3. CASE ReadSession(r)
  <2>1. CASE Done(r)
    <3>1. \A q \in Requests : rq'[q] = rq[q] \/ Calm(q)'
      BY <1>0, <2>1, DoneCalm
    <3>2. Aging BY <1>3, KeepAging DEF ReadSession, rows
    <3> QED BY <1>3, <3>1, <3>2, CalmStep DEF ReadSession
  <2> QED BY <1>3, <2>1, ReadSessionReuse
<1>4. CASE Rotate(r) BY <1>4, RotateReuse
<1>5. CASE AcceptPrevious(r) BY <1>5, AcceptPreviousReuse
<1>6. CASE RevokeReplayed(r)
  <2>1. Renewing(r) /\ RenewalOK(r)
    BY <1>0, <1>6 DEF ReuseInv, KindsInv, RenewalInv, Calm, Opening, RevokeReplayed, At,
       RefreshPCs
  <2>2. ~HasRow(rq[r].s) BY <1>6, <2>1 DEF RenewalOK, RevokeReplayed
  <2>3. Aging BY <1>6, <2>2, KeepAging DEF RevokeReplayed
  <2>4. \A q \in Requests : rq'[q] = rq[q] \/ Calm(q)'
    BY <1>0, <1>6, DoneCalm DEF RevokeReplayed
  <2> QED BY <1>6, <2>3, <2>4, CalmStep DEF RevokeReplayed
<1>7. CASE Reply(r) BY <1>7, ReplyReuse
<1>8. CASE CreateResetToken(r)
  <2>1. \A q \in Requests : rq'[q] = rq[q] \/ Calm(q)'
    BY <1>0, <1>8, DoneCalm DEF CreateResetToken
  <2>2. Aging BY <1>8, KeepAging DEF CreateResetToken
  <2> QED BY <1>8, <2>1, <2>2, CalmStep DEF CreateResetToken
<1>9. CASE WritePassword(r)
  <2>1. Calm(r) BY <1>0, <1>9, AtCalm DEF WritePassword, At, RefreshPCs
  <2>2. \A q \in Requests : rq'[q] = rq[q] \/ Calm(q)'
    BY <1>0, <1>9, <2>1, GotoCalm, DoneCalm DEF WritePassword, RefreshPCs
  <2>3. CASE EndSessions("reset")
    BY <1>9, <2>2, <2>3, EndAging, CalmStep DEF WritePassword, Ended
  <2>4. CASE UNCHANGED rows
    BY <1>9, <2>2, <2>4, KeepAging, CalmStep DEF WritePassword, rows
  <2> QED BY <1>9, <2>3, <2>4 DEF WritePassword
<1> QED BY <1>1, <1>2, <1>3, <1>4, <1>5, <1>6, <1>7, <1>8, <1>9 DEF SessionStep

(* Status writes, sweeps, time and abandoned calls.                         *)
LEMMA OtherReuse ==
  ASSUME ReuseInv, AccountInv', OrderlyClients,
         \/ \E r \in Requests : DeletionStep(r)
         \/ \E status \in {"ACTIVE", "BANNED"} : SetStatus(status)
         \/ \E a \in Sweepers : Sweep(a) \/ AnonymizeUser(a)
         \/ \E a \in Actors : Abandon(a)
         \/ Clock
  PROVE  ReuseInv'
<1>0. AccountInv BY DEF ReuseInv
<1>1. ASSUME NEW r \in Requests, DeletionStep(r) PROVE ReuseInv'
  <2>1. \A q \in Requests : rq'[q] = rq[q] \/ Calm(q)'
    BY <1>0, <1>1, DoneCalm DEF DeletionStep, WriteDeletion, WriteCancellation, Actors
  <2>2. Aging BY <1>1, KeepAging DEF DeletionStep, WriteDeletion, WriteCancellation
  <2> QED BY <1>1, <2>1, <2>2, CalmStep DEF DeletionStep, WriteDeletion, WriteCancellation
<1>2. ASSUME NEW status \in {"ACTIVE", "BANNED"}, SetStatus(status) PROVE ReuseInv'
  <2>1. Aging BY <1>2, EndAging, KeepAging DEF SetStatus, Ended
  <2> QED BY <1>2, <2>1, CalmStep DEF SetStatus
<1>3. ASSUME NEW a \in Sweepers, Sweep(a) PROVE ReuseInv'
  <2>1. \A q \in Requests : rq'[q] = rq[q] \/ Calm(q)'
    BY <1>0, <1>3, ActorAssumption, GotoCalm DEF Sweep, RefreshPCs, Actors
  <2>2. Aging BY <1>3, KeepAging DEF Sweep, rows
  <2> QED BY <1>3, <2>1, <2>2, CalmStep DEF Sweep
<1>4. ASSUME NEW a \in Sweepers, AnonymizeUser(a) PROVE ReuseInv'
  <2>1. \A q \in Requests : rq'[q] = rq[q] \/ Calm(q)'
    BY <1>0, <1>4, DoneCalm DEF AnonymizeUser, Actors
  <2>2. Aging BY <1>4, EndAging DEF AnonymizeUser, Ended
  <2> QED BY <1>4, <2>1, <2>2, CalmStep DEF AnonymizeUser
<1>5. ASSUME NEW a \in Actors, Abandon(a) PROVE ReuseInv'
  <2>1. \A q \in Requests : rq'[q] = rq[q] \/ Calm(q)'
    BY <1>0, <1>5, DoneCalm DEF Abandon
  <2>2. Aging BY <1>5, KeepAging DEF Abandon, rows
  <2> QED BY <1>5, <2>1, <2>2, CalmStep DEF Abandon
<1>6. ASSUME DatePasses PROVE ReuseInv'
  BY <1>6, KeepAging, CalmStep DEF DatePasses
<1>7. ASSUME NEW s \in Sessions, Expire(s) PROVE ReuseInv'
  <2>1. Aging
    BY <1>0, <1>7 DEF Expire, Aging, HasRow, AccountInv, SessionsOK, SessionRow
  <2> QED BY <1>7, <2>1, CalmStep DEF Expire
<1>8. ASSUME NEW s \in Sessions, GraceEnds(s) PROVE ReuseInv'
  BY <1>8, GraceEndsReuse
<1>9. ASSUME NEW d \in Devices, AccessExpires(d) PROVE ReuseInv'
  <2>1. \A c \in Devices : /\ cookie'[c].s = cookie[c].s /\ cookie'[c].tok = cookie[c].tok
                            /\ cookie'[c].access => cookie[c].access
    BY <1>0, <1>9 DEF AccessExpires, AccountInv, CookiesOK, Cookie
  <2>2. Aging BY <1>9, KeepAging DEF AccessExpires, rows
  <2> QED BY <1>9, <2>1, <2>2, CalmStep DEF AccessExpires
<1> QED BY <1>1, <1>2, <1>3, <1>4, <1>5, <1>6, <1>7, <1>8, <1>9 DEF Clock

LEMMA ReuseStep ==
  ASSUME ReuseInv, OrderlyClients, [AccountNext]_accountVars
  PROVE  ReuseInv'
<1>1. AccountInv' BY AccountStepKeeps DEF ReuseInv
<1>2. CASE AccountNext
  BY <1>1, <1>2, CallReuse, SessionStepReuse, OtherReuse DEF AccountNext
<1>3. CASE UNCHANGED accountVars
  BY <1>1, <1>3, KeepAging, CalmStep DEF accountVars
<1> QED BY <1>2, <1>3

(* A browser that has one refresh in flight at a time, and presents a token *)
(* that was rotated out again within the grace time, is never taken for a   *)
(* thief, whatever answers get lost and whatever else happens to the        *)
(* account (rotateSession, auth.service.ts).                                *)
THEOREM OrderlyClientsStaySignedIn ==
  ASSUME OrderlyClients
  PROVE  AccountSpec => []NoFalseReuse
<1>1. ReuseInv /\ [AccountNext]_accountVars => ReuseInv'
  BY ReuseStep
<1>2. ReuseInv => NoFalseReuse BY DEF ReuseInv
<1> QED BY ReuseInvInit, <1>1, <1>2, PTL DEF AccountSpec
=============================================================================
