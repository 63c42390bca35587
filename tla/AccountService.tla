---------------------------- MODULE AccountService ----------------------------
(***************************************************************************)
(* One customer account (modules/auth, modules/account, modules/customer):  *)
(* its sign-in sessions, whose refresh tokens rotate, and its life cycle:   *)
(* ban, scheduled deletion with a grace window, and the sweep that scrubs   *)
(* the personal data.  Every step is one await of the code, so the calls of *)
(* several devices, tabs, admins and sweeps interleave between them.        *)
(***************************************************************************)
EXTENDS Naturals, FiniteSets

CONSTANTS
  Devices,      (* browsers; the tabs of one share its cookies              *)
  Sessions,     (* bound: the sessions that may ever be opened              *)
  ResetTokens,  (* bound: the password reset links that may ever be mailed  *)
  MaxToken,     (* bound: the refresh tokens that may ever be signed        *)
  Tabs,         (* bound: the refreshes one device has in flight            *)
  Requests,     (* the API calls in progress                                *)
  Sweepers,     (* the nightly cron and the on-demand runs of the sweep     *)
  Calls,        (* the API calls made                                       *)
  SlowClients,  (* may a client sit on a rotated token past the grace time? *)
  NoSession     (* what a device without cookies holds                      *)

ASSUME BoundAssumption == MaxToken \in Nat /\ Tabs \in Nat /\ SlowClients \in BOOLEAN
ASSUME ActorAssumption == Requests \cap Sweepers = {} /\ NoSession \notin Sessions

VARIABLES
  user,     (* the User row: status, deletionScheduledAt against the clock,  *)
            (* whether it has a password, and whether its data is scrubbed   *)
  session,  (* session[s]: the RefreshSession row, or how it ended           *)
  reset,    (* reset[k]: the PasswordResetToken row                          *)
  cookie,   (* cookie[d]: the session and refresh token in d's cookies, and  *)
            (* whether the access token next to them is still valid          *)
  signed,   (* how many refresh tokens were signed                           *)
  rq        (* rq[a]: where the call a is, and its locals                    *)

accountVars == <<user, session, reset, cookie, signed, rq>>
rows == <<user, session, reset>>

Actors == Requests \cup Sweepers

UserStatus == {"ACTIVE", "BANNED", "PENDING_DELETION", "DELETED"}

(* JwtStrategy and refresh refuse these.                                    *)
REVOKED_STATUSES == {"BANNED", "DELETED"}

Ended == {"swept", "loggedOut", "reset", "banned", "erased", "replayed"}

NoCookie == [s |-> NoSession, tok |-> 0, access |-> FALSE]

Idle == [pc |-> "idle", d |-> NoSession, s |-> NoSession, tok |-> 0, next |-> 0,
         k |-> NoSession]

AccountInit ==
  /\ user = [status |-> "ACTIVE", due |-> "none", password |-> TRUE, scrubbed |-> FALSE]
  /\ session = [s \in Sessions |->
                  [state |-> "none", current |-> 0, previous |-> 0, grace |-> FALSE]]
  /\ reset = [k \in ResetTokens |-> "none"]
  /\ cookie = [d \in Devices |-> NoCookie]
  /\ signed = 0
  /\ rq = [a \in Actors |-> Idle]

At(a, pc) == rq[a].pc = pc
Goto(a, pc) == rq' = [rq EXCEPT ![a].pc = pc]
Done(a) == rq' = [rq EXCEPT ![a] = Idle]

HasRow(s) == session[s].state \in {"live", "expired"}

(* Deletes every session row of the account.                                *)
EndSessions(why) ==
  session' = [s \in Sessions |->
                IF HasRow(s) THEN [session[s] EXCEPT !.state = why] ELSE session[s]]

-----------------------------------------------------------------------------
(* Sign-in: validateUser reads the account, issueTokens then sweeps expired *)
(* sessions and opens a new one.                                            *)
SignIn(r, d) ==
  /\ At(r, "idle")
  /\ user.password /\ user.status # "BANNED"
  /\ rq' = [rq EXCEPT ![r] = [Idle EXCEPT !.pc = "login:sweep", !.d = d]]
  /\ UNCHANGED <<rows, cookie, signed>>

SweepExpired(r) ==
  /\ At(r, "login:sweep")
  /\ session' = [s \in Sessions |->
                   IF session[s].state = "expired"
                   THEN [session[s] EXCEPT !.state = "swept"] ELSE session[s]]
  /\ Goto(r, "login:create")
  /\ UNCHANGED <<user, reset, cookie, signed>>

CreateSession(r) ==
  /\ At(r, "login:create")
  /\ signed < MaxToken
  /\ \E s \in Sessions :
       /\ session[s].state = "none"
       /\ session' = [session EXCEPT ![s] =
            [state |-> "live", current |-> signed + 1, previous |-> 0, grace |-> FALSE]]
       /\ rq' = [rq EXCEPT ![r].pc = "reply", ![r].s = s, ![r].next = signed + 1]
  /\ signed' = signed + 1
  /\ UNCHANGED <<user, reset, cookie>>

-----------------------------------------------------------------------------
Refreshing(d) == {r \in Requests : ~At(r, "idle") /\ rq[r].d = d /\ rq[r].tok # 0}

(* refresh: the gates on the account, then the session, then the writes of  *)
(* rotateSession.  A tab refreshes when its access token was refused, with  *)
(* the refresh token the cookie jar holds by now.                           *)
Refresh(r, d) ==
  /\ At(r, "idle")
  /\ cookie[d] # NoCookie /\ ~cookie[d].access
  /\ Cardinality(Refreshing(d)) < Tabs
  /\ user.status \notin REVOKED_STATUSES
  /\ rq' = [rq EXCEPT ![r] = [Idle EXCEPT !.pc = "refresh:read", !.d = d,
                                !.s = cookie[d].s, !.tok = cookie[d].tok]]
  /\ UNCHANGED <<rows, cookie, signed>>

ReadSession(r) ==
  LET row == session[rq[r].s] IN
  /\ At(r, "refresh:read")
  /\ \/ /\ row.state = "live"
        /\ signed < MaxToken
        /\ signed' = signed + 1
        /\ rq' = [rq EXCEPT ![r].next = signed + 1,
                            ![r].pc = IF row.current = rq[r].tok
                                      THEN "refresh:rotate" ELSE "refresh:grace"]
     \/ /\ row.state # "live"
        /\ Done(r)
        /\ UNCHANGED signed
  /\ UNCHANGED <<rows, cookie>>

(* Mutant: an upsert, which brings a row back that was deleted meanwhile.    *)
Rotate_mutant(r) ==
  LET s == rq[r].s IN
  /\ At(r, "refresh:rotate")
  /\ session' = [session EXCEPT ![s] = [state |-> "live", current |-> rq[r].next,
                                        previous |-> rq[r].tok, grace |-> TRUE]]
  /\ Goto(r, "reply")
  /\ UNCHANGED <<user, reset, cookie, signed>>

(* Only the first of two concurrent rotations still finds its token current. *)
Rotate(r) ==
  LET s == rq[r].s IN
  /\ At(r, "refresh:rotate")
  /\ \/ /\ HasRow(s) /\ session[s].current = rq[r].tok
        /\ session' = [session EXCEPT ![s] =
             [state |-> "live", current |-> rq[r].next, previous |-> rq[r].tok,
              grace |-> TRUE]]
        /\ Goto(r, "reply")
     \/ /\ ~(HasRow(s) /\ session[s].current = rq[r].tok)
        /\ Goto(r, "refresh:grace")
        /\ UNCHANGED session
  /\ UNCHANGED <<user, reset, cookie, signed>>

(* Mutant: no grace for a token that was rotated out a moment ago.          *)
AcceptPrevious_mutant(r) ==
  /\ At(r, "refresh:grace")
  /\ Goto(r, "refresh:revoke")
  /\ UNCHANGED <<rows, cookie, signed>>

AcceptPrevious(r) ==
  LET s == rq[r].s
      accepted == HasRow(s) /\ session[s].previous = rq[r].tok /\ session[s].grace
  IN
  /\ At(r, "refresh:grace")
  /\ \/ /\ accepted
        /\ session' = [session EXCEPT ![s].state = "live", ![s].current = rq[r].next]
        /\ Goto(r, "reply")
     \/ /\ ~accepted
        /\ Goto(r, "refresh:revoke")
        /\ UNCHANGED session
  /\ UNCHANGED <<user, reset, cookie, signed>>

(* Reuse detection.                                                         *)
RevokeReplayed(r) ==
  /\ At(r, "refresh:revoke")
  /\ session' = IF HasRow(rq[r].s)
                THEN [session EXCEPT ![rq[r].s].state = "replayed"] ELSE session
  /\ Done(r)
  /\ UNCHANGED <<user, reset, cookie, signed>>

(* The answer of a sign-in, a refresh or a logout reaches the browser, which *)
(* overwrites or clears its cookies; answers may overtake each other.       *)
Reply(r) ==
  /\ At(r, "reply")
  /\ cookie' = [cookie EXCEPT ![rq[r].d] =
                  IF rq[r].next = 0 THEN NoCookie
                  ELSE [s |-> rq[r].s, tok |-> rq[r].next, access |-> TRUE]]
  /\ Done(r)
  /\ UNCHANGED <<rows, signed>>

(* logout ends the session of the device it is called from.                 *)
Logout(r, d) ==
  LET s == cookie[d].s IN
  /\ At(r, "idle")
  /\ cookie[d] # NoCookie
  /\ session' = IF HasRow(s) THEN [session EXCEPT ![s].state = "loggedOut"] ELSE session
  /\ rq' = [rq EXCEPT ![r] = [Idle EXCEPT !.pc = "reply", !.d = d]]
  /\ UNCHANGED <<user, reset, cookie, signed>>

-----------------------------------------------------------------------------
(* forgotPassword finds the account by its address, which a scrubbed one no *)
(* longer has; the token is inserted afterwards.                            *)
ForgotPassword(r) ==
  /\ At(r, "idle")
  /\ ~user.scrubbed
  /\ rq' = [rq EXCEPT ![r] = [Idle EXCEPT !.pc = "forgotPassword:create"]]
  /\ UNCHANGED <<rows, cookie, signed>>

CreateResetToken(r) ==
  /\ At(r, "forgotPassword:create")
  /\ \E k \in ResetTokens :
       /\ reset[k] = "none"
       /\ reset' = [reset EXCEPT ![k] = "unused"]
  /\ Done(r)
  /\ UNCHANGED <<user, session, cookie, signed>>

ResetPassword(r, d, k) ==
  /\ At(r, "idle")
  /\ reset[k] = "unused"
  /\ rq' = [rq EXCEPT ![r] = [Idle EXCEPT !.pc = "resetPassword:write", !.d = d, !.k = k]]
  /\ UNCHANGED <<rows, cookie, signed>>

(* One transaction; it fails as a whole when the token's row is gone, and   *)
(* the answer to a successful one clears the cookies.                       *)
WritePassword(r) ==
  LET k == rq[r].k IN
  /\ At(r, "resetPassword:write")
  /\ \/ /\ reset[k] # "deleted"
        /\ user' = [user EXCEPT !.password = TRUE]
        /\ reset' = [reset EXCEPT ![k] = "used"]
        /\ EndSessions("reset")
        /\ Goto(r, "reply")
     \/ /\ reset[k] = "deleted"
        /\ Done(r)
        /\ UNCHANGED rows
  /\ UNCHANGED <<cookie, signed>>

-----------------------------------------------------------------------------
(* The guard in front of the account endpoints (JwtStrategy.validate).      *)
SignedIn(d) ==
  /\ cookie[d].access /\ HasRow(cookie[d].s)
  /\ user.status \notin REVOKED_STATUSES

(* requestDeletion and cancelDeletion read the status and then write by id. *)
RequestDeletion(r, d) ==
  /\ At(r, "idle")
  /\ SignedIn(d) /\ user.status = "ACTIVE"
  /\ Goto(r, "requestDeletion:write")
  /\ UNCHANGED <<rows, cookie, signed>>

WriteDeletion(r) ==
  /\ At(r, "requestDeletion:write")
  /\ user' = [user EXCEPT !.status = "PENDING_DELETION", !.due = "future"]
  /\ Done(r)
  /\ UNCHANGED <<session, reset, cookie, signed>>

CancelDeletion(r, d) ==
  /\ At(r, "idle")
  /\ SignedIn(d) /\ user.status = "PENDING_DELETION"
  /\ Goto(r, "cancelDeletion:write")
  /\ UNCHANGED <<rows, cookie, signed>>

WriteCancellation(r) ==
  /\ At(r, "cancelDeletion:write")
  /\ user' = [user EXCEPT !.status = "ACTIVE", !.due = "none"]
  /\ Done(r)
  /\ UNCHANGED <<session, reset, cookie, signed>>

(* CustomerService.setStatus: an admin bans or reactivates, whatever the    *)
(* status is; a ban drops the sessions in the same statement.               *)
SetStatus(status) ==
  /\ user' = [user EXCEPT !.status = status]
  /\ \/ status = "BANNED" /\ EndSessions("banned")
     \/ status = "ACTIVE" /\ UNCHANGED session
  /\ UNCHANGED <<reset, cookie, signed, rq>>

-----------------------------------------------------------------------------
(* Mutant: looks for dates still to come.                                   *)
Sweep_mutant(a) ==
  /\ At(a, "idle")
  /\ user.status = "PENDING_DELETION" /\ user.due = "future"
  /\ Goto(a, "anonymizeUser")
  /\ UNCHANGED <<rows, cookie, signed>>

(* anonymizeExpired lists the accounts that are due, then scrubs each in a  *)
(* transaction of its own, which does not look at the status again.         *)
Sweep(a) ==
  /\ At(a, "idle")
  /\ user.status = "PENDING_DELETION" /\ user.due = "past"
  /\ Goto(a, "anonymizeUser")
  /\ UNCHANGED <<rows, cookie, signed>>

AnonymizeUser(a) ==
  /\ At(a, "anonymizeUser")
  /\ user' = [status |-> "DELETED", due |-> "none", password |-> FALSE, scrubbed |-> TRUE]
  /\ reset' = [k \in ResetTokens |-> IF reset[k] = "none" THEN "none" ELSE "deleted"]
  /\ EndSessions("erased")
  /\ Done(a)
  /\ UNCHANGED <<cookie, signed>>

-----------------------------------------------------------------------------
(* Time: the deletion date, which no call that is writing one outlasts.     *)
DatePasses ==
  /\ user.due = "future"
  /\ \A r \in Requests : ~At(r, "requestDeletion:write")
  /\ user' = [user EXCEPT !.due = "past"]
  /\ UNCHANGED <<session, reset, cookie, signed, rq>>

Expire(s) ==
  /\ session[s].state = "live"
  /\ session' = [session EXCEPT ![s].state = "expired"]
  /\ UNCHANGED <<user, reset, cookie, signed, rq>>

(* An access token lives for a day, which outlasts any refresh.             *)
AccessExpires(d) ==
  /\ cookie[d].access /\ Refreshing(d) = {}
  /\ cookie' = [cookie EXCEPT ![d].access = FALSE]
  /\ UNCHANGED <<rows, signed, rq>>

HeldBySomeone(s, tok) ==
  \/ \E d \in Devices : cookie[d].s = s /\ cookie[d].tok = tok
  \/ \E r \in Requests : rq[r].s = s /\ rq[r].tok = tok

(* REFRESH_GRACE_MS have passed; unless clients are slow, whoever still     *)
(* holds the rotated token has presented it, and was answered, before.      *)
GraceEnds(s) ==
  /\ session[s].grace
  /\ SlowClients \/ ~HeldBySomeone(s, session[s].previous)
  /\ session' = [session EXCEPT ![s].grace = FALSE]
  /\ UNCHANGED <<user, reset, cookie, signed, rq>>

(* A call goes no further: its answer is lost, the server restarts, or its  *)
(* transaction fails.                                                       *)
Abandon(a) ==
  /\ ~At(a, "idle")
  /\ Done(a)
  /\ UNCHANGED <<rows, cookie, signed>>

-----------------------------------------------------------------------------
SessionCall(r) ==
  \/ \E d \in Devices :
       \/ "login" \in Calls /\ SignIn(r, d)
       \/ "refresh" \in Calls /\ Refresh(r, d)
       \/ "logout" \in Calls /\ Logout(r, d)
       \/ "resetPassword" \in Calls /\ \E k \in ResetTokens : ResetPassword(r, d, k)
  \/ "resetPassword" \in Calls /\ ForgotPassword(r)

DeletionCall(r) ==
  /\ "deletion" \in Calls
  /\ \E d \in Devices : RequestDeletion(r, d) \/ CancelDeletion(r, d)

SessionStep(r) ==
  \/ SweepExpired(r) \/ CreateSession(r)
  \/ ReadSession(r) \/ Rotate(r) \/ AcceptPrevious(r) \/ RevokeReplayed(r)
  \/ Reply(r) \/ CreateResetToken(r) \/ WritePassword(r)

DeletionStep(r) == WriteDeletion(r) \/ WriteCancellation(r)

Clock ==
  \/ DatePasses
  \/ \E s \in Sessions : Expire(s) \/ GraceEnds(s)
  \/ \E d \in Devices : AccessExpires(d)

AccountNext ==
  \/ \E r \in Requests : SessionCall(r) \/ DeletionCall(r) \/ SessionStep(r) \/ DeletionStep(r)
  \/ "setStatus" \in Calls /\ \E status \in {"ACTIVE", "BANNED"} : SetStatus(status)
  \/ \E a \in Sweepers : Sweep(a) \/ AnonymizeUser(a)
  \/ \E a \in Actors : Abandon(a)
  \/ Clock

AccountSpec == AccountInit /\ [][AccountNext]_accountVars

(* The sweep runs every night, and not every one of its transactions fails. *)
SweepFairness ==
  \A a \in Sweepers : WF_accountVars(Sweep(a)) /\ SF_accountVars(AnonymizeUser(a))

FairAccountSpec == AccountSpec /\ SweepFairness

-----------------------------------------------------------------------------
(* The rows have their types, and an account waits for deletion only with a *)
(* date, which the sweep needs, whoever wrote the status last.              *)
AccountTypeOK ==
  /\ user \in [status : UserStatus, due : {"none", "future", "past"},
               password : BOOLEAN, scrubbed : BOOLEAN]
  /\ user.status = "PENDING_DELETION" => user.due # "none"
  /\ session \in [Sessions -> [state : {"none", "live", "expired"} \cup Ended,
                               current : 0..MaxToken, previous : 0..MaxToken,
                               grace : BOOLEAN]]
  /\ reset \in [ResetTokens -> {"none", "unused", "used", "deleted"}]
  /\ cookie \in [Devices -> [s : Sessions \cup {NoSession}, tok : 0..MaxToken,
                           access : BOOLEAN]]
  /\ signed \in 0..MaxToken

(* A session that was logged out, reset, banned, erased or revoked never    *)
(* comes back, also not by a refresh that was half way when it ended.       *)
EndedSessionsStayEnded ==
  [][\A s \in Sessions : session[s].state \in Ended =>
                           session'[s].state = session[s].state]_accountVars

(* Reuse detection never mistakes a browser that only presents what is in   *)
(* its cookies for a thief, although answers get lost on the way.           *)
NoFalseReuse == \A s \in Sessions : session[s].state # "replayed"

(* A deletion whose date has passed is carried out, unless the account left *)
(* PENDING_DELETION otherwise, although sweeps fail and servers restart.    *)
DeletionSettles ==
  (user.status = "PENDING_DELETION" /\ user.due = "past")
    ~> (user.status # "PENDING_DELETION")

(* Deletion tests: "the daily job anonymizes exactly the accounts whose     *)
(* window has elapsed": data is only scrubbed on a deletion that is due.    *)
ErasureOnlyWhenDue ==
  [][user'.scrubbed /\ ~user.scrubbed =>
       user.status = "PENDING_DELETION" /\ user.due = "past"]_accountVars
=============================================================================
