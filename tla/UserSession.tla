----------------------------- MODULE UserSession -----------------------------
(***************************************************************************)
(* The signed-in user of a local agent: the row local_cloud_identity with  *)
(* its token, the calls that rewrite it (src/cloud/UserTokenManager.ts,    *)
(* src/enrollment), and the refresh tokens the control plane has issued    *)
(* (apps/control-plane/src/auth/AuthService.ts).                           *)
(*                                                                         *)
(* A refresh token is good for one refresh, and until the admin disables   *)
(* its user (admin/AdminRoutes.ts).  Every call reads the row, awaits the  *)
(* control plane, and writes its own columns over whatever the row has     *)
(* become; refreshes of a profile share one call in flight.                *)
(***************************************************************************)
EXTENDS FiniteSets

CONSTANTS
  Users,
  Tokens,       \* refresh tokens the control plane may issue
  CloudCalls,   \* calls of the agent that may be in flight
  NoUser,
  NoToken

ASSUME UserConstants == NoUser \notin Users /\ NoToken \notin Tokens

VARIABLES
  issued,      \* refresh_tokens: the state of each token, and its user
  profile,     \* local_cloud_identity
  cloudCall,   \* each call in flight: what it read, and what it was answered
  presented,   \* tokens of abandoned refreshes the control plane may still serve
  disabled,    \* users whose status is 'disabled', which nothing takes back
  spoiled      \* history: a logout, or a refresh nobody took the answer of

userVars == <<issued, profile, cloudCall, presented, disabled, spoiled>>

SignedOut == [user |-> NoUser, token |-> NoToken, device |-> NoUser, status |-> "disconnected"]
NoCloudCall ==
  [kind |-> "none", at |-> "idle", user |-> NoUser, token |-> NoToken, status |-> "disconnected"]
ProfileStatus == {"disconnected", "authenticated", "enrolled"}

UserTypeOK ==
  /\ issued \in [Tokens -> [state : {"unused", "live", "revoked"}, user : Users \cup {NoUser}]]
  /\ profile \in [user : Users \cup {NoUser}, token : Tokens \cup {NoToken},
                  device : Users \cup {NoUser}, status : ProfileStatus]
  /\ cloudCall \in [CloudCalls -> [kind : {"none", "login", "refresh", "enroll", "logout"},
                                   at : {"idle", "waiting", "sent", "allowed", "served"},
                                   user : Users \cup {NoUser}, token : Tokens \cup {NoToken},
                                   status : ProfileStatus]]
  /\ presented \subseteq Tokens /\ disabled \subseteq Users
  /\ spoiled \in BOOLEAN

UserInit ==
  /\ issued = [t \in Tokens |-> [state |-> "unused", user |-> NoUser]]
  /\ profile = SignedOut
  /\ cloudCall = [k \in CloudCalls |-> NoCloudCall]
  /\ presented = {} /\ disabled = {}
  /\ spoiled = FALSE

-----------------------------------------------------------------------------

IdleCall(k) == cloudCall[k].kind = "none"
In(k, kind, place) == cloudCall[k].kind = kind /\ cloudCall[k].at = place
Begins(k, kind, place, user, token) ==
  cloudCall' = [cloudCall EXCEPT ![k] =
                 [kind |-> kind, at |-> place, user |-> user, token |-> token,
                  status |-> IF kind = "refresh" THEN profile.status ELSE "disconnected"]]
Finished(k) == cloudCall' = [cloudCall EXCEPT ![k] = NoCloudCall]
Answer(k, t) == cloudCall' = [cloudCall EXCEPT ![k].at = "served", ![k].token = t]

Issue(t, u) ==
  /\ issued[t].state = "unused"
  /\ issued' = [issued EXCEPT ![t] = [state |-> "live", user |-> u]]

\* Revoke the old, insert the new.
Rotate(old, new) ==
  /\ issued[new].state = "unused"
  /\ issued' = [issued EXCEPT ![old].state = "revoked",
                              ![new] = [state |-> "live", user |-> issued[old].user]]

\* The transaction of refreshAccessToken has the row locked, from its checks on.
Locked(t) == \E k \in CloudCalls : In(k, "refresh", "allowed") /\ cloudCall[k].token = t
Refusable(t) == issued[t].state = "revoked" \/ issued[t].user \in disabled
Usable(t) == issued[t].state = "live" /\ ~Refusable(t) /\ ~Locked(t)

Refreshing == \E k \in CloudCalls : cloudCall[k].kind = "refresh"

-----------------------------------------------------------------------------
(* The control plane lets a call in: login, refreshAccessToken and         *)
(* requireUserAuth look whether the user is active, and go on with it      *)
(* whatever the admin does meanwhile.                                      *)

LetIn(k) ==
  /\ cloudCall[k].at = "sent"
  /\ \/ cloudCall[k].kind \in {"login", "enroll"} /\ cloudCall[k].user \notin disabled
     \/ cloudCall[k].kind = "refresh" /\ Usable(cloudCall[k].token)
  /\ cloudCall' = [cloudCall EXCEPT ![k].at = "allowed"]
  /\ UNCHANGED <<issued, profile, presented, disabled, spoiled>>

\* Revokes the tokens there are.  Where a refresh has locked one, the update waits, does
\* not see what the refresh inserts, and leaves it live: here the refresh is let in
\* before and rotates after.
DisableUser(u) ==
  /\ disabled' = disabled \cup {u}
  /\ issued' = [t \in Tokens |->
                 IF issued[t].user = u /\ issued[t].state = "live"
                 THEN [issued[t] EXCEPT !.state = "revoked"] ELSE issued[t]]
  /\ UNCHANGED <<profile, cloudCall, presented, spoiled>>

-----------------------------------------------------------------------------
(* DeviceEnrollmentService.login *)

Login(k, u) ==
  /\ IdleCall(k)
  /\ Begins(k, "login", "sent", u, NoToken)
  /\ UNCHANGED <<issued, profile, presented, disabled, spoiled>>

ServeLogin(k) ==
  /\ In(k, "login", "allowed")
  /\ \E t \in Tokens : Issue(t, cloudCall[k].user) /\ Answer(k, t)
  /\ UNCHANGED <<profile, presented, disabled, spoiled>>

\* The device is forgotten; refreshes and enrollments in flight are not.
LoggedIn(k) ==
  /\ In(k, "login", "served")
  /\ profile' = [user |-> cloudCall[k].user, token |-> cloudCall[k].token,
                 device |-> NoUser, status |-> "authenticated"]
  /\ spoiled' = (spoiled /\ Refreshing)
  /\ Finished(k)
  /\ UNCHANGED <<issued, presented, disabled>>

-----------------------------------------------------------------------------
(* UserTokenManager *)

\* refreshLocks: a caller that finds a refresh in flight awaits that one.
MayRefresh_each_its_own == TRUE
MayRefresh == ~Refreshing

Refresh(k) ==
  /\ IdleCall(k)
  /\ MayRefresh
  /\ profile.token # NoToken
  /\ Begins(k, "refresh", "sent", NoUser, profile.token)
  /\ UNCHANGED <<issued, profile, presented, disabled, spoiled>>

ServeRefresh(k) ==
  /\ In(k, "refresh", "allowed")
  /\ \E t \in Tokens : Rotate(cloudCall[k].token, t) /\ Answer(k, t)
  /\ UNCHANGED <<profile, presented, disabled, spoiled>>

\* The token, and the status from before the await, over whatever is there now.
Refreshed(k) ==
  /\ In(k, "refresh", "served")
  /\ profile' = [profile EXCEPT
                   !.token = cloudCall[k].token,
                   !.status = IF cloudCall[k].status = "disconnected" THEN "authenticated"
                              ELSE cloudCall[k].status]
  /\ Finished(k)
  /\ UNCHANGED <<issued, presented, disabled, spoiled>>

\* The caller of a refresh that failed may clear the tokens, those the row has by now,
\* and sets the status that it had read (resolveUserAuthStatus) or reads again
\* (runUserCloudRequest).
RefreshFailed(k) ==
  /\ \/ UNCHANGED profile
     \/ \E s \in {cloudCall[k].status, profile.status} :
          profile' = [profile EXCEPT !.token = NoToken, !.status = s]
  /\ Finished(k)
  /\ UNCHANGED <<issued, disabled>>

\* A token that has expired is refused too: to the agent it did not arrive.
RefreshRefused(k) ==
  /\ In(k, "refresh", "sent")
  /\ Refusable(cloudCall[k].token)
  /\ RefreshFailed(k)
  /\ UNCHANGED <<presented, spoiled>>

\* Not answered: it did not arrive, it will be served after all, or it was.
RefreshUnanswered(k) ==
  /\ cloudCall[k].kind = "refresh"
  /\ \/ /\ cloudCall[k].at \in {"sent", "allowed"}
        /\ UNCHANGED <<presented, spoiled>>
     \/ /\ cloudCall[k].at \in {"sent", "allowed"}
        /\ presented' = presented \cup {cloudCall[k].token}
        /\ spoiled' = TRUE
     \/ /\ cloudCall[k].at = "served"
        /\ spoiled' = TRUE
        /\ UNCHANGED presented
  /\ RefreshFailed(k)

\* Nobody takes what it inserts, whether or not a disable overlaps it.
ServePresented(t) ==
  /\ t \in presented
  /\ presented' = presented \ {t}
  /\ \/ Refusable(t) /\ UNCHANGED issued
     \/ Usable(t) /\ \E new \in Tokens : Rotate(t, new)
  /\ UNCHANGED <<profile, cloudCall, disabled, spoiled>>

-----------------------------------------------------------------------------
(* server.ts: what it writes without a call of its own *)

\* runUserCloudRequest, when the control plane refuses an access token, a refreshed one
\* and the latest one; the status, of a row with tokens, is from before it awaited the last
\* answer.
ClearUserTokens ==
  /\ profile.token # NoToken
  /\ \E s \in {"authenticated", "enrolled"} :
       profile' = [profile EXCEPT !.token = NoToken, !.status = s]
  /\ UNCHANGED <<issued, cloudCall, presented, disabled, spoiled>>

\* POST /cloud/device-identity/reset
ResetDevice ==
  /\ profile.token # NoToken
  /\ ~(profile.status = "enrolled" /\ profile.device # NoUser)
  /\ profile' = [profile EXCEPT !.device = NoUser, !.status = "authenticated"]
  /\ UNCHANGED <<issued, cloudCall, presented, disabled, spoiled>>

-----------------------------------------------------------------------------
(* AgentRegistrationService.enroll, also on behalf of recoverDeviceToken *)

Enroll(k) ==
  /\ IdleCall(k)
  /\ profile.token # NoToken
  /\ Begins(k, "enroll", "waiting", NoUser, NoToken)
  /\ UNCHANGED <<issued, profile, presented, disabled, spoiled>>

\* It has an access token: the stored one, or the one of the refresh it awaited.
EnrollSent(k) ==
  /\ In(k, "enroll", "waiting")
  /\ ~Refreshing
  /\ profile.token # NoToken
  /\ Begins(k, "enroll", "sent", issued[profile.token].user, NoToken)
  /\ UNCHANGED <<issued, profile, presented, disabled, spoiled>>

\* The identity of the answer is saved, whoever has signed in or out meanwhile.
Enrolled(k) ==
  /\ In(k, "enroll", "allowed")
  /\ profile' = [profile EXCEPT !.user = cloudCall[k].user, !.device = cloudCall[k].user,
                                !.status = "enrolled"]
  /\ Finished(k)
  /\ UNCHANGED <<issued, presented, disabled, spoiled>>

-----------------------------------------------------------------------------
(* DeviceEnrollmentService.logout *)

Logout(k) ==
  /\ IdleCall(k)
  /\ IF profile.token = NoToken
     THEN /\ profile' = [profile EXCEPT !.device = NoUser, !.status = "disconnected"]
          /\ UNCHANGED <<cloudCall, spoiled>>
     ELSE /\ Begins(k, "logout", "sent", NoUser, profile.token)
          /\ spoiled' = TRUE
          /\ UNCHANGED profile
  /\ UNCHANGED <<issued, presented, disabled>>

ServeLogout(k) ==
  /\ In(k, "logout", "sent")
  /\ issued' = [issued EXCEPT ![cloudCall[k].token].state =
                  IF @ = "live" THEN "revoked" ELSE @]
  /\ cloudCall' = [cloudCall EXCEPT ![k].at = "served"]
  /\ UNCHANGED <<profile, presented, disabled, spoiled>>

\* Answered or not, the tokens are cleared.
LoggedOut(k) ==
  /\ cloudCall[k].kind = "logout"
  /\ profile' = [profile EXCEPT !.token = NoToken, !.device = NoUser, !.status = "disconnected"]
  /\ Finished(k)
  /\ UNCHANGED <<issued, presented, disabled, spoiled>>

-----------------------------------------------------------------------------

\* A login or an enrollment fails, or is not answered.
CallFails(k) ==
  /\ cloudCall[k].kind \in {"login", "enroll"}
  /\ Finished(k)
  /\ UNCHANGED <<issued, profile, presented, disabled, spoiled>>

\* The agent stops: its calls are lost, refreshes among them perhaps served.
AgentRestarts ==
  LET sent == {cloudCall[k].token : k \in {d \in CloudCalls :
                 In(d, "refresh", "sent") \/ In(d, "refresh", "allowed")}}
  IN /\ cloudCall' = [k \in CloudCalls |-> NoCloudCall]
     /\ \E lost \in SUBSET sent : presented' = presented \cup lost
     /\ spoiled' = (spoiled \/ Refreshing)
     /\ UNCHANGED <<issued, profile, disabled>>

CloudCallStep(k) ==
  \/ LetIn(k)
  \/ \E u \in Users : Login(k, u)
  \/ ServeLogin(k) \/ LoggedIn(k)
  \/ Refresh(k) \/ ServeRefresh(k) \/ Refreshed(k) \/ RefreshRefused(k) \/ RefreshUnanswered(k)
  \/ Enroll(k) \/ EnrollSent(k) \/ Enrolled(k)
  \/ Logout(k) \/ ServeLogout(k) \/ LoggedOut(k)
  \/ CallFails(k)

UserNext ==
  \/ \E k \in CloudCalls : CloudCallStep(k)
  \/ \E t \in presented : ServePresented(t)
  \/ \E u \in Users : DisableUser(u)
  \/ ClearUserTokens \/ ResetDevice
  \/ AgentRestarts

UserSpec == UserInit /\ [][UserNext]_userVars

-----------------------------------------------------------------------------

\* However refreshes, sign-ins and enrollments overlap, no refresh presents a token
\* that was used or revoked before, and the one at rest is neither.  Only three things
\* may leave the agent with such a token: the admin disabled its user, or since the
\* last sign-in there was a logout, or an answer nobody took.
PresentsLiveToken ==
  LET Good(t) == issued[t].state = "live" \/ issued[t].user \in disabled
  IN spoiled \/
       /\ \A k \in CloudCalls : cloudCall[k].kind = "refresh" => Good(cloudCall[k].token)
       /\ profile.token # NoToken /\ ~Refreshing => Good(profile.token)
=============================================================================
