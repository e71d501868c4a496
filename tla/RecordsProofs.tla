--------------------------- MODULE RecordsProofs -----------------------------
(***************************************************************************)
(* Theorems about the records that are read, awaited upon and written:     *)
(* UserSession, for any number of calls, users and tokens; CloudAudit, for *)
(* any number of appends, in any order of their ids, and a clock that runs *)
(* as far as it likes; and that the composition the run Records checks has *)
(* what is proved of each.                                                 *)
(***************************************************************************)
EXTENDS MCRecords, VoiceCommandProofs

-----------------------------------------------------------------------------
(* The signed-in user *)

State(t) == issued[t].state
Owner(t) == issued[t].user
ServedLogin(k) == In(k, "login", "served")
Refreshes(k) == cloudCall[k].kind = "refresh"
LogsOut(k) == cloudCall[k].kind = "logout"

\* The calls that hold a token.
HolderInv == \A k \in CloudCalls : Refreshes(k) \/ LogsOut(k) \/ ServedLogin(k) =>
               cloudCall[k].token \in Tokens

\* What anybody holds has been issued.
IssuedInv ==
  /\ profile.token \in Tokens => State(profile.token) # "unused"
  /\ \A k \in CloudCalls : cloudCall[k].token \in Tokens => State(cloudCall[k].token) # "unused"
  /\ \A t \in presented : State(t) # "unused"

\* Good for a refresh, but for the admin who disabled its user.
Good(t) == State(t) = "live" \/ Owner(t) \in disabled

\* The token of a login that was answered is good, and in nobody else's hands.
LoginInv ==
  \A k \in CloudCalls : ServedLogin(k) =>
    /\ Good(cloudCall[k].token)
    /\ cloudCall[k].token # profile.token
    /\ cloudCall[k].token \notin presented
    /\ \A j \in CloudCalls \ {k} : cloudCall[j].token # cloudCall[k].token

\* Refreshes share one call.
OneRefreshInv == \A j, k \in CloudCalls : Refreshes(j) /\ Refreshes(k) => j = k

\* A token that no abandoned refresh and no logout can take away.
Safe(t) == t \notin presented /\ \A k \in CloudCalls : LogsOut(k) => cloudCall[k].token # t

\* Unless a logout or a lost answer has spoiled it: the refresh in flight holds a
\* good token, and so does the row, until the refresh it is presented by is served.
LiveInv ==
  spoiled \/
    /\ \A k \in CloudCalls : Refreshes(k) =>
         Good(cloudCall[k].token) /\ Safe(cloudCall[k].token)
    /\ profile.token \in Tokens =>
         /\ Safe(profile.token)
         /\ \/ Good(profile.token)
            \/ \E k \in CloudCalls : In(k, "refresh", "served")

UserInv == UserTypeOK /\ HolderInv /\ IssuedInv /\ LoginInv /\ OneRefreshInv /\ LiveInv

-----------------------------------------------------------------------------

CallRow == [kind : {"none", "login", "refresh", "enroll", "logout"},
            at : {"idle", "waiting", "sent", "allowed", "served"},
            user : Users \cup {NoUser}, token : Tokens \cup {NoToken}, status : ProfileStatus]
ProfileRow == [user : Users \cup {NoUser}, token : Tokens \cup {NoToken},
               device : Users \cup {NoUser}, status : ProfileStatus]
TokenRow == [state : {"unused", "live", "revoked"}, user : Users \cup {NoUser}]

\* A call of k that becomes c, while the other calls stay.
Becomes(k, c) == c \in CallRow /\ cloudCall' = [cloudCall EXCEPT ![k] = c]

LEMMA BecomesElements ==
  ASSUME UserTypeOK, NEW k \in CloudCalls, NEW c, Becomes(k, c)
  PROVE  /\ cloudCall' \in [CloudCalls -> CallRow]
         /\ cloudCall'[k] = c
         /\ \A j \in CloudCalls \ {k} : cloudCall'[j] = cloudCall[j]
BY DEF UserTypeOK, Becomes, CallRow

LEMMA BeginsBecomes ==
  ASSUME UserTypeOK, NEW k \in CloudCalls,
         NEW kind \in {"login", "refresh", "enroll", "logout"}, NEW place \in {"waiting", "sent"},
         NEW user \in Users \cup {NoUser}, NEW token \in Tokens \cup {NoToken},
         Begins(k, kind, place, user, token)
  PROVE  \E c \in CallRow : /\ c.kind = kind /\ c.at = place /\ c.user = user /\ c.token = token
                            /\ Becomes(k, c)
<1> DEFINE c == [kind |-> kind, at |-> place, user |-> user, token |-> token,
                 status |-> IF kind = "refresh" THEN profile.status ELSE "disconnected"]
<1>1. c \in CallRow
  BY DEF UserTypeOK, CallRow, ProfileStatus
<1>2. cloudCall' = [cloudCall EXCEPT ![k] = c]
  BY DEF Begins
<1> QED
  BY <1>1, <1>2 DEF Becomes

LEMMA FinishedBecomes ==
  ASSUME NEW k \in CloudCalls, Finished(k)
  PROVE  Becomes(k, NoCloudCall) /\ NoCloudCall.kind = "none" /\ NoCloudCall.token = NoToken
BY DEF Finished, Becomes, NoCloudCall, CallRow, ProfileStatus

LEMMA AnswerBecomes ==
  ASSUME UserTypeOK, NEW k \in CloudCalls, NEW t \in Tokens, Answer(k, t)
  PROVE  \E c \in CallRow : /\ c.kind = cloudCall[k].kind /\ c.at = "served" /\ c.token = t
                            /\ Becomes(k, c)
<1> DEFINE c == [cloudCall[k] EXCEPT !.at = "served", !.token = t]
<1>1. cloudCall[k] \in CallRow
  BY DEF UserTypeOK, CallRow
<1>2. c \in CallRow /\ c.kind = cloudCall[k].kind /\ c.at = "served" /\ c.token = t
  BY <1>1 DEF CallRow
<1>3. cloudCall' = [cloudCall EXCEPT ![k] = c]
  BY DEF Answer, UserTypeOK
<1> QED
  BY <1>2, <1>3 DEF Becomes

LEMMA IssueElements ==
  ASSUME UserTypeOK, NEW t \in Tokens, NEW u \in Users \cup {NoUser}, Issue(t, u)
  PROVE  /\ issued' \in [Tokens -> TokenRow]
         /\ State(t) = "unused" /\ State(t)' = "live"
         /\ \A s \in Tokens \ {t} : State(s)' = State(s) /\ Owner(s)' = Owner(s)
BY DEF UserTypeOK, TokenRow, Issue, State, Owner

LEMMA RotateElements ==
  ASSUME UserTypeOK, NEW old \in Tokens, State(old) # "unused", NEW new \in Tokens,
         Rotate(old, new)
  PROVE  /\ issued' \in [Tokens -> TokenRow]
         /\ State(new) = "unused" /\ old # new
         /\ State(old)' = "revoked" /\ State(new)' = "live"
         /\ Owner(old)' = Owner(old) /\ Owner(new)' = Owner(old)
         /\ \A s \in Tokens \ {old, new} : State(s)' = State(s) /\ Owner(s)' = Owner(s)
BY DEF UserTypeOK, TokenRow, Rotate, State, Owner

\* What the invariant says of tokens, without the types.
TokenInv == HolderInv /\ IssuedInv /\ LoginInv /\ OneRefreshInv /\ LiveInv

LEMMA NoTokenIsNone == NoToken \notin Tokens
BY UserConstants

-----------------------------------------------------------------------------
(* The steps, by what they do to the tokens *)

\* A call that lets its token go, if it had one, and nothing else changes hands.
LEMMA LetsGo ==
  ASSUME UserInv, NEW k \in CloudCalls, NEW c, Becomes(k, c),
         c.kind \in {"none", "login", "enroll"}, c.at # "served", c.token = NoToken,
         UNCHANGED <<issued, presented, disabled>>,
         profile'.token \in {profile.token, NoToken},
         spoiled => spoiled',
         In(k, "refresh", "served") => spoiled'
  PROVE  TokenInv'
<1> USE DEF UserInv, Refreshes, LogsOut, ServedLogin, State, Owner, Good, In
<1>0. /\ cloudCall'[k] = c
      /\ \A j \in CloudCalls \ {k} : cloudCall'[j] = cloudCall[j]
  BY BecomesElements
<1>1. HolderInv'
  BY <1>0 DEF HolderInv
<1>2. IssuedInv'
  BY <1>0, NoTokenIsNone DEF IssuedInv
<1>3. LoginInv'
  BY <1>0, NoTokenIsNone DEF LoginInv, HolderInv
<1>4. OneRefreshInv'
  BY <1>0 DEF OneRefreshInv
<1>5. LiveInv'
  <2> SUFFICES ASSUME ~spoiled' PROVE LiveInv'
    BY DEF LiveInv
  <2>1. ~spoiled /\ ~In(k, "refresh", "served")
    OBVIOUS
  <2>2. \A t \in Tokens : Safe(t) => Safe(t)'
    BY <1>0 DEF Safe
  <2>3. ASSUME NEW j \in CloudCalls, Refreshes(j)'
        PROVE  Good(cloudCall[j].token)' /\ Safe(cloudCall[j].token)'
    BY <1>0, <2>1, <2>2, <2>3 DEF LiveInv, HolderInv
  <2>4. ASSUME profile'.token \in Tokens
        PROVE  /\ Safe(profile.token)'
               /\ \/ Good(profile.token)'
                  \/ \E j \in CloudCalls : In(j, "refresh", "served")'
    <3>1. profile'.token = profile.token
      BY <2>4, NoTokenIsNone
    <3> QED
      BY <1>0, <2>1, <2>2, <2>4, <3>1 DEF LiveInv
  <2> QED
    BY <2>3, <2>4 DEF LiveInv
<1> QED
  BY <1>1, <1>2, <1>3, <1>4, <1>5 DEF TokenInv

LEMMA ServeLoginKeeps ==
  ASSUME UserInv, NEW k \in CloudCalls, ServeLogin(k)
  PROVE  TokenInv'
<1> USE DEF UserInv, Refreshes, LogsOut, ServedLogin, In
<1>1. PICK t \in Tokens : Issue(t, cloudCall[k].user) /\ Answer(k, t)
  BY DEF ServeLogin
<1>2. PICK c \in CallRow : /\ c.kind = "login" /\ c.at = "served" /\ c.token = t
                          /\ Becomes(k, c)
  BY <1>1, AnswerBecomes DEF ServeLogin
<1>3. /\ cloudCall'[k] = c
      /\ \A j \in CloudCalls \ {k} : cloudCall'[j] = cloudCall[j]
  BY <1>2, BecomesElements
<1>4. /\ State(t) = "unused" /\ State(t)' = "live"
      /\ \A s \in Tokens \ {t} : State(s)' = State(s) /\ Owner(s)' = Owner(s)
  BY <1>1, IssueElements DEF UserTypeOK
<1>5. UNCHANGED <<profile, presented, disabled, spoiled>> /\ cloudCall[k].kind = "login"
      /\ cloudCall[k].at = "allowed"
  BY DEF ServeLogin
<1>6. /\ profile.token # t /\ t \notin presented /\ presented \subseteq Tokens
      /\ \A j \in CloudCalls : cloudCall[j].token # t
  BY <1>4 DEF IssuedInv, UserTypeOK
<1>a. Good(t)' /\ \A s \in Tokens : Good(s) => Good(s)'
  BY <1>4, <1>5 DEF Good
<1>7. HolderInv'
  BY <1>2, <1>3 DEF HolderInv
<1>8. IssuedInv'
  BY <1>2, <1>3, <1>4, <1>5, <1>6 DEF IssuedInv
<1>9. LoginInv'
  BY <1>a, <1>2, <1>3, <1>5, <1>6 DEF LoginInv, HolderInv
<1>10. OneRefreshInv'
  BY <1>2, <1>3 DEF OneRefreshInv
<1>11. \A s \in Tokens : Safe(s) => Safe(s)'
  BY <1>2, <1>3, <1>5 DEF Safe
<1>12. LiveInv'
  <2>1. ASSUME ~spoiled, NEW j \in CloudCalls, Refreshes(j)'
        PROVE  Good(cloudCall[j].token)' /\ Safe(cloudCall[j].token)'
    BY <1>a, <1>2, <1>3, <1>6, <1>11, <2>1 DEF LiveInv, HolderInv
  <2>2. ASSUME ~spoiled, profile.token \in Tokens
        PROVE  /\ Safe(profile.token)'
               /\ \/ Good(profile.token)'
                  \/ \E j \in CloudCalls : In(j, "refresh", "served")'
    BY <1>a, <1>2, <1>3, <1>5, <1>6, <1>11, <2>2 DEF LiveInv
  <2> QED
    BY <1>5, <2>1, <2>2 DEF LiveInv
<1> QED
  BY <1>7, <1>8, <1>9, <1>10, <1>12 DEF TokenInv

LEMMA LoggedInKeeps ==
  ASSUME UserInv, NEW k \in CloudCalls, LoggedIn(k)
  PROVE  TokenInv'
<1> USE DEF UserInv, Refreshes, LogsOut, ServedLogin, In, State, Owner, Good
<1>0. PICK t \in Tokens : t = cloudCall[k].token
  BY DEF LoggedIn, HolderInv
<1>1. /\ NoCloudCall.kind = "none" /\ NoCloudCall.token = NoToken
      /\ cloudCall'[k] = NoCloudCall
      /\ \A j \in CloudCalls \ {k} : cloudCall'[j] = cloudCall[j]
  BY FinishedBecomes, BecomesElements DEF LoggedIn
<1>2. /\ Good(t) /\ State(t) # "unused" /\ t \notin presented
      /\ \A j \in CloudCalls \ {k} : cloudCall[j].token # t
  BY <1>0 DEF LoggedIn, HolderInv, LoginInv, IssuedInv
<1>3. /\ profile'.token = t /\ UNCHANGED <<issued, presented, disabled>>
      /\ spoiled' = (spoiled /\ Refreshing)
  BY <1>0 DEF LoggedIn
<1>4. HolderInv'
  BY <1>1 DEF HolderInv
<1>5. IssuedInv'
  BY <1>1, <1>2, <1>3, NoTokenIsNone DEF IssuedInv
<1>6. LoginInv'
  BY <1>1, <1>2, <1>3, NoTokenIsNone DEF LoginInv, HolderInv
<1>7. OneRefreshInv'
  BY <1>1 DEF OneRefreshInv
<1>8. Safe(t)' /\ \A s \in Tokens : Safe(s) => Safe(s)'
  BY <1>1, <1>2, <1>3 DEF Safe
<1>9. ASSUME ~spoiled', NEW j \in CloudCalls, Refreshes(j)'
      PROVE  Good(cloudCall[j].token)' /\ Safe(cloudCall[j].token)'
  <2>1. j # k /\ cloudCall'[j] = cloudCall[j] /\ Refreshes(j)
    BY <1>1, <1>9
  <2>2. ~spoiled
    BY <1>3, <1>9, <2>1 DEF Refreshing
  <2> QED
    BY <1>3, <1>8, <2>1, <2>2 DEF LiveInv, HolderInv
<1>10. LiveInv'
  BY <1>2, <1>3, <1>8, <1>9 DEF LiveInv
<1> QED
  BY <1>4, <1>5, <1>6, <1>7, <1>10 DEF TokenInv

LEMMA RefreshKeeps ==
  ASSUME UserInv, NEW k \in CloudCalls, Refresh(k)
  PROVE  TokenInv'
<1> USE DEF UserInv, Refreshes, LogsOut, ServedLogin, In, State, Owner, Good
<1>0. PICK t \in Tokens : t = profile.token
  BY DEF Refresh, UserTypeOK
<1>1. PICK c \in CallRow : /\ c.kind = "refresh" /\ c.at = "sent" /\ c.token = t
                          /\ Becomes(k, c)
  BY <1>0, BeginsBecomes DEF Refresh
<1>2. /\ cloudCall'[k] = c
      /\ \A j \in CloudCalls \ {k} : cloudCall'[j] = cloudCall[j]
  BY <1>1, BecomesElements
<1>3. /\ UNCHANGED <<issued, profile, presented, disabled, spoiled>>
      /\ cloudCall[k].kind = "none" /\ \A j \in CloudCalls : cloudCall[j].kind # "refresh"
  BY DEF Refresh, IdleCall, MayRefresh, Refreshing
<1>4. HolderInv'
  BY <1>1, <1>2 DEF HolderInv
<1>5. IssuedInv'
  BY <1>0, <1>1, <1>2, <1>3 DEF IssuedInv
<1>6. LoginInv'
  BY <1>0, <1>1, <1>2, <1>3 DEF LoginInv
<1>7. OneRefreshInv'
  BY <1>1, <1>2, <1>3 DEF OneRefreshInv
<1>8. \A s \in Tokens : Safe(s) => Safe(s)'
  BY <1>1, <1>2, <1>3 DEF Safe
<1>9. ~spoiled => Good(t) /\ Safe(t)
  BY <1>0, <1>3 DEF LiveInv
<1>10. ASSUME ~spoiled, NEW j \in CloudCalls, Refreshes(j)'
       PROVE  Good(cloudCall[j].token)' /\ Safe(cloudCall[j].token)'
  <2>1. j = k /\ cloudCall'[j].token = t
    BY <1>1, <1>2, <1>3, <1>10
  <2> QED
    BY <1>3, <1>8, <1>9, <1>10, <2>1
<1>11. LiveInv'
  BY <1>0, <1>3, <1>8, <1>9, <1>10 DEF LiveInv
<1> QED
  BY <1>4, <1>5, <1>6, <1>7, <1>11 DEF TokenInv

\* A rotation: the old token dies, the new one is nobody's.
LEMMA ServeRefreshKeeps ==
  ASSUME UserInv, NEW k \in CloudCalls, ServeRefresh(k)
  PROVE  TokenInv'
<1> USE DEF UserInv, Refreshes, LogsOut, ServedLogin, In
<1>0. PICK old \in Tokens : old = cloudCall[k].token
  BY DEF ServeRefresh, HolderInv
<1>1. PICK t \in Tokens : Rotate(old, t) /\ Answer(k, t)
  BY <1>0 DEF ServeRefresh
<1>2. PICK c \in CallRow : /\ c.kind = "refresh" /\ c.at = "served" /\ c.token = t
                          /\ Becomes(k, c)
  BY <1>1, AnswerBecomes DEF ServeRefresh
<1>3. /\ cloudCall'[k] = c
      /\ \A j \in CloudCalls \ {k} : cloudCall'[j] = cloudCall[j]
  BY <1>2, BecomesElements
<1>a. State(old) # "unused"
  BY <1>0 DEF IssuedInv
<1>4. /\ State(t) = "unused" /\ old # t
      /\ State(old)' = "revoked" /\ State(t)' = "live"
      /\ \A s \in Tokens \ {old, t} : State(s)' = State(s) /\ Owner(s)' = Owner(s)
  BY <1>1, <1>a, RotateElements
<1>5. UNCHANGED <<profile, presented, disabled, spoiled>> /\ cloudCall[k].kind = "refresh"
      /\ cloudCall[k].at = "allowed"
  BY DEF ServeRefresh
<1>b. Good(t)' /\ \A s \in Tokens \ {old, t} : Good(s) => Good(s)'
  BY <1>4, <1>5 DEF Good
<1>6. /\ profile.token # t /\ t \notin presented /\ presented \subseteq Tokens
      /\ \A j \in CloudCalls : cloudCall[j].token # t
  BY <1>4 DEF IssuedInv, UserTypeOK
<1>7. HolderInv'
  BY <1>2, <1>3 DEF HolderInv
<1>8. IssuedInv'
  <2>1. \A s \in Tokens : State(s) # "unused" => State(s)' # "unused"
    BY <1>4
  <2>2. \A j \in CloudCalls \ {k} :
          cloudCall'[j].token \in Tokens => State(cloudCall[j].token)' # "unused"
    BY <1>3, <2>1 DEF IssuedInv
  <2>3. State(cloudCall[k].token)' # "unused"
    BY <1>2, <1>3, <1>4
  <2> QED
    BY <1>5, <1>6, <2>1, <2>2, <2>3 DEF IssuedInv
<1>9. LoginInv'
  <2> SUFFICES ASSUME NEW j \in CloudCalls, ServedLogin(j)'
      PROVE  /\ Good(cloudCall[j].token)'
             /\ cloudCall'[j].token # profile'.token
             /\ cloudCall'[j].token \notin presented'
             /\ \A i \in CloudCalls \ {j} : cloudCall'[i].token # cloudCall'[j].token
    BY DEF LoginInv
  <2>1. j # k /\ cloudCall'[j] = cloudCall[j] /\ ServedLogin(j)
    BY <1>2, <1>3
  <2>2. /\ cloudCall[j].token \in Tokens \ {old, t} /\ Good(cloudCall[j].token)
        /\ cloudCall[j].token # profile.token /\ cloudCall[j].token \notin presented
        /\ \A i \in CloudCalls \ {j} : cloudCall[i].token # cloudCall[j].token
    BY <1>0, <1>6, <2>1 DEF LoginInv, HolderInv
  <2> QED
    BY <1>b, <1>2, <1>3, <1>5, <2>1, <2>2
<1>10. OneRefreshInv'
  BY <1>2, <1>3, <1>5 DEF OneRefreshInv
<1>11. \A s \in Tokens : Safe(s) => Safe(s)'
  BY <1>2, <1>3, <1>5 DEF Safe
<1>12. LiveInv'
  <2> SUFFICES ASSUME ~spoiled PROVE LiveInv'
    BY <1>5 DEF LiveInv
  <2>1. ASSUME NEW j \in CloudCalls, Refreshes(j)'
        PROVE  Good(cloudCall[j].token)' /\ Safe(cloudCall[j].token)'
    <3>1. j = k
      BY <1>2, <1>3, <1>5, <2>1 DEF OneRefreshInv
    <3>2. Safe(t)'
      BY <1>2, <1>3, <1>5, <1>6 DEF Safe
    <3> QED
      BY <1>b, <1>2, <1>3, <3>1, <3>2
  <2>2. ASSUME profile.token \in Tokens
        PROVE  /\ Safe(profile.token)'
               /\ \E j \in CloudCalls : In(j, "refresh", "served")'
    BY <1>2, <1>3, <1>5, <1>11, <2>2 DEF LiveInv
  <2> QED
    BY <1>5, <2>1, <2>2 DEF LiveInv
<1> QED
  BY <1>7, <1>8, <1>9, <1>10, <1>12 DEF TokenInv

LEMMA RefreshedKeeps ==
  ASSUME UserInv, NEW k \in CloudCalls, Refreshed(k)
  PROVE  TokenInv'
<1> USE DEF UserInv, Refreshes, LogsOut, ServedLogin, In, State, Owner, Good
<1>0. PICK t \in Tokens : t = cloudCall[k].token
  BY DEF Refreshed, HolderInv
<1>1. /\ NoCloudCall.kind = "none" /\ NoCloudCall.token = NoToken
      /\ cloudCall'[k] = NoCloudCall
      /\ \A j \in CloudCalls \ {k} : cloudCall'[j] = cloudCall[j]
  BY FinishedBecomes, BecomesElements DEF Refreshed
<1>2. /\ profile'.token = t /\ UNCHANGED <<issued, presented, disabled, spoiled>>
      /\ cloudCall[k].kind = "refresh"
  BY <1>0 DEF Refreshed, UserTypeOK
<1>3. HolderInv'
  BY <1>1 DEF HolderInv
<1>4. IssuedInv'
  BY <1>0, <1>1, <1>2, NoTokenIsNone DEF IssuedInv
<1>5. LoginInv'
  BY <1>0, <1>1, <1>2, NoTokenIsNone DEF LoginInv, HolderInv
<1>6. OneRefreshInv' /\ \A j \in CloudCalls : ~Refreshes(j)'
  BY <1>1, <1>2 DEF OneRefreshInv
<1>7. \A s \in Tokens : Safe(s) => Safe(s)'
  BY <1>1, <1>2 DEF Safe
<1>8. ~spoiled => Good(t) /\ Safe(t)
  BY <1>0, <1>2 DEF LiveInv
<1>9. LiveInv'
  BY <1>2, <1>6, <1>7, <1>8 DEF LiveInv
<1> QED
  BY <1>3, <1>4, <1>5, <1>6, <1>9 DEF TokenInv

\* The steps after which nothing is promised until somebody signs in again.
LEMMA SpoilsKeeps ==
  ASSUME UserInv, spoiled', UNCHANGED <<issued, disabled>>,
         profile'.token \in {profile.token, NoToken}, HolderInv', OneRefreshInv',
         presented' \subseteq Tokens,
         \A t \in presented' : State(t) # "unused"
           /\ \A j \in CloudCalls : ServedLogin(j) => cloudCall[j].token # t,
         \A j \in CloudCalls :
           \/ cloudCall'[j] = cloudCall[j]
           \/ /\ ~ServedLogin(j)'
              /\ cloudCall'[j].token \in {NoToken, profile.token, cloudCall[j].token}
  PROVE  TokenInv'
<1> USE DEF UserInv, ServedLogin, In
<1>1. IssuedInv'
  BY NoTokenIsNone DEF IssuedInv, State
<1>2. LoginInv'
  <2> SUFFICES ASSUME NEW j \in CloudCalls, ServedLogin(j)'
      PROVE  /\ Good(cloudCall[j].token)'
             /\ cloudCall'[j].token # profile'.token
             /\ cloudCall'[j].token \notin presented'
             /\ \A i \in CloudCalls \ {j} : cloudCall'[i].token # cloudCall'[j].token
    BY DEF LoginInv
  <2>1. cloudCall'[j] = cloudCall[j] /\ ServedLogin(j)
    OBVIOUS
  <2>2. /\ cloudCall[j].token \in Tokens /\ Good(cloudCall[j].token)
        /\ cloudCall[j].token # profile.token
        /\ \A i \in CloudCalls \ {j} : cloudCall[i].token # cloudCall[j].token
    BY <2>1 DEF LoginInv, HolderInv
  <2>3. Good(cloudCall[j].token)'
    BY <2>1, <2>2 DEF Good, State, Owner
  <2>4. cloudCall'[j].token \notin presented'
    BY <2>1
  <2>5. \A i \in CloudCalls \ {j} : cloudCall'[i].token # cloudCall'[j].token
    BY <2>1, <2>2, NoTokenIsNone
  <2> QED
    BY <2>1, <2>2, <2>3, <2>4, <2>5, NoTokenIsNone
<1>3. LiveInv'
  BY DEF LiveInv
<1> QED
  BY <1>1, <1>2, <1>3 DEF TokenInv

LEMMA AbandonKeeps ==
  ASSUME UserInv, NEW k \in CloudCalls, Refreshes(k), Finished(k), spoiled',
         presented' = presented \cup {cloudCall[k].token}, UNCHANGED <<issued, disabled>>,
         profile'.token \in {profile.token, NoToken}
  PROVE  TokenInv'
<1> USE DEF UserInv, Refreshes, LogsOut, ServedLogin, In, State
<1>1. /\ NoCloudCall.kind = "none" /\ NoCloudCall.token = NoToken
      /\ cloudCall'[k] = NoCloudCall
      /\ \A j \in CloudCalls \ {k} : cloudCall'[j] = cloudCall[j]
  BY FinishedBecomes, BecomesElements
<1>2. HolderInv' /\ OneRefreshInv'
  BY <1>1 DEF HolderInv, OneRefreshInv
<1>3. cloudCall[k].token \in Tokens /\ presented' \subseteq Tokens
  BY DEF HolderInv, UserTypeOK
<1>4. \A t \in presented' : issued[t].state # "unused"
        /\ \A j \in CloudCalls : ServedLogin(j) => cloudCall[j].token # t
  BY <1>3 DEF IssuedInv, LoginInv
<1> QED
  BY <1>1, <1>2, <1>3, <1>4, SpoilsKeeps

LEMMA SignsOutKeeps ==
  ASSUME UserInv, NEW k \in CloudCalls, Logout(k), profile.token # NoToken
  PROVE  TokenInv'
<1> USE DEF UserInv, Refreshes, LogsOut, ServedLogin, In, State
<1>0. profile.token \in Tokens
  BY DEF UserTypeOK
<1>1. PICK c \in CallRow : /\ c.kind = "logout" /\ c.at = "sent" /\ c.token = profile.token
                          /\ Becomes(k, c)
  BY <1>0, BeginsBecomes DEF Logout
<1>2. /\ cloudCall'[k] = c
      /\ \A j \in CloudCalls \ {k} : cloudCall'[j] = cloudCall[j]
  BY <1>1, BecomesElements
<1>3. spoiled' /\ UNCHANGED <<issued, profile, presented, disabled>> /\ cloudCall[k].kind = "none"
  BY DEF Logout, IdleCall
<1>4. HolderInv' /\ OneRefreshInv'
  BY <1>0, <1>1, <1>2 DEF HolderInv, OneRefreshInv
<1>5. presented' \subseteq Tokens /\ \A t \in presented' : issued[t].state # "unused"
        /\ \A j \in CloudCalls : ServedLogin(j) => cloudCall[j].token # t
  BY <1>3 DEF UserTypeOK, IssuedInv, LoginInv
<1> QED
  BY <1>1, <1>2, <1>3, <1>4, <1>5, SpoilsKeeps

\* A logout arrives: its token is nobody's who has not been spoiled.
LEMMA ServeLogoutKeeps ==
  ASSUME UserInv, NEW k \in CloudCalls, ServeLogout(k)
  PROVE  TokenInv'
<1> USE DEF UserInv, Refreshes, LogsOut, ServedLogin, In
<1>0. PICK old \in Tokens : old = cloudCall[k].token
  BY DEF ServeLogout, HolderInv
<1>1. PICK c \in CallRow : /\ c.kind = "logout" /\ c.token = old /\ Becomes(k, c)
  <2> DEFINE c == [cloudCall[k] EXCEPT !.at = "served"]
  <2>1. cloudCall[k] \in CallRow
    BY DEF UserTypeOK, CallRow
  <2>2. c \in CallRow /\ c.kind = "logout" /\ c.token = old
    BY <1>0, <2>1 DEF CallRow, ServeLogout
  <2>3. cloudCall' = [cloudCall EXCEPT ![k] = c]
    BY DEF ServeLogout
  <2> QED
    BY <2>2, <2>3 DEF Becomes
<1>2. /\ cloudCall'[k] = c
      /\ \A j \in CloudCalls \ {k} : cloudCall'[j] = cloudCall[j]
  BY <1>1, BecomesElements
<1>3. UNCHANGED <<profile, presented, disabled, spoiled>> /\ cloudCall[k].kind = "logout"
  BY DEF ServeLogout
<1>4. /\ \A t \in Tokens \ {old} : State(t)' = State(t) /\ Owner(t)' = Owner(t)
      /\ Owner(old)' = Owner(old)
      /\ State(old) # "unused" => State(old)' # "unused"
  BY <1>0 DEF ServeLogout, State, Owner, UserTypeOK
<1>a. \A t \in Tokens \ {old} : Good(t) => Good(t)'
  BY <1>3, <1>4 DEF Good
<1>5. HolderInv'
  BY <1>1, <1>2 DEF HolderInv
<1>6. IssuedInv'
  <2>1. \A t \in Tokens : State(t) # "unused" => State(t)' # "unused"
    BY <1>4
  <2>2. ASSUME NEW j \in CloudCalls
        PROVE  cloudCall'[j].token \in Tokens => State(cloudCall[j].token)' # "unused"
    <3>1. cloudCall'[j].token = cloudCall[j].token
      BY <1>0, <1>1, <1>2
    <3> QED
      BY <2>1, <3>1 DEF IssuedInv
  <2> QED
    BY <1>3, <2>1, <2>2 DEF IssuedInv, UserTypeOK
<1>7. LoginInv'
  <2> SUFFICES ASSUME NEW j \in CloudCalls, ServedLogin(j)'
      PROVE  /\ Good(cloudCall[j].token)'
             /\ cloudCall'[j].token # profile'.token
             /\ cloudCall'[j].token \notin presented'
             /\ \A i \in CloudCalls \ {j} : cloudCall'[i].token # cloudCall'[j].token
    BY DEF LoginInv
  <2>1. j # k /\ cloudCall'[j] = cloudCall[j] /\ ServedLogin(j)
    BY <1>1, <1>2
  <2>2. /\ cloudCall[j].token \in Tokens \ {old} /\ Good(cloudCall[j].token)
        /\ cloudCall[j].token # profile.token /\ cloudCall[j].token \notin presented
        /\ \A i \in CloudCalls \ {j} : cloudCall[i].token # cloudCall[j].token
    BY <1>0, <2>1 DEF LoginInv, HolderInv
  <2> QED
    BY <1>a, <1>0, <1>1, <1>2, <1>3, <2>1, <2>2
<1>8. OneRefreshInv'
  BY <1>1, <1>2 DEF OneRefreshInv
<1>9. \A t \in Tokens : Safe(t) => t # old /\ Safe(t)'
  BY <1>0, <1>1, <1>2, <1>3 DEF Safe
<1>10. LiveInv'
  <2> SUFFICES ASSUME ~spoiled PROVE LiveInv'
    BY <1>3 DEF LiveInv
  <2>1. ASSUME NEW j \in CloudCalls, Refreshes(j)'
        PROVE  Good(cloudCall[j].token)' /\ Safe(cloudCall[j].token)'
    <3>1. cloudCall'[j] = cloudCall[j] /\ Refreshes(j)
      BY <1>1, <1>2, <2>1
    <3>2. /\ cloudCall[j].token \in Tokens /\ Safe(cloudCall[j].token)
          /\ Good(cloudCall[j].token)
      BY <3>1 DEF LiveInv, HolderInv
    <3> QED
      BY <1>a, <1>9, <3>1, <3>2
  <2>2. ASSUME profile.token \in Tokens
        PROVE  /\ Safe(profile.token)'
               /\ \/ Good(profile.token)'
                  \/ \E j \in CloudCalls : In(j, "refresh", "served")'
    <3>1. /\ Safe(profile.token)
          /\ \/ Good(profile.token)
             \/ \E j \in CloudCalls : In(j, "refresh", "served")
      BY <2>2 DEF LiveInv
    <3>2. Safe(profile.token)' /\ profile.token # old
      BY <1>3, <1>9, <2>2, <3>1
    <3>3. CASE Good(profile.token)
      BY <1>a, <1>3, <2>2, <3>2, <3>3
    <3>4. CASE \E j \in CloudCalls : In(j, "refresh", "served")
      BY <1>1, <1>2, <1>3, <3>2, <3>4
    <3> QED
      BY <3>1, <3>3, <3>4
  <2> QED
    BY <1>3, <2>1, <2>2 DEF LiveInv
<1> QED
  BY <1>5, <1>6, <1>7, <1>8, <1>10 DEF TokenInv

\* An abandoned refresh is served after all.
LEMMA ServePresentedKeeps ==
  ASSUME UserInv, NEW old \in presented, ServePresented(old)
  PROVE  TokenInv'
<1> USE DEF UserInv, Refreshes, LogsOut, ServedLogin, In
<1>0. old \in Tokens /\ presented' = presented \ {old} /\ UNCHANGED <<profile, cloudCall, disabled, spoiled>>
  BY DEF ServePresented, UserTypeOK
<1>1. /\ \A t \in Tokens : State(t) # "unused" => State(t)' # "unused"
      /\ \A t \in Tokens \ {old} : State(t) # "unused" /\ Good(t) => Good(t)'
  <2>1. CASE UNCHANGED issued
    BY <1>0, <2>1 DEF State, Owner, Good
  <2>2. State(old) # "unused"
    BY DEF IssuedInv
  <2>3. ASSUME NEW u \in Tokens, Rotate(old, u)
        PROVE  /\ \A t \in Tokens : State(t) # "unused" => State(t)' # "unused"
               /\ \A t \in Tokens \ {old} : State(t) # "unused" /\ Good(t) => Good(t)'
    <3>1. /\ State(u) = "unused" /\ old # u
          /\ State(old)' = "revoked" /\ State(u)' = "live"
          /\ \A s \in Tokens \ {old, u} : State(s)' = State(s) /\ Owner(s)' = Owner(s)
      BY <1>0, <2>2, <2>3, RotateElements
    <3> QED
      BY <1>0, <3>1 DEF Good
  <2> QED
    BY <2>1, <2>3 DEF ServePresented
<1>2. HolderInv' /\ OneRefreshInv'
  BY <1>0 DEF HolderInv, OneRefreshInv
<1>3. IssuedInv'
  BY <1>0, <1>1 DEF IssuedInv, UserTypeOK
<1>4. LoginInv'
  BY <1>0, <1>1 DEF LoginInv, HolderInv, IssuedInv
<1>5. \A t \in Tokens : Safe(t) => t # old /\ Safe(t)'
  BY <1>0 DEF Safe
<1>6. LiveInv'
  BY <1>0, <1>1, <1>5 DEF LiveInv, HolderInv, IssuedInv
<1> QED
  BY <1>2, <1>3, <1>4, <1>6 DEF TokenInv

LEMMA RestartKeeps ==
  ASSUME UserInv, AgentRestarts
  PROVE  TokenInv'
<1> USE DEF UserInv, Refreshes, LogsOut, ServedLogin, In
<1>1. /\ \A k \in CloudCalls : cloudCall'[k].kind = "none" /\ cloudCall'[k].token = NoToken
      /\ UNCHANGED <<issued, profile, disabled>> /\ spoiled' = (spoiled \/ Refreshing)
  BY DEF AgentRestarts, NoCloudCall
<1>2. \A t \in presented' : \/ t \in presented
                             \/ \E k \in CloudCalls : Refreshes(k) /\ cloudCall[k].token = t
  BY DEF AgentRestarts
<1>3. \A t \in presented' : t \in Tokens /\ State(t) # "unused"
  BY <1>2 DEF IssuedInv, HolderInv, UserTypeOK
<1>4. HolderInv' /\ OneRefreshInv' /\ LoginInv'
  BY <1>1 DEF HolderInv, OneRefreshInv, LoginInv
<1>5. IssuedInv'
  BY <1>1, <1>3, NoTokenIsNone DEF IssuedInv, State
<1>6. LiveInv'
  <2> SUFFICES ASSUME ~spoiled, ~Refreshing PROVE LiveInv'
    BY <1>1 DEF LiveInv
  <2>1. \A t \in presented' : t \in presented
    BY <1>2 DEF Refreshing
  <2>2. ~ \E k \in CloudCalls : In(k, "refresh", "served")
    BY DEF Refreshing
  <2>3. profile.token \in Tokens => Safe(profile.token)' /\ Good(profile.token)'
    BY <1>1, <2>1, <2>2 DEF LiveInv, Safe, State, Owner, Good
  <2> QED
    BY <1>1, <2>3 DEF LiveInv
<1> QED
  BY <1>4, <1>5, <1>6 DEF TokenInv

-----------------------------------------------------------------------------
(* The types *)

\* Every call of the control plane leaves the records what they were.
LEMMA StepTypes ==
  ASSUME UserInv, UserNext
  PROVE  UserTypeOK'
<1> DEFINE Typed(i, p, c) == i \in [Tokens -> TokenRow] /\ p \in ProfileRow
                               /\ c \in [CloudCalls -> CallRow]
<1>a. /\ Typed(issued, profile, cloudCall) /\ presented \subseteq Tokens
      /\ disabled \subseteq Users /\ spoiled \in BOOLEAN
      /\ \A k \in CloudCalls : cloudCall[k] \in CallRow
  BY DEF UserInv, UserTypeOK, TokenRow, ProfileRow, CallRow
<1>b. /\ profile.token \in Tokens \cup {NoToken} /\ profile.status \in ProfileStatus
      /\ \A k \in CloudCalls : /\ cloudCall[k].token \in Tokens \cup {NoToken}
                               /\ cloudCall[k].user \in Users \cup {NoUser}
                               /\ cloudCall[k].status \in ProfileStatus
  BY <1>a DEF ProfileRow, CallRow
<1> SUFFICES /\ Typed(issued', profile', cloudCall')
             /\ presented' \subseteq Tokens /\ disabled' \subseteq Users /\ spoiled' \in BOOLEAN
  BY DEF UserTypeOK, TokenRow, ProfileRow, CallRow
<1>1. \A k \in CloudCalls, c \in CallRow :
        cloudCall' = [cloudCall EXCEPT ![k] = c] => cloudCall' \in [CloudCalls -> CallRow]
  BY <1>a
<1>2. \A k \in CloudCalls : Finished(k) => cloudCall' \in [CloudCalls -> CallRow]
  BY <1>1, FinishedBecomes DEF Becomes
<1>3. ASSUME NEW k \in CloudCalls, NEW u \in Users, Login(k, u)
      PROVE  Typed(issued', profile', cloudCall')
  <2>1. PICK c \in CallRow : Becomes(k, c)
    BY <1>3, BeginsBecomes DEF Login, UserInv
  <2> QED
    BY <1>1, <1>3, <1>a, <2>1 DEF Login, Becomes
<1>4. ASSUME NEW k \in CloudCalls, ServeLogin(k)
      PROVE  Typed(issued', profile', cloudCall')
  <2>1. PICK t \in Tokens : Issue(t, cloudCall[k].user) /\ Answer(k, t)
    BY <1>4 DEF ServeLogin
  <2>2. PICK c \in CallRow : Becomes(k, c)
    BY <2>1, AnswerBecomes DEF UserInv
  <2>3. issued' \in [Tokens -> TokenRow]
    BY <1>b, <2>1, IssueElements DEF UserInv
  <2> QED
    BY <1>1, <1>4, <1>a, <2>2, <2>3 DEF ServeLogin, Becomes
<1>5. ASSUME NEW k \in CloudCalls, LoggedIn(k)
      PROVE  Typed(issued', profile', cloudCall')
  <2>1. profile' \in ProfileRow
    BY <1>5, <1>b DEF LoggedIn, ProfileRow, ProfileStatus
  <2> QED
    BY <1>2, <1>5, <1>a, <2>1 DEF LoggedIn
<1>6. ASSUME NEW k \in CloudCalls, Refresh(k)
      PROVE  Typed(issued', profile', cloudCall')
  <2>1. PICK c \in CallRow : Becomes(k, c)
    BY <1>6, <1>b, BeginsBecomes DEF Refresh, UserInv
  <2> QED
    BY <1>1, <1>6, <1>a, <2>1 DEF Refresh, Becomes
<1>7. ASSUME NEW k \in CloudCalls, ServeRefresh(k)
      PROVE  Typed(issued', profile', cloudCall')
  <2>0. cloudCall[k].token \in Tokens
    BY <1>7 DEF ServeRefresh, UserInv, HolderInv, Refreshes, In
  <2>a. State(cloudCall[k].token) # "unused"
    BY <2>0 DEF UserInv, IssuedInv
  <2>1. PICK t \in Tokens : Rotate(cloudCall[k].token, t) /\ Answer(k, t)
    BY <1>7 DEF ServeRefresh
  <2>2. PICK c \in CallRow : Becomes(k, c)
    BY <2>1, AnswerBecomes DEF UserInv
  <2>3. issued' \in [Tokens -> TokenRow]
    BY <2>0, <2>a, <2>1, RotateElements DEF UserInv
  <2> QED
    BY <1>1, <1>7, <1>a, <2>2, <2>3 DEF ServeRefresh, Becomes
<1>8. ASSUME NEW k \in CloudCalls, Refreshed(k)
      PROVE  Typed(issued', profile', cloudCall')
  <2>1. profile' \in ProfileRow
    BY <1>8, <1>a, <1>b DEF Refreshed, ProfileRow, ProfileStatus
  <2> QED
    BY <1>2, <1>8, <1>a, <2>1 DEF Refreshed
<1>9. ASSUME NEW k \in CloudCalls, RefreshRefused(k) \/ RefreshUnanswered(k) \/ CallFails(k)
      PROVE  Typed(issued', profile', cloudCall')
  <2>1. CASE CallFails(k)
    BY <1>2, <1>a, <2>1 DEF CallFails
  <2>2. CASE RefreshFailed(k)
    <3>1. \A s \in {cloudCall[k].status, profile.status} :
            [profile EXCEPT !.token = NoToken, !.status = s] \in ProfileRow
      BY <1>a, <1>b DEF ProfileRow
    <3>2. profile' \in ProfileRow
      BY <1>a, <2>2, <3>1 DEF RefreshFailed
    <3> QED
      BY <1>2, <1>a, <2>2, <3>2 DEF RefreshFailed
  <2> QED
    BY <1>9, <2>1, <2>2 DEF RefreshRefused, RefreshUnanswered
<1>10. ASSUME NEW k \in CloudCalls, Enroll(k)
       PROVE  Typed(issued', profile', cloudCall')
  <2>1. PICK c \in CallRow : Becomes(k, c)
    BY <1>10, BeginsBecomes DEF Enroll, UserInv
  <2> QED
    BY <1>1, <1>10, <1>a, <2>1 DEF Enroll, Becomes
<1>11. ASSUME NEW k \in CloudCalls, EnrollSent(k)
       PROVE  Typed(issued', profile', cloudCall')
  <2>1. issued[profile.token].user \in Users \cup {NoUser}
    BY <1>11, <1>a, <1>b DEF EnrollSent, TokenRow
  <2>2. PICK c \in CallRow : Becomes(k, c)
    BY <1>11, <2>1, BeginsBecomes DEF EnrollSent, UserInv
  <2> QED
    BY <1>1, <1>11, <1>a, <2>2 DEF EnrollSent, Becomes
<1>12. ASSUME NEW k \in CloudCalls, Enrolled(k)
       PROVE  Typed(issued', profile', cloudCall')
  <2>1. profile' \in ProfileRow
    BY <1>12, <1>a, <1>b DEF Enrolled, ProfileRow, ProfileStatus
  <2> QED
    BY <1>2, <1>12, <1>a, <2>1 DEF Enrolled
<1>13. ASSUME NEW k \in CloudCalls, Logout(k)
       PROVE  Typed(issued', profile', cloudCall')
  <2>1. CASE profile.token = NoToken
    BY <1>13, <1>a, <2>1 DEF Logout, ProfileRow, ProfileStatus
  <2>2. ASSUME profile.token # NoToken PROVE Typed(issued', profile', cloudCall')
    <3>1. PICK c \in CallRow : Becomes(k, c)
      BY <1>13, <1>b, <2>2, BeginsBecomes DEF Logout, UserInv
    <3> QED
      BY <1>1, <1>13, <1>a, <2>2, <3>1 DEF Logout, Becomes
  <2> QED
    BY <2>1, <2>2
<1>14. ASSUME NEW k \in CloudCalls, ServeLogout(k)
       PROVE  Typed(issued', profile', cloudCall')
  <2>1. issued' \in [Tokens -> TokenRow]
    BY <1>14, <1>a DEF ServeLogout, TokenRow
  <2>2. cloudCall' \in [CloudCalls -> CallRow]
    BY <1>14, <1>a DEF ServeLogout, CallRow
  <2> QED
    BY <1>14, <1>a, <2>1, <2>2 DEF ServeLogout
<1>15. ASSUME NEW k \in CloudCalls, LoggedOut(k)
       PROVE  Typed(issued', profile', cloudCall')
  <2>1. profile' \in ProfileRow
    BY <1>15, <1>a DEF LoggedOut, ProfileRow, ProfileStatus
  <2> QED
    BY <1>2, <1>15, <1>a, <2>1 DEF LoggedOut
<1>16. ASSUME NEW t \in presented, ServePresented(t)
       PROVE  Typed(issued', profile', cloudCall') /\ presented' \subseteq Tokens
  <2>1. issued' \in [Tokens -> TokenRow]
    <3>1. CASE UNCHANGED issued
      BY <1>a, <3>1
    <3>2. ASSUME NEW u \in Tokens, Rotate(t, u) PROVE issued' \in [Tokens -> TokenRow]
      <4>1. State(t) # "unused"
        BY DEF UserInv, IssuedInv
      <4> QED
        BY <1>a, <3>2, <4>1, RotateElements DEF UserInv
    <3> QED
      BY <1>16, <3>1, <3>2 DEF ServePresented
  <2> QED
    BY <1>16, <1>a, <2>1 DEF ServePresented
<1>17. ASSUME AgentRestarts
       PROVE  Typed(issued', profile', cloudCall') /\ presented' \subseteq Tokens
  <2>1. NoCloudCall \in CallRow
    BY DEF NoCloudCall, CallRow, ProfileStatus
  <2>2. cloudCall' \in [CloudCalls -> CallRow]
    BY <1>17, <2>1 DEF AgentRestarts
  <2>3. presented' \subseteq Tokens
    BY <1>17, <1>a DEF AgentRestarts, UserInv, HolderInv, Refreshes, In
  <2> QED
    BY <1>17, <1>a, <2>2, <2>3 DEF AgentRestarts
<1>18. spoiled' \in BOOLEAN
  BY <1>a DEF UserNext, CloudCallStep, LetIn, Login, ServeLogin, LoggedIn, Refresh, ServeRefresh,
     Refreshed, RefreshRefused, RefreshUnanswered, ServePresented, Enroll, EnrollSent,
     Enrolled, Logout, ServeLogout, LoggedOut, CallFails, DisableUser, ClearUserTokens,
     ResetDevice, AgentRestarts
<1>19. ASSUME NEW k \in CloudCalls, CloudCallStep(k)
       PROVE  presented' \subseteq Tokens
  BY <1>19, <1>a DEF CloudCallStep, LetIn, Login, ServeLogin, LoggedIn, Refresh, ServeRefresh,
     Refreshed, RefreshRefused, RefreshUnanswered, Enroll, EnrollSent,
     Enrolled, Logout, ServeLogout, LoggedOut, CallFails, UserInv, HolderInv, Refreshes
<1>20. disabled' \subseteq Users
  BY <1>a DEF UserNext, CloudCallStep, LetIn, Login, ServeLogin, LoggedIn, Refresh, ServeRefresh,
     Refreshed, RefreshRefused, RefreshUnanswered, RefreshFailed, ServePresented, Enroll,
     EnrollSent, Enrolled, Logout, ServeLogout, LoggedOut, CallFails, DisableUser,
     ClearUserTokens, ResetDevice, AgentRestarts
<1>21. ASSUME NEW k \in CloudCalls, LetIn(k)
       PROVE  Typed(issued', profile', cloudCall')
  <2>1. [cloudCall[k] EXCEPT !.at = "allowed"] \in CallRow
    BY <1>a DEF CallRow
  <2>2. cloudCall' = [cloudCall EXCEPT ![k] = [cloudCall[k] EXCEPT !.at = "allowed"]]
    BY <1>21, <1>a DEF LetIn
  <2> QED
    BY <1>1, <1>21, <1>a, <2>1, <2>2 DEF LetIn
<1>22. ASSUME NEW u \in Users, DisableUser(u)
       PROVE  Typed(issued', profile', cloudCall') /\ presented' \subseteq Tokens
  <2>1. issued' \in [Tokens -> TokenRow]
    BY <1>22, <1>a DEF DisableUser, TokenRow
  <2> QED
    BY <1>22, <1>a, <2>1 DEF DisableUser
<1>23. ASSUME ClearUserTokens \/ ResetDevice
       PROVE  Typed(issued', profile', cloudCall') /\ presented' \subseteq Tokens
  <2>1. profile' \in ProfileRow
    BY <1>23, <1>a DEF ClearUserTokens, ResetDevice, ProfileRow, ProfileStatus
  <2> QED
    BY <1>23, <1>a, <2>1 DEF ClearUserTokens, ResetDevice
<1> QED
  BY <1>3, <1>4, <1>5, <1>6, <1>7, <1>8, <1>9, <1>10, <1>11, <1>12, <1>13, <1>14, <1>15, <1>16,
     <1>17, <1>18, <1>19, <1>20, <1>21, <1>22, <1>23 DEF UserNext, CloudCallStep

-----------------------------------------------------------------------------
(* The invariant *)

LEMMA UserInitInv == UserInit => UserInv
<1> SUFFICES ASSUME UserInit PROVE UserInv
  OBVIOUS
<1> USE DEF UserInit, SignedOut, NoCloudCall
<1>1. UserTypeOK
  BY DEF UserTypeOK, ProfileStatus
<1>2. HolderInv /\ LoginInv /\ OneRefreshInv
  BY DEF HolderInv, LoginInv, OneRefreshInv, Refreshes, LogsOut, ServedLogin, In
<1>3. IssuedInv /\ LiveInv
  BY NoTokenIsNone DEF IssuedInv, LiveInv, Refreshes
<1> QED
  BY <1>1, <1>2, <1>3 DEF UserInv

\* The steps of a call that let its token go.
LEMMA LettingGo ==
  ASSUME UserInv, NEW k \in CloudCalls,
         \/ \E u \in Users : Login(k, u)
         \/ RefreshRefused(k) \/ CallFails(k) \/ LoggedOut(k)
         \/ Enroll(k) \/ EnrollSent(k) \/ Enrolled(k)
  PROVE  TokenInv'
<1> USE DEF UserInv, In
<1>a. NoCloudCall.at # "served"
  BY DEF NoCloudCall
<1>1. ASSUME NEW u \in Users, Login(k, u) PROVE TokenInv'
  <2>1. PICK c \in CallRow : /\ c.kind = "login" /\ c.at = "sent" /\ c.token = NoToken
                            /\ Becomes(k, c)
    BY <1>1, BeginsBecomes DEF Login
  <2> QED
    BY <1>1, <2>1, LetsGo DEF Login, IdleCall
<1>2. ASSUME Finished(k), UNCHANGED <<issued, presented, disabled, spoiled>>, ~In(k, "refresh", "served"),
             profile'.token \in {profile.token, NoToken}
      PROVE  TokenInv'
  BY <1>2, <1>a, FinishedBecomes, LetsGo
<1>3. CASE RefreshRefused(k)
  BY <1>2, <1>3 DEF RefreshRefused, RefreshFailed, UserTypeOK
<1>4. CASE CallFails(k)
  BY <1>2, <1>4 DEF CallFails
<1>5. CASE LoggedOut(k)
  BY <1>2, <1>5 DEF LoggedOut, UserTypeOK
<1>6. CASE Enroll(k)
  <2>1. PICK c \in CallRow : /\ c.kind = "enroll" /\ c.at = "waiting" /\ c.token = NoToken
                            /\ Becomes(k, c)
    BY <1>6, BeginsBecomes DEF Enroll
  <2> QED
    BY <1>6, <2>1, LetsGo DEF Enroll, IdleCall
<1>7. CASE EnrollSent(k)
  <2>1. issued[profile.token].user \in Users \cup {NoUser}
    BY <1>7 DEF EnrollSent, UserTypeOK
  <2>2. PICK c \in CallRow : /\ c.kind = "enroll" /\ c.at = "sent" /\ c.token = NoToken
                            /\ Becomes(k, c)
    BY <1>7, <2>1, BeginsBecomes DEF EnrollSent
  <2> QED
    BY <1>7, <2>2, LetsGo DEF EnrollSent
<1>8. CASE Enrolled(k)
  BY <1>2, <1>8 DEF Enrolled, UserTypeOK
<1> QED
  BY <1>1, <1>3, <1>4, <1>5, <1>6, <1>7, <1>8

LEMMA UnansweredKeeps ==
  ASSUME UserInv, NEW k \in CloudCalls, RefreshUnanswered(k)
  PROVE  TokenInv'
<1> USE DEF UserInv, In, RefreshUnanswered
<1>0. Finished(k) /\ UNCHANGED <<issued, disabled>> /\ profile'.token \in {profile.token, NoToken}
  BY DEF RefreshFailed, UserTypeOK
<1>1. CASE presented' = presented \cup {cloudCall[k].token} /\ spoiled' = TRUE
  BY <1>0, <1>1, AbandonKeeps DEF Refreshes
<1>2. ASSUME UNCHANGED presented, In(k, "refresh", "served") => spoiled', spoiled => spoiled'
      PROVE  TokenInv'
  <2>1. NoCloudCall.at # "served"
    BY DEF NoCloudCall
  <2> QED
    BY <1>0, <1>2, <2>1, FinishedBecomes, LetsGo
<1>3. CASE cloudCall[k].at \in {"sent", "allowed"} /\ UNCHANGED <<presented, spoiled>>
  BY <1>2, <1>3
<1>4. CASE cloudCall[k].at = "served" /\ spoiled' = TRUE /\ UNCHANGED presented
  BY <1>2, <1>4
<1> QED
  BY <1>1, <1>3, <1>4

\* Only the row changes, and its token, if it does, to none.
LEMMA ForgetsKeeps ==
  ASSUME UserInv, UNCHANGED <<issued, cloudCall, presented, disabled, spoiled>>,
         profile'.token \in {profile.token, NoToken}
  PROVE  TokenInv'
BY NoTokenIsNone
DEF UserInv, TokenInv, HolderInv, IssuedInv, LoginInv, OneRefreshInv, LiveInv, Refreshes,
    LogsOut, ServedLogin, In, State, Owner, Good, Safe

\* A call that is let in has changed hands with nobody.
LEMMA LetInKeeps ==
  ASSUME UserInv, NEW k \in CloudCalls, LetIn(k)
  PROVE  TokenInv'
<1> USE DEF UserInv, Refreshes, LogsOut, ServedLogin, In, State, Owner, Good
<1>1. /\ cloudCall[k].at = "sent" /\ cloudCall'[k].at = "allowed"
      /\ cloudCall'[k].kind = cloudCall[k].kind /\ cloudCall'[k].token = cloudCall[k].token
      /\ \A j \in CloudCalls \ {k} : cloudCall'[j] = cloudCall[j]
      /\ UNCHANGED <<issued, profile, presented, disabled, spoiled>>
  BY DEF LetIn, UserTypeOK
<1>2. \A j \in CloudCalls : /\ cloudCall'[j].kind = cloudCall[j].kind
                            /\ cloudCall'[j].token = cloudCall[j].token
                            /\ cloudCall'[j].at = "served" <=> cloudCall[j].at = "served"
  BY <1>1
<1>3. HolderInv' /\ IssuedInv' /\ OneRefreshInv'
  BY <1>1, <1>2 DEF HolderInv, IssuedInv, OneRefreshInv
<1>4. LoginInv'
  BY <1>1, <1>2 DEF LoginInv
<1>5. LiveInv'
  BY <1>1, <1>2 DEF LiveInv, Safe
<1> QED
  BY <1>3, <1>4, <1>5 DEF TokenInv

\* Disabling a user leaves every token good that was, or excused.
LEMMA DisableKeeps ==
  ASSUME UserInv, NEW u \in Users, DisableUser(u)
  PROVE  TokenInv'
<1> USE DEF UserInv, Refreshes, LogsOut, ServedLogin, In
<1>1. UNCHANGED <<profile, cloudCall, presented, spoiled>>
  BY DEF DisableUser
<1>2. \A t \in Tokens : /\ State(t) # "unused" => State(t)' # "unused"
                        /\ Good(t) => Good(t)'
  BY DEF DisableUser, UserTypeOK, State, Owner, Good
<1>3. HolderInv' /\ OneRefreshInv'
  BY <1>1 DEF HolderInv, OneRefreshInv
<1>4. IssuedInv' /\ LoginInv'
  BY <1>1, <1>2 DEF IssuedInv, LoginInv, HolderInv, UserTypeOK
<1>5. LiveInv'
  BY <1>1, <1>2 DEF LiveInv, HolderInv, Safe
<1> QED
  BY <1>3, <1>4, <1>5 DEF TokenInv

LEMMA UserStepInv == UserInv /\ [UserNext]_userVars => UserInv'
<1> SUFFICES ASSUME UserInv, [UserNext]_userVars PROVE UserInv'
  OBVIOUS
<1>1. CASE UNCHANGED userVars
  BY <1>1 DEF userVars, UserInv, UserTypeOK, HolderInv, IssuedInv, LoginInv, OneRefreshInv,
     LiveInv, Refreshes, LogsOut, ServedLogin, In, State, Owner, Good, Safe
<1>2. ASSUME UserNext PROVE TokenInv'
  <2>1. ASSUME NEW k \in CloudCalls, CloudCallStep(k) PROVE TokenInv'
    <3>1. CASE Logout(k)
      <4>1. CASE profile.token # NoToken
        BY <3>1, <4>1, SignsOutKeeps
      <4>2. CASE profile.token = NoToken
        BY <3>1, <4>2, ForgetsKeeps DEF Logout, UserInv, UserTypeOK
      <4> QED
        BY <4>1, <4>2
    <3>2. CASE ServeLogin(k) \/ LoggedIn(k)
      BY <3>2, ServeLoginKeeps, LoggedInKeeps
    <3>3. CASE Refresh(k) \/ ServeRefresh(k) \/ Refreshed(k) \/ RefreshUnanswered(k)
      BY <3>3, RefreshKeeps, ServeRefreshKeeps, RefreshedKeeps, UnansweredKeeps
    <3>4. CASE ServeLogout(k) \/ LetIn(k)
      BY <3>4, ServeLogoutKeeps, LetInKeeps
    <3> QED
      BY <2>1, <3>1, <3>2, <3>3, <3>4, LettingGo DEF CloudCallStep
  <2>2. CASE ClearUserTokens \/ ResetDevice
    BY <2>2, ForgetsKeeps DEF ClearUserTokens, ResetDevice, UserInv, UserTypeOK
  <2> QED
    BY <1>2, <2>1, <2>2, ServePresentedKeeps, DisableKeeps, RestartKeeps DEF UserNext
<1>3. ASSUME UserNext PROVE UserInv'
  BY <1>2, <1>3, StepTypes DEF UserInv, TokenInv
<1> QED
  BY <1>1, <1>3

\* Who holds which token, and that tokens at rest and in flight are good, but for a
\* user the admin disabled, a logout or a lost answer, holds in every reachable state.
THEOREM UserInvariance == UserSpec => []UserInv
<1>1. UserInit => UserInv
  BY UserInitInv
<1>2. UserInv /\ [UserNext]_userVars => UserInv'
  BY UserStepInv
<1> QED
  BY <1>1, <1>2, PTL DEF UserSpec

\* The identity row, the calls in flight and the issued tokens stay in their types.
THEOREM UserTypeCorrect == UserSpec => []UserTypeOK
<1>1. UserInv => UserTypeOK
  BY DEF UserInv
<1> QED
  BY <1>1, UserInvariance, PTL

\* A refresh never presents a used token, for any number of calls that overlap,
\* unless the admin disabled its user (AdminRoutes), or a logout or an answer nobody
\* took came first (UserTokenManager).
THEOREM LiveTokens == UserSpec => []PresentsLiveToken
<1>1. UserInv => PresentsLiveToken
  <2> SUFFICES ASSUME UserInv, ~spoiled PROVE PresentsLiveToken
    BY DEF PresentsLiveToken
  <2>1. \A k \in CloudCalls :
          cloudCall[k].kind = "refresh" => Good(cloudCall[k].token)
    BY DEF UserInv, LiveInv, Refreshes
  <2>2. profile.token # NoToken /\ ~Refreshing => Good(profile.token)
    <3>1. ~Refreshing => ~ \E k \in CloudCalls : In(k, "refresh", "served")
      BY DEF Refreshing, In
    <3>2. profile.token # NoToken => profile.token \in Tokens
      BY DEF UserInv, UserTypeOK
    <3> QED
      BY <3>1, <3>2 DEF UserInv, LiveInv
  <2> QED
    BY <2>1, <2>2 DEF PresentsLiveToken, Good, State, Owner
<1> QED
  BY <1>1, UserInvariance, PTL

-----------------------------------------------------------------------------
(* Whose token it is *)

\* A token that was issued stays its user's, and is never good again once it was used:
\* it is good for one refresh.
TokensAreUsedOnce ==
  [][\A t \in Tokens : issued[t].state # "unused" =>
       /\ issued'[t].state # "unused" /\ issued'[t].user = issued[t].user
       /\ issued[t].state = "revoked" => issued'[t].state = "revoked"]_issued

LEMMA OwnerOfRotated ==
  ASSUME UserTypeOK, NEW old \in Tokens, NEW new \in Tokens, Rotate(old, new)
  PROVE  Owner(new)' = Owner(old) /\ \A t \in Tokens \ {new} : Owner(t)' = Owner(t)
BY DEF UserTypeOK, Rotate, Owner

LEMMA OwnerStays ==
  ASSUME UserInv, [UserNext]_userVars, NEW t \in Tokens, State(t) # "unused"
  PROVE  /\ State(t)' # "unused" /\ Owner(t)' = Owner(t)
         /\ State(t) = "revoked" => State(t)' = "revoked"
<1> DEFINE Kept == /\ State(t)' # "unused" /\ Owner(t)' = Owner(t)
                   /\ State(t) = "revoked" => State(t)' = "revoked"
<1> USE DEF UserInv
<1>0. ASSUME UNCHANGED issued PROVE Kept
  BY <1>0 DEF State, Owner
<1>1. ASSUME NEW s \in Tokens, NEW u \in Users \cup {NoUser}, Issue(s, u) PROVE Kept
  BY <1>1 DEF Issue, State, Owner, UserTypeOK
<1>2. ASSUME NEW old \in Tokens, State(old) # "unused", NEW new \in Tokens, Rotate(old, new)
      PROVE  Kept
  <2>1. t # new /\ (t = old => State(t)' = "revoked") /\ (t # old => State(t)' = State(t))
    BY <1>2, RotateElements
  <2>2. Owner(t)' = Owner(t)
    BY <1>2, <2>1, OwnerOfRotated
  <2> QED
    BY <2>1, <2>2
<1>3. ASSUME NEW k \in CloudCalls, ServeLogin(k) PROVE Kept
  <2>1. cloudCall[k].user \in Users \cup {NoUser}
    BY DEF UserTypeOK
  <2> QED
    BY <1>1, <1>3, <2>1 DEF ServeLogin
<1>4. ASSUME NEW k \in CloudCalls, ServeRefresh(k) PROVE Kept
  <2>1. cloudCall[k].token \in Tokens /\ State(cloudCall[k].token) # "unused"
    BY <1>4 DEF ServeRefresh, In, HolderInv, IssuedInv, Refreshes
  <2> QED
    BY <1>2, <1>4, <2>1 DEF ServeRefresh
<1>5. ASSUME NEW k \in CloudCalls, ServeLogout(k) PROVE Kept
  <2>1. cloudCall[k].token \in Tokens
    BY <1>5 DEF ServeLogout, In, HolderInv, LogsOut
  <2> QED
    BY <1>5, <2>1 DEF ServeLogout, State, Owner, UserTypeOK
<1>6. ASSUME NEW s \in presented, ServePresented(s) PROVE Kept
  <2>1. s \in Tokens /\ State(s) # "unused"
    BY DEF UserTypeOK, IssuedInv
  <2> QED
    BY <1>0, <1>2, <1>6, <2>1 DEF ServePresented
<1>7. ASSUME AgentRestarts PROVE Kept
  BY <1>0, <1>7 DEF AgentRestarts
<1>8. ASSUME UNCHANGED userVars PROVE Kept
  BY <1>0, <1>8 DEF userVars
<1>9. ASSUME NEW k \in CloudCalls, CloudCallStep(k), ~ServeLogin(k), ~ServeRefresh(k),
             ~ServeLogout(k)
      PROVE  UNCHANGED issued
  BY <1>9 DEF CloudCallStep, LetIn, Login, LoggedIn, Refresh, Refreshed, RefreshRefused,
     RefreshUnanswered, RefreshFailed, Enroll, EnrollSent, Enrolled, Logout, LoggedOut, CallFails
<1>a. ASSUME NEW u \in Users, DisableUser(u) PROVE Kept
  BY <1>a DEF DisableUser, State, Owner, UserTypeOK
<1>b. ASSUME ClearUserTokens \/ ResetDevice PROVE Kept
  BY <1>0, <1>b DEF ClearUserTokens, ResetDevice
<1> HIDE DEF Kept
<1>10. ASSUME NEW k \in CloudCalls, CloudCallStep(k) PROVE Kept
  BY <1>0, <1>3, <1>4, <1>5, <1>9, <1>10
<1>11. Kept
  BY <1>6, <1>7, <1>8, <1>10, <1>a, <1>b DEF UserNext
<1> QED
  BY <1>11 DEF Kept

\* No answer, late, lost or repeated, makes a used refresh token good again
\* (AuthService: revoke the old and insert the new in one transaction).
THEOREM TokensUsedOnce == UserSpec => TokensAreUsedOnce
<1>1. UserInv /\ [UserNext]_userVars =>
        [\A t \in Tokens : issued[t].state # "unused" =>
           /\ issued'[t].state # "unused" /\ issued'[t].user = issued[t].user
           /\ issued[t].state = "revoked" => issued'[t].state = "revoked"]_issued
  BY OwnerStays DEF State, Owner
<1> QED
  BY <1>1, UserInvariance, PTL DEF UserSpec, TokensAreUsedOnce

-----------------------------------------------------------------------------
(* One call at a time *)

\* The row is one user's: the token at rest, the user and the device it names.
RowIsOneUsers ==
  profile.token # NoToken =>
    /\ profile.user = issued[profile.token].user
    /\ profile.device \in {NoUser, profile.user}

\* What a call in flight will write is of the user whose row it finds.
CallAgrees(k) ==
  /\ In(k, "login", "served") => Owner(cloudCall[k].token) = cloudCall[k].user
  /\ Refreshes(k) => Owner(cloudCall[k].token) = profile.user
  /\ In(k, "enroll", "sent") \/ In(k, "enroll", "allowed") => cloudCall[k].user = profile.user

RowAgrees ==
  /\ profile.device \in {NoUser, profile.user}
  /\ profile.token \in Tokens => profile.user = Owner(profile.token)

IdentityInv == RowAgrees /\ \A k \in CloudCalls : CallAgrees(k)

\* An answer leaves the call what it was, and whose.
LEMMA AnsweredRow ==
  ASSUME UserTypeOK, NEW k \in CloudCalls, NEW t \in Tokens, Answer(k, t)
  PROVE  /\ cloudCall'[k].kind = cloudCall[k].kind /\ cloudCall'[k].token = t
         /\ cloudCall'[k].user = cloudCall[k].user
<1>1. cloudCall[k] \in CallRow
  BY DEF UserTypeOK, CallRow
<1>2. cloudCall'[k] = [cloudCall[k] EXCEPT !.at = "served", !.token = t]
  BY DEF Answer, UserTypeOK
<1> QED
  BY <1>1, <1>2 DEF CallRow

\* With one call at a time, each step keeps the row and the call of one user.
LEMMA AloneCallStep ==
  ASSUME \A j, k \in CloudCalls : j = k, UserInv, UserInv', IdentityInv,
         NEW k \in CloudCalls, CloudCallStep(k)
  PROVE  IdentityInv'
<1> USE DEF UserInv
<1>c. ASSUME RowAgrees', CallAgrees(k)' PROVE IdentityInv'
  BY <1>c DEF IdentityInv
<1>o. ASSUME NEW t \in Tokens, State(t) # "unused" PROVE Owner(t)' = Owner(t)
  <2>1. [UserNext]_userVars
    BY DEF UserNext
  <2> QED
    BY <1>o, <2>1, OwnerStays
<1>t. /\ profile \in ProfileRow
      /\ profile.token \in Tokens => State(profile.token) # "unused"
      /\ cloudCall[k].token \in Tokens => State(cloudCall[k].token) # "unused"
  BY DEF UserTypeOK, ProfileRow, IssuedInv
<1>f. ASSUME Finished(k) PROVE CallAgrees(k)'
  <2>1. cloudCall'[k].kind = "none"
    BY <1>f, FinishedBecomes, BecomesElements
  <2> QED
    BY <2>1 DEF CallAgrees, In, Refreshes
<1>p. ASSUME UNCHANGED profile PROVE RowAgrees'
  BY <1>o, <1>p, <1>t DEF IdentityInv, RowAgrees
<1>1. ASSUME NEW u \in Users, Login(k, u) PROVE IdentityInv'
  <2>1. cloudCall'[k].kind = "login" /\ cloudCall'[k].at = "sent" /\ UNCHANGED profile
    BY <1>1, BeginsBecomes, BecomesElements DEF Login
  <2> QED
    BY <1>c, <1>p, <2>1 DEF CallAgrees, In, Refreshes
<1>2. CASE ServeLogin(k)
  <2>1. PICK t \in Tokens : Issue(t, cloudCall[k].user) /\ Answer(k, t)
    BY <1>2 DEF ServeLogin
  <2>2. Owner(t)' = cloudCall[k].user
    BY <2>1 DEF Issue, Owner, UserTypeOK
  <2>3. /\ cloudCall'[k].kind = "login" /\ cloudCall'[k].token = t
        /\ cloudCall'[k].user = cloudCall[k].user
    BY <1>2, <2>1, AnsweredRow DEF ServeLogin, In
  <2>4. CallAgrees(k)'
    BY <2>2, <2>3 DEF CallAgrees, In, Refreshes, Owner
  <2> QED
    BY <1>2, <1>c, <1>p, <2>4 DEF ServeLogin
<1>3. CASE LoggedIn(k)
  <2>1. Owner(cloudCall[k].token) = cloudCall[k].user /\ UNCHANGED issued
    BY <1>3 DEF LoggedIn, IdentityInv, CallAgrees
  <2>2. RowAgrees'
    BY <1>3, <2>1 DEF LoggedIn, RowAgrees, Owner
  <2> QED
    BY <1>3, <1>c, <1>f, <2>2 DEF LoggedIn
<1>4. CASE Refresh(k)
  <2>1. /\ profile.token \in Tokens /\ UNCHANGED <<issued, profile>>
        /\ profile.user = Owner(profile.token)
    BY <1>4, <1>t DEF Refresh, ProfileRow, IdentityInv, RowAgrees
  <2>2. cloudCall'[k].kind = "refresh" /\ cloudCall'[k].token = profile.token
    BY <1>4, BeginsBecomes, BecomesElements, <2>1 DEF Refresh
  <2>3. CallAgrees(k)'
    BY <2>1, <2>2 DEF CallAgrees, In, Refreshes, Owner
  <2> QED
    BY <1>c, <1>p, <2>1, <2>3
<1>5. CASE ServeRefresh(k)
  <2>1. PICK t \in Tokens : Rotate(cloudCall[k].token, t) /\ Answer(k, t)
    BY <1>5 DEF ServeRefresh
  <2>2. /\ cloudCall[k].token \in Tokens /\ UNCHANGED profile
        /\ Owner(cloudCall[k].token) = profile.user
    BY <1>5 DEF ServeRefresh, In, HolderInv, Refreshes, IdentityInv, CallAgrees
  <2>3. Owner(t)' = Owner(cloudCall[k].token)
    BY <2>1, <2>2, OwnerOfRotated
  <2>4. cloudCall'[k].kind = "refresh" /\ cloudCall'[k].token = t
    BY <1>5, <2>1, AnsweredRow DEF ServeRefresh, In
  <2>5. CallAgrees(k)'
    BY <2>2, <2>3, <2>4 DEF CallAgrees, In, Refreshes, Owner
  <2> QED
    BY <1>c, <1>p, <2>2, <2>5
<1>6. CASE Refreshed(k)
  <2>1. /\ UNCHANGED issued /\ Owner(cloudCall[k].token) = profile.user
        /\ profile.device \in {NoUser, profile.user}
    BY <1>6 DEF Refreshed, In, Refreshes, IdentityInv, CallAgrees, RowAgrees
  <2>2. /\ profile'.token = cloudCall[k].token /\ profile'.user = profile.user
        /\ profile'.device = profile.device
    BY <1>6, <1>t DEF Refreshed, ProfileRow
  <2>3. RowAgrees'
    BY <2>1, <2>2 DEF RowAgrees, Owner
  <2> QED
    BY <1>6, <1>c, <1>f, <2>3 DEF Refreshed
<1>7. CASE RefreshRefused(k) \/ RefreshUnanswered(k) \/ CallFails(k)
  <2>1. CASE CallFails(k)
    BY <1>c, <1>f, <1>p, <2>1 DEF CallFails
  <2>2. CASE RefreshFailed(k)
    <3>1. \/ UNCHANGED profile
          \/ /\ profile'.token = NoToken /\ profile'.user = profile.user
             /\ profile'.device = profile.device
      BY <1>t, <2>2 DEF RefreshFailed, ProfileRow
    <3>2. RowAgrees'
      BY <1>p, <3>1, NoTokenIsNone DEF IdentityInv, RowAgrees
    <3> QED
      BY <1>c, <1>f, <2>2, <3>2 DEF RefreshFailed
  <2> QED
    BY <1>7, <2>1, <2>2 DEF RefreshRefused, RefreshUnanswered
<1>8. CASE Enroll(k)
  <2>1. cloudCall'[k].kind = "enroll" /\ cloudCall'[k].at = "waiting" /\ UNCHANGED profile
    BY <1>8, BeginsBecomes, BecomesElements DEF Enroll
  <2> QED
    BY <1>c, <1>p, <2>1 DEF CallAgrees, In, Refreshes
<1>9. CASE EnrollSent(k)
  <2>1. /\ profile.token \in Tokens /\ UNCHANGED <<issued, profile>>
        /\ profile.user = Owner(profile.token)
    BY <1>9, <1>t DEF EnrollSent, ProfileRow, IdentityInv, RowAgrees
  <2>2. Owner(profile.token) \in Users \cup {NoUser}
    BY <2>1 DEF UserTypeOK, Owner
  <2>3. cloudCall'[k].kind = "enroll" /\ cloudCall'[k].user = Owner(profile.token)
    BY <1>9, <2>2, BeginsBecomes, BecomesElements DEF EnrollSent, Owner
  <2>4. CallAgrees(k)'
    BY <2>1, <2>3 DEF CallAgrees, In, Refreshes, Owner
  <2> QED
    BY <1>c, <1>p, <2>1, <2>4
<1>10. CASE Enrolled(k)
  <2>1. /\ UNCHANGED issued /\ cloudCall[k].user = profile.user
        /\ profile.token \in Tokens => profile.user = Owner(profile.token)
    BY <1>10 DEF Enrolled, In, IdentityInv, CallAgrees, RowAgrees
  <2>2. /\ profile'.token = profile.token /\ profile'.user = cloudCall[k].user
        /\ profile'.device = cloudCall[k].user
    BY <1>10, <1>t DEF Enrolled, ProfileRow
  <2>3. RowAgrees'
    BY <2>1, <2>2 DEF RowAgrees, Owner
  <2> QED
    BY <1>10, <1>c, <1>f, <2>3 DEF Enrolled
<1>11. CASE Logout(k)
  <2>1. CASE profile.token = NoToken
    <3>1. /\ profile'.token = NoToken /\ profile'.device = NoUser
          /\ cloudCall'[k].kind = "none"
      BY <1>11, <1>t, <2>1 DEF Logout, IdleCall, ProfileRow
    <3> QED
      BY <1>c, <3>1, NoTokenIsNone DEF RowAgrees, CallAgrees, In, Refreshes
  <2>2. CASE profile.token # NoToken
    <3>1. cloudCall'[k].kind = "logout" /\ UNCHANGED profile
      BY <1>11, <1>t, <2>2, BeginsBecomes, BecomesElements DEF Logout, ProfileRow
    <3> QED
      BY <1>c, <1>p, <3>1 DEF CallAgrees, In, Refreshes
  <2> QED
    BY <2>1, <2>2
<1>12. CASE ServeLogout(k)
  <2>1. cloudCall'[k].kind = "logout" /\ UNCHANGED profile
    BY <1>12 DEF ServeLogout, In, UserTypeOK
  <2> QED
    BY <1>c, <1>p, <2>1 DEF CallAgrees, In, Refreshes
<1>13. CASE LoggedOut(k)
  <2>1. profile'.token = NoToken /\ profile'.device = NoUser
    BY <1>13, <1>t DEF LoggedOut, ProfileRow
  <2> QED
    BY <1>13, <1>c, <1>f, <2>1, NoTokenIsNone DEF LoggedOut, RowAgrees
<1>14. CASE LetIn(k)
  <2>1. /\ UNCHANGED <<issued, profile>> /\ cloudCall[k].at = "sent"
        /\ cloudCall'[k].kind = cloudCall[k].kind /\ cloudCall'[k].at = "allowed"
        /\ cloudCall'[k].user = cloudCall[k].user /\ cloudCall'[k].token = cloudCall[k].token
    BY <1>14 DEF LetIn, UserTypeOK
  <2>2. CallAgrees(k)'
    BY <2>1 DEF IdentityInv, CallAgrees, In, Refreshes, Owner
  <2> QED
    BY <1>c, <1>p, <2>1, <2>2
<1> QED
  BY <1>1, <1>2, <1>3, <1>4, <1>5, <1>6, <1>7, <1>8, <1>9, <1>10, <1>11, <1>12, <1>13, <1>14
  DEF CloudCallStep

\* Where calls do not overlap, the row of the local agent is always one user's, over
\* logins, refreshes served late or refused, enrollments, logouts, resets, restarts and
\* disabled users: what mixes two users is a call that writes over what another has made
\* of the row.
THEOREM OneIdentityAlone ==
  ASSUME \A j, k \in CloudCalls : j = k
  PROVE  UserSpec => []RowIsOneUsers
<1>1. UserInit => IdentityInv
  BY NoTokenIsNone DEF UserInit, SignedOut, NoCloudCall, IdentityInv, RowAgrees, CallAgrees, In,
                       Refreshes
<1>2. UserInv /\ UserInv' /\ IdentityInv /\ [UserNext]_userVars => IdentityInv'
  <2> SUFFICES ASSUME UserInv, UserInv', IdentityInv, [UserNext]_userVars PROVE IdentityInv'
    OBVIOUS
  <2>1. ASSUME profile'.user = profile.user, profile'.token \in {profile.token, NoToken},
               profile'.device \in {profile.device, NoUser},
               \A k \in CloudCalls : cloudCall'[k].kind = "none" \/ cloudCall'[k] = cloudCall[k]
        PROVE  IdentityInv'
    <3>1. ASSUME NEW t \in Tokens, State(t) # "unused"
          PROVE  issued'[t].user = issued[t].user
      BY <3>1, OwnerStays DEF Owner
    <3>2. /\ profile.token \in Tokens => issued'[profile.token].user = issued[profile.token].user
          /\ \A k \in CloudCalls :
               cloudCall[k].token \in Tokens =>
                 issued'[cloudCall[k].token].user = issued[cloudCall[k].token].user
      BY <3>1 DEF UserInv, IssuedInv
    <3>3. RowAgrees'
      BY <2>1, <3>2, NoTokenIsNone DEF IdentityInv, RowAgrees, Owner
    <3>4. ASSUME NEW k \in CloudCalls PROVE CallAgrees(k)'
      <4>1. CASE cloudCall'[k].kind = "none"
        BY <4>1 DEF CallAgrees, In, Refreshes
      <4>2. CASE cloudCall'[k] = cloudCall[k]
        <5>1. Refreshes(k) \/ In(k, "login", "served") => cloudCall[k].token \in Tokens
          BY DEF UserInv, HolderInv, ServedLogin
        <5> QED
          BY <2>1, <3>2, <4>2, <5>1 DEF IdentityInv, CallAgrees, In, Refreshes, Owner
      <4> QED
        BY <2>1, <4>1, <4>2
    <3> QED
      BY <3>3, <3>4 DEF IdentityInv
  <2>2. ASSUME NEW t \in presented, ServePresented(t) PROVE IdentityInv'
    BY <2>1, <2>2 DEF ServePresented
  <2>3. CASE AgentRestarts
    BY <2>1, <2>3 DEF AgentRestarts, NoCloudCall
  <2>5. ASSUME NEW u \in Users, DisableUser(u) PROVE IdentityInv'
    BY <2>1, <2>5 DEF DisableUser
  <2>6. CASE ClearUserTokens \/ ResetDevice
    BY <2>1, <2>6 DEF ClearUserTokens, ResetDevice, UserInv, UserTypeOK
  <2>4. CASE UNCHANGED userVars
    BY <2>1, <2>4 DEF userVars
  <2> QED
    BY <2>2, <2>3, <2>4, <2>5, <2>6, AloneCallStep DEF UserNext
<1>3. UserInv /\ IdentityInv => RowIsOneUsers
  BY DEF UserInv, UserTypeOK, IdentityInv, RowAgrees, RowIsOneUsers, Owner
<1> QED
  BY <1>1, <1>2, <1>3, UserInvariance, PTL DEF UserSpec

-----------------------------------------------------------------------------
(* The audit chain *)

\* A row belongs to an append that has ended.
EndedInv == \A r \in rows : append[r.id].at = "ended"

\* The rows there are have a last one.
Latest(r) == \A s \in rows \ {r} : Before(s, r)
LatestInv == rows = {} \/ \E r \in rows : Latest(r)

\* No row and no append is from the future.
PastInv ==
  /\ \A r \in rows : r.time <= clock
  /\ \A a \in Ids : append[a].time <= clock

\* As long as none overlapped: one append at a time, later than every row, and
\* what it has read is still the last row.
AloneInv ==
  ~overlapped =>
    /\ \A a, b \in Ids : UnderWay(a) /\ UnderWay(b) => a = b
    /\ \A a \in Ids : UnderWay(a) => \A r \in rows : r.time < append[a].time
    /\ \A a \in Ids : append[a].at = "read" => append[a].prev = Last(rows)

AuditInv ==
  /\ AuditTypeOK /\ EndedInv /\ LatestInv /\ PastInv
  /\ AloneInv /\ AuditVerifies

AuditRow == [id : Ids, time : 0 .. MaxClock, prev : Ids \cup {NoRow}]

-----------------------------------------------------------------------------

LEMMA RowNumbers ==
  ASSUME NEW r \in AuditRow PROVE r.id \in Nat /\ r.time \in Nat
<1>1. r.id \in Ids /\ r.time \in 0 .. MaxClock
  BY DEF AuditRow
<1>2. Ids \subseteq Nat /\ MaxClock \in Nat
  BY AuditConstants
<1>3. r.id \in Nat
  BY <1>1, <1>2
<1>4. r.time \in Nat
  BY <1>1, <1>2
<1> QED
  BY <1>3, <1>4

\* Of two rows with different ids one comes before the other.
LEMMA BeforeTotal ==
  ASSUME NEW r \in AuditRow, NEW s \in AuditRow, r.id # s.id
  PROVE  Before(r, s) \/ Before(s, r)
BY RowNumbers DEF Before

\* The order of the rows is transitive, and no row comes before itself.
LEMMA BeforeOrder ==
  ASSUME NEW r \in AuditRow, NEW s \in AuditRow, NEW q \in AuditRow
  PROVE  /\ Before(r, s) /\ Before(s, q) => Before(r, q)
         /\ ~Before(r, r)
BY RowNumbers DEF Before

\* Last is the id of a row, if there are rows.
LEMMA LastIsRow ==
  ASSUME AuditTypeOK, LatestInv
  PROVE  Last(rows) \in Ids \cup {NoRow}
<1>1. CASE rows = {}
  BY <1>1 DEF Last
<1>2. CASE rows # {}
  <2> DEFINE last == CHOOSE r \in rows : \A s \in rows \ {r} : Before(s, r)
  <2>1. last \in rows
    BY <1>2 DEF LatestInv, Latest
  <2>2. last.id \in Ids
    BY <2>1 DEF AuditTypeOK
  <2> QED
    BY <1>2, <2>2 DEF Last
<1> QED
  BY <1>1, <1>2

LEMMA AuditInitInv == AuditInit => AuditInv
<1> SUFFICES ASSUME AuditInit PROVE AuditInv
  OBVIOUS
<1> USE AuditConstants DEF AuditInit, NotAppending, NoRow
<1>1. AuditTypeOK
  <2>1. 0 \in 0 .. MaxClock
    OBVIOUS
  <2> QED
    BY <2>1 DEF AuditTypeOK
<1>2. EndedInv /\ LatestInv /\ PastInv
  BY DEF EndedInv, LatestInv, PastInv
<1>3. AloneInv /\ AuditVerifies
  BY DEF AloneInv, UnderWay, AuditVerifies, Verifies
<1> QED
  BY <1>1, <1>2, <1>3 DEF AuditInv

-----------------------------------------------------------------------------

\* The id is drawn and the time taken: nothing is under way before, or it overlaps.
LEMMA AuditBeginStep ==
  ASSUME AuditInv, NEW a \in Ids, AppendBegin(a) PROVE AuditInv'
<1> USE AuditConstants DEF AuditInv, AppendBegin, NoRow
<1>1. AuditTypeOK'
  BY DEF AuditTypeOK
<1>2. EndedInv'
  BY DEF AuditTypeOK, EndedInv
<1>3. LatestInv'
  BY DEF LatestInv, Latest, Before
<1>4. PastInv'
  BY DEF PastInv, AuditTypeOK
<1>5. ASSUME ~overlapped' PROVE AloneInv!2'
  <2>1. ~overlapped /\ (\A b \in Ids : ~UnderWay(b)) /\ (\A r \in rows : r.time # clock)
    BY <1>5
  <2>2. \A b \in Ids \ {a} : append'[b] = append[b]
    BY DEF AuditTypeOK
  <2>3. append'[a] = [at |-> "begun", time |-> clock, prev |-> 0]
    BY DEF AuditTypeOK
  <2>4. \A b \in Ids \ {a} : ~UnderWay(b)' /\ append'[b].at # "read"
    BY <2>1, <2>2 DEF UnderWay
  <2>5. \A r \in rows : r.time < clock
    BY <2>1 DEF PastInv, AuditTypeOK
  <2>6. (\A b, c \in Ids : UnderWay(b) /\ UnderWay(c) => b = c)'
    BY <2>4
  <2>7. (\A b \in Ids : UnderWay(b) => \A r \in rows : r.time < append[b].time)'
    BY <2>3, <2>4, <2>5
  <2>8. (\A b \in Ids : append[b].at = "read" => append[b].prev = Last(rows))'
    BY <2>3, <2>4
  <2> QED
    BY <2>6, <2>7, <2>8
<1>6. AloneInv'
  BY <1>5 DEF AloneInv
<1>7. AuditVerifies'
  BY DEF AuditVerifies, Verifies, Last, Before
<1> QED
  BY <1>1, <1>2, <1>3, <1>4, <1>6, <1>7

\* What is read is the last row there is.
LEMMA AuditReadStep ==
  ASSUME AuditInv, NEW a \in Ids, AppendRead(a) PROVE AuditInv'
<1> USE DEF AuditInv
<1>0. Last(rows) \in Ids \cup {NoRow}
  BY LastIsRow
<1>a. rows' = rows /\ clock' = clock /\ overlapped' = overlapped
  BY DEF AppendRead
<1>1. AuditTypeOK'
  BY <1>0, <1>a DEF AuditTypeOK, AppendRead
<1>2. EndedInv'
  BY DEF AuditTypeOK, EndedInv, AppendRead
<1>3. LatestInv'
  BY <1>a DEF LatestInv, Latest, Before
<1>4. PastInv'
  BY DEF PastInv, AuditTypeOK, AppendRead
<1>5. AloneInv'
  <2>1. \A b \in Ids \ {a} : append'[b] = append[b]
    BY DEF AuditTypeOK, AppendRead
  <2>2. append[a].at = "begun" /\ append'[a].at = "read" /\ append'[a].time = append[a].time
        /\ append'[a].prev = Last(rows)
    BY DEF AuditTypeOK, AppendRead
  <2>3. \A b \in Ids : UnderWay(b)' <=> UnderWay(b)
    BY <2>1, <2>2 DEF UnderWay
  <2>4. Last(rows)' = Last(rows)
    BY <1>a DEF Last, Before
  <2> QED
    BY <1>a, <2>1, <2>2, <2>3, <2>4 DEF AloneInv
<1>6. AuditVerifies'
  BY <1>a DEF AuditVerifies, Verifies, Last, Before
<1> QED
  BY <1>1, <1>2, <1>3, <1>4, <1>5, <1>6

\* A row is added behind all others, or, once appends have overlapped, anywhere.
LEMMA LatestStays ==
  ASSUME AuditTypeOK, LatestInv, NEW r \in AuditRow, \A s \in rows : s.id # r.id,
         rows' = rows \cup {r}
  PROVE  LatestInv'
<1>1. CASE rows = {}
  BY <1>1 DEF LatestInv, Latest
<1>2. CASE rows # {}
  <2>1. PICK last \in rows : Latest(last)
    BY <1>2 DEF LatestInv
  <2>2. rows \subseteq AuditRow
    BY DEF AuditTypeOK, AuditRow
  <2>3. CASE Before(last, r)
    <3>1. \A s \in rows : Before(s, r)
      BY <2>1, <2>2, <2>3, BeforeOrder DEF Latest
    <3> QED
      BY <3>1 DEF LatestInv, Latest, Before
  <2>4. CASE Before(r, last)
    BY <2>1, <2>4 DEF LatestInv, Latest, Before
  <2> QED
    BY <2>1, <2>2, <2>3, <2>4, BeforeTotal
<1> QED
  BY <1>1, <1>2

\* Nothing has come in since a read: the row follows the last one, and nothing
\* comes between rows that were there.
LEMMA AuditInsertStep ==
  ASSUME AuditInv, NEW a \in Ids, AppendInsert(a) PROVE AuditInv'
<1> USE DEF AuditInv
<1> DEFINE row == [id |-> a, time |-> append[a].time, prev |-> append[a].prev]
<1>0. append[a].at = "read" /\ clock' = clock /\ overlapped' = overlapped
  BY DEF AppendInsert
<1>1. row \in AuditRow
  BY DEF AuditTypeOK, AuditRow
<1>2. \A s \in rows : s.id # a
  BY <1>0 DEF EndedInv
<1>3. rows' = rows \cup {row} \/ rows' = rows
  BY DEF AppendInsert
<1>4. \A b \in Ids \ {a} : append'[b] = append[b]
  BY DEF AuditTypeOK, AppendInsert
<1>5. append'[a] = [at |-> "ended", time |-> 0, prev |-> NoRow]
  BY DEF AuditTypeOK, AppendInsert, NotAppending
<1>6. AuditTypeOK'
  <2>1. rows' \subseteq AuditRow
    BY <1>1, <1>3 DEF AuditTypeOK, AuditRow
  <2>2. 0 \in 0 .. MaxClock
    BY AuditConstants
  <2> QED
    BY <1>0, <2>1, <2>2 DEF AuditTypeOK, AppendInsert, NotAppending, AuditRow
<1>7. EndedInv'
  BY <1>3, <1>4, <1>5 DEF EndedInv, AuditTypeOK
<1>8. LatestInv'
  <2>1. CASE rows' = rows
    BY <2>1 DEF LatestInv, Latest, Before
  <2>2. CASE rows' = rows \cup {row}
    BY <1>1, <1>2, <2>2, LatestStays
  <2> QED
    BY <1>3, <2>1, <2>2
<1>9. PastInv'
  <2>1. clock \in Nat
    BY AuditConstants DEF AuditTypeOK
  <2> QED
    BY <1>0, <1>3, <1>4, <1>5, <2>1 DEF PastInv
<1>10. ASSUME ~overlapped PROVE \A b \in Ids : ~UnderWay(b)'
  BY <1>0, <1>4, <1>5, <1>10 DEF AloneInv, UnderWay
<1>11. AloneInv'
  BY <1>0, <1>10 DEF AloneInv, UnderWay
<1>12. ASSUME ~overlapped PROVE Verifies'
  <2>1. CASE rows' = rows
    BY <1>12, <2>1 DEF AuditVerifies, Verifies, Last, Before
  <2>2. CASE rows' = rows \cup {row}
    <3>1. \A s \in rows : s.time < row.time
      BY <1>0, <1>12 DEF AloneInv, UnderWay
    <3>2. /\ rows \subseteq AuditRow /\ \A s \in AuditRow : s.time \in Nat
      BY AuditConstants DEF AuditTypeOK, AuditRow
    <3>3. \A s \in rows : Before(s, row) /\ ~Before(row, s)
      BY <1>1, <3>1, <3>2 DEF Before
    <3>4. ~Before(row, row)
      BY <1>1, BeforeOrder
    <3>5. {s \in rows' : Before(s, row)} = rows
      BY <2>2, <3>3, <3>4
    <3>6. \A r \in rows : {s \in rows' : Before(s, r)} = {s \in rows : Before(s, r)}
      BY <2>2, <3>3
    <3>7. row.prev = Last(rows)
      BY <1>0, <1>12 DEF AloneInv
    <3>8. \A r \in rows : r.prev = Last({s \in rows : Before(s, r)})
      BY <1>12 DEF AuditVerifies, Verifies
    <3> HIDE DEF row
    <3>9. \A r \in rows' : r.prev = Last({s \in rows' : Before(s, r)})
      BY <2>2, <3>5, <3>6, <3>7, <3>8
    <3> QED
      BY <3>9 DEF Verifies, Last, Before
  <2> QED
    BY <1>3, <2>1, <2>2
<1> QED
  BY <1>0, <1>6, <1>7, <1>8, <1>9, <1>11, <1>12 DEF AuditVerifies

LEMMA ClockStep ==
  ASSUME AuditInv, ClockTicks PROVE AuditInv'
<1> USE DEF AuditInv, ClockTicks
<1>1. AuditTypeOK'
  BY AuditConstants DEF AuditTypeOK
<1>2. PastInv'
  <2>1. clock \in Nat /\ (\A r \in rows : r.time \in Nat) /\ (\A a \in Ids : append[a].time \in Nat)
    BY AuditConstants DEF AuditTypeOK
  <2> QED
    BY <2>1 DEF PastInv
<1>3. EndedInv' /\ LatestInv'
  BY DEF EndedInv, LatestInv, Latest, Before
<1>4. AloneInv'
  BY DEF AloneInv, UnderWay, Last, Before
<1>5. AuditVerifies'
  BY DEF AuditVerifies, Verifies, Last, Before
<1> QED
  BY <1>1, <1>2, <1>3, <1>4, <1>5

LEMMA AuditStutterStep ==
  ASSUME AuditInv, UNCHANGED auditVars PROVE AuditInv'
<1> USE DEF AuditInv, auditVars
<1>1. AuditTypeOK' /\ EndedInv' /\ PastInv'
  BY DEF AuditTypeOK, EndedInv, PastInv
<1>2. LatestInv'
  BY DEF LatestInv, Latest, Before
<1>3. AloneInv'
  BY DEF AloneInv, UnderWay, Last, Before
<1>4. AuditVerifies'
  BY DEF AuditVerifies, Verifies, Last, Before
<1> QED
  BY <1>1, <1>2, <1>3, <1>4

-----------------------------------------------------------------------------

\* Rows and appends keep their types, no append is alone twice, and the rows
\* have a last one.
THEOREM AuditInvariance == AuditSpec => []AuditInv
<1>1. AuditInv /\ [AuditNext]_auditVars => AuditInv'
  <2> SUFFICES ASSUME AuditInv, [AuditNext]_auditVars PROVE AuditInv'
    OBVIOUS
  <2>1. ASSUME NEW a \in Ids, AppendStep(a) PROVE AuditInv'
    BY <2>1, AuditBeginStep, AuditReadStep, AuditInsertStep DEF AppendStep
  <2> QED
    BY <2>1, ClockStep, AuditStutterStep DEF AuditNext
<1> QED
  BY AuditInitInv, <1>1, PTL DEF AuditSpec

\* As long as no two appends overlap or share a millisecond, the chain verifies,
\* however many appends there are, whatever their ids and whichever of them fail.
THEOREM ChainVerifies == AuditSpec => []AuditVerifies
BY AuditInvariance, PTL DEF AuditInv

\* The audit log keeps the types of its rows.
THEOREM AuditTypeCorrect == AuditSpec => []AuditTypeOK
BY AuditInvariance, PTL DEF AuditInv

\* A row is there for good; a new one has an id no other row has, and its hash covers
\* a row that is there before it.
ChainGrows ==
  [][/\ rows \subseteq rows'
     /\ \A r \in rows' \ rows :
          /\ \A s \in rows : s.id # r.id
          /\ r.prev = NoRow \/ \E s \in rows : s.id = r.prev]_rows

\* What an append has read stays there until it inserts.
ReadInv ==
  \A a \in Ids : append[a].at = "read" =>
    append[a].prev = NoRow \/ \E s \in rows : s.id = append[a].prev

LEMMA LastIsThere ==
  ASSUME LatestInv
  PROVE  Last(rows) = NoRow \/ \E s \in rows : s.id = Last(rows)
<1> DEFINE last == CHOOSE r \in rows : \A s \in rows \ {r} : Before(s, r)
<1>1. rows # {} => last \in rows
  BY DEF LatestInv, Latest
<1>2. rows # {} => Last(rows) = last.id
  BY DEF Last
<1>3. rows = {} => Last(rows) = NoRow
  BY DEF Last
<1> QED
  BY <1>1, <1>2, <1>3

LEMMA ReadStep ==
  ASSUME AuditInv, ReadInv, [AuditNext]_auditVars PROVE ReadInv'
<1> USE DEF AuditInv
<1>0. AuditTypeOK
  OBVIOUS
<1>1. CASE ClockTicks \/ UNCHANGED auditVars
  BY <1>1 DEF ClockTicks, auditVars, ReadInv
<1>2. ASSUME NEW a \in Ids, AppendBegin(a) PROVE ReadInv'
  <2>1. /\ \A b \in Ids \ {a} : append'[b] = append[b]
        /\ append'[a].at = "begun" /\ rows' = rows
    BY <1>0, <1>2 DEF AuditTypeOK, AppendBegin
  <2> QED
    BY <2>1 DEF ReadInv
<1>3. ASSUME NEW a \in Ids, AppendRead(a) PROVE ReadInv'
  <2>1. /\ \A b \in Ids \ {a} : append'[b] = append[b]
        /\ append'[a].prev = Last(rows) /\ rows' = rows
    BY <1>0, <1>3 DEF AuditTypeOK, AppendRead
  <2> QED
    BY <2>1, LastIsThere DEF ReadInv
<1>4. ASSUME NEW a \in Ids, AppendInsert(a) PROVE ReadInv'
  <2>1. /\ \A b \in Ids \ {a} : append'[b] = append[b]
        /\ append'[a].at = "ended" /\ rows \subseteq rows'
    BY <1>0, <1>4 DEF AuditTypeOK, AppendInsert, NotAppending
  <2> QED
    BY <2>1 DEF ReadInv
<1> QED
  BY <1>1, <1>2, <1>3, <1>4 DEF AuditNext, AppendStep

\* Appends that overlap may fork the chain, but never break it off: followed back
\* from any row, the hashes lead over older rows to one that has no previous hash.
THEOREM ChainIsRooted == AuditSpec => ChainGrows
<1>1. AuditInit => ReadInv
  BY DEF AuditInit, NotAppending, ReadInv
<1>2. AuditInv /\ ReadInv /\ [AuditNext]_auditVars => ReadInv'
  BY ReadStep
<1>3. AuditInv /\ ReadInv /\ [AuditNext]_auditVars =>
        [/\ rows \subseteq rows'
         /\ \A r \in rows' \ rows :
              /\ \A s \in rows : s.id # r.id
              /\ r.prev = NoRow \/ \E s \in rows : s.id = r.prev]_rows
  <2> SUFFICES ASSUME AuditInv, ReadInv, [AuditNext]_auditVars, rows' # rows
               PROVE  /\ rows \subseteq rows'
                      /\ \A r \in rows' \ rows :
                           /\ \A s \in rows : s.id # r.id
                           /\ r.prev = NoRow \/ \E s \in rows : s.id = r.prev
    OBVIOUS
  <2>1. PICK a \in Ids : AppendInsert(a)
    BY DEF AuditNext, AppendStep, AppendBegin, AppendRead, ClockTicks, auditVars
  <2>2. /\ append[a].at = "read"
        /\ rows' = rows \cup {[id |-> a, time |-> append[a].time, prev |-> append[a].prev]}
    BY <2>1 DEF AppendInsert
  <2>3. \A s \in rows : s.id # a
    BY <2>2 DEF AuditInv, EndedInv
  <2> QED
    BY <2>2, <2>3 DEF ReadInv
<1> QED
  BY <1>1, <1>2, <1>3, AuditInvariance, PTL DEF AuditSpec, ChainGrows

-----------------------------------------------------------------------------
(* The records in one run *)

\* The run Records is of the three records as they are: what is proved of each by
\* itself holds of it.
THEOREM RecordsIsEachRecord == RecordsSpec => UserSpec /\ VoiceSpec /\ AuditSpec
<1>1. RecordsInit => UserInit /\ VoiceInit /\ AuditInit
  BY DEF RecordsInit
<1>2. [RecordsNext]_recordVars =>
        [UserNext]_userVars /\ [VoiceNext]_voiceVars /\ [AuditNext]_auditVars
  <2>1. RecordsNext => [UserNext]_userVars /\ [VoiceNext]_voiceVars /\ [AuditNext]_auditVars
    BY DEF RecordsNext
  <2>2. UNCHANGED recordVars => UNCHANGED <<userVars, voiceVars, auditVars>>
    BY DEF recordVars
  <2> QED
    BY <2>1, <2>2
<1> QED
  BY <1>1, <1>2, PTL DEF RecordsSpec, UserSpec, VoiceSpec, AuditSpec

\* All three records keep their types together.
THEOREM RecordsTypeCorrect == RecordsSpec => []RecordsTypeOK
BY RecordsIsEachRecord, UserTypeCorrect, VoiceTypeCorrect, AuditTypeCorrect, PTL
DEF RecordsTypeOK

\* What the run checks of the records' safety holds of it for any constants.
THEOREM RecordsSafety ==
  RecordsSpec => [](PresentsLiveToken /\ OneTaskPerCommand /\ AuditVerifies)
BY RecordsIsEachRecord, LiveTokens, VoiceAsksOnce, ChainVerifies, PTL
=============================================================================
