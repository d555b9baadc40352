-------------------------------- MODULE Session --------------------------------
(***************************************************************************)
(* A browser's session: the token it keeps, who it thinks is signed in,    *)
(* where it is and where it is sent; the two security pages; and the       *)
(* device that knows the users and signs and checks the tokens.            *)
(*                                                                         *)
(* A password is right or wrong: a user who is none cannot sign in.  A     *)
(* request carries the token of the moment it is sent, and is guarded when *)
(* the interceptor of AuthenticatedRouting was there at that moment.       *)
(***************************************************************************)
EXTENDS Naturals, FiniteSets

CONSTANTS
  Names, NoOne, NoToken, NoData,
  MaxEdits, MaxSignIns, MaxRequests, MaxFaults, MaxReloads, MaxOthers  \* bounds

ASSUME BoundsAssumption ==
  /\ MaxEdits \in Nat /\ MaxSignIns \in Nat /\ MaxRequests \in Nat
  /\ MaxFaults \in Nat /\ MaxReloads \in Nat /\ MaxOthers \in Nat

VARIABLES
  users, secret,       \* SecuritySettings
  jwtSecret,           \* the secret of the JWT handler
  features,            \* of FeaturesLoader: loading, loaded or failed
  initialized, me,     \* of Authentication
  token, redirect,     \* in localStorage: access_token and loginPathname
  location,            \* of the router
  processing,          \* of SignIn
  data, saving, user,  \* of the security page that is open: its form and its dialog
  requests,
  revoked,             \* history: a save of this browser took its token's rights
  counts               \* of what is bounded

device  == <<users, secret, jwtSecret>>
session == <<features, initialized, me, token, redirect, location, processing>>
page    == <<data, saving, user>>
vars == <<device, session, page, requests, revoked, counts>>

Roles == {"none", "guest", "admin"}
Secrets == {"old", "new"}
SecurityPages == {"users", "secret"}
Locations == {"root", "unauthorized", "firmwareUpdated", "home"} \cup SecurityPages

Me(t) == [name |-> t.name, role |-> t.role]
IsAdmin(who) == who # NoOne /\ who.role = "admin"

Count(what, max) == counts[what] < max /\ counts' = [counts EXCEPT ![what] = @ + 1]

-----------------------------------------------------------------------------
(* Requests.                                                               *)

(* AuthenticatedRouting, and with it the interceptor, is on the screen.    *)
Guarded == initialized /\ me # NoOne /\ location \notin {"root", "unauthorized", "firmwareUpdated"}

Request(kind, body) ==
  [kind |-> kind, body |-> body, token |-> token, guarded |-> Guarded, from |-> location,
   mine |-> TRUE, phase |-> "sent", answer |-> NoData]

Answered(r, phase, answer) ==
  requests' = (requests \ {r}) \cup {[r EXCEPT !.phase = phase, !.answer = answer, !.body = NoData]}

CanSend == Cardinality(requests) < MaxRequests

Back(kind) == {r \in requests : r.kind = kind /\ r.phase # "sent"}

(* A page that is opened loads its data before AuthenticatedRouting, whose *)
(* effects run after its children's, has put the interceptor back.         *)
FirstLoad(where, who) ==
  IF where \in SecurityPages /\ IsAdmin(who)
    THEN {[Request("load", NoData) EXCEPT !.guarded = FALSE, !.from = where]} ELSE {}

(* What a page asked for is not for the page that comes after it.          *)
Left(rs) ==
  {IF r.kind \in {"verify", "fetch"} THEN r ELSE [r EXCEPT !.mine = FALSE] : r \in rs}

-----------------------------------------------------------------------------
(* The device.                                                             *)

authenticateJWT(t) == t # NoToken /\ t.secret = jwtSecret /\ users[t.name] = t.role

(* IS_ADMIN looks at the user the token belongs to.                        *)
IsAllowed(r) ==
  /\ authenticateJWT(r.token)
  /\ r.kind \in {"load", "save"} => r.token.role = "admin"

generateJWT(name) == [name |-> name, role |-> users[name], secret |-> jwtSecret]

ServeSignIn(r) ==
  /\ r.kind = "signIn"
  /\ IF r.body \in Names /\ users[r.body] # "none"
       THEN Answered(r, "done", generateJWT(r.body))
       ELSE Answered(r, "denied", NoData)
  /\ UNCHANGED <<device, revoked>>

ServeRead(r) ==
  /\ r.kind \in {"verify", "fetch", "load"}
  /\ IF ~IsAllowed(r) THEN Answered(r, "denied", NoData)
     ELSE Answered(r, "done", IF r.kind = "load" THEN [users |-> users, secret |-> secret] ELSE NoData)
  /\ UNCHANGED <<device, revoked>>

(* The JWT handler hears of a new secret when the connection closes.       *)
ServeSave(r) ==
  /\ r.kind = "save"
  /\ IF IsAllowed(r)
       THEN /\ users' = r.body.users /\ secret' = r.body.secret
            /\ Answered(r, "done", r.body)
            /\ revoked' = (token # NoToken /\ r.body.users[token.name] # token.role)
       ELSE /\ Answered(r, "denied", NoData)
            /\ UNCHANGED <<users, secret, revoked>>
  /\ UNCHANGED jwtSecret

Serve ==
  /\ \E r \in requests : r.phase = "sent" /\ (ServeSignIn(r) \/ ServeRead(r) \/ ServeSave(r))
  /\ UNCHANGED <<session, page, counts>>

configureJWTHandler ==
  /\ jwtSecret # secret /\ jwtSecret' = secret
  /\ UNCHANGED <<users, secret, session, page, requests, revoked, counts>>

(* Another browser saves what its pages let it save.                       *)
OtherSaves ==
  /\ Count("others", MaxOthers)
  /\ users' \in {u \in [Names -> Roles] : \E n \in Names : u[n] = "admin"}
  /\ revoked' = (revoked /\ token # NoToken /\ users'[token.name] # token.role)
  /\ UNCHANGED <<secret, jwtSecret, session, page, requests>>

(* A request is lost, or its answer.                                       *)
Lose ==
  /\ Count("faults", MaxFaults)
  /\ \E r \in requests : r.phase # "lost" /\ Answered(r, "lost", NoData)
  /\ UNCHANGED <<device, session, page, revoked>>

-----------------------------------------------------------------------------
(* Start of the page, and who is signed in.                                *)

(* The token is sent to be verified; without one nobody is signed in.      *)
Refreshed(rs, who) ==
  IF token # NoToken
    THEN requests' = rs \cup {Request("verify", NoData)} /\ me' = who /\ UNCHANGED initialized
    ELSE requests' = rs /\ me' = NoOne /\ initialized' = TRUE

loadFeatures ==
  /\ features = "loading"
  /\ \/ features' = "loaded" /\ Refreshed(requests, NoOne) /\ UNCHANGED counts
     \/ features' = "failed" /\ Count("faults", MaxFaults) /\ UNCHANGED <<requests, me, initialized>>
  /\ UNCHANGED <<device, token, redirect, location, processing, page, revoked>>

(* A guarded request that was denied sends the browser away, wherever it   *)
(* is by now.  What the page it leaves had is dropped when the next opens. *)
handleApiResponseError(r) ==
  IF r.phase = "denied" /\ r.guarded
    THEN location' = "unauthorized" /\ redirect' = r.from
    ELSE UNCHANGED <<location, redirect>>

(* Mutant: a verification that fails leaves the spinner on.                *)
VerifiedSpinning ==
  /\ \E r \in Back("verify") :
       /\ IF r.phase = "done" THEN me' = Me(r.token) /\ initialized' = TRUE
                              ELSE me' = NoOne /\ UNCHANGED initialized
       /\ requests' = (requests \ {r}) \cup (IF initialized THEN {} ELSE FirstLoad(location, me'))
       /\ handleApiResponseError(r)
  /\ UNCHANGED <<device, features, token, processing, page, revoked, counts>>

(* The token that was verified tells who it is, not the one kept by now.   *)
(* With the first answer the page at the address is opened.                *)
Verified ==
  /\ \E r \in Back("verify") :
       /\ me' = IF r.phase = "done" THEN Me(r.token) ELSE NoOne
       /\ requests' = (requests \ {r}) \cup (IF initialized THEN {} ELSE FirstLoad(location, me'))
       /\ handleApiResponseError(r)
  /\ initialized' = TRUE
  /\ UNCHANGED <<device, features, token, processing, page, revoked, counts>>

-----------------------------------------------------------------------------
(* Signing in and out.                                                     *)

OnSignIn == initialized /\ location = "root" /\ me = NoOne

(* The enter key sends the form as the button does, but leaves it enabled. *)
validateAndSignIn ==
  /\ OnSignIn /\ ~processing
  /\ Count("signIns", MaxSignIns) /\ CanSend
  /\ \E name \in Names \cup {"wrong"} : requests' = requests \cup {Request("signIn", name)}
  /\ processing' \in BOOLEAN
  /\ UNCHANGED <<device, features, initialized, me, token, redirect, location, page, revoked>>

(* Whoever is signed in by then, and if the form is still there or not.    *)
SignInAnswered ==
  /\ \E r \in Back("signIn") :
       /\ requests' = requests \ {r}
       /\ IF r.phase = "done"
            THEN token' = r.answer /\ me' = Me(r.answer) /\ revoked' = FALSE /\ UNCHANGED processing
            ELSE processing' = (processing /\ ~r.mine) /\ UNCHANGED <<token, me, revoked>>
  /\ UNCHANGED <<device, features, initialized, redirect, location, page, counts>>

signOut ==
  /\ Guarded
  /\ token' = NoToken /\ me' = NoOne
  /\ location' = "root"
  /\ data' = NoData /\ saving' = FALSE /\ user' = NoOne /\ requests' = Left(requests)
  /\ UNCHANGED <<device, features, initialized, redirect, processing, revoked, counts>>

-----------------------------------------------------------------------------
(* The routes.                                                             *)

RequireAuthenticated == location \in {"home"} \cup SecurityPages /\ me = NoOne
RequireUnauthenticated == location = "root" /\ me # NoOne
RequireAdmin == location \in SecurityPages /\ me # NoOne /\ ~IsAdmin(me)
RootRedirect == location \in {"unauthorized", "firmwareUpdated"}

Redirecting == initialized /\ (RequireAuthenticated \/ RequireUnauthenticated \/ RequireAdmin \/ RootRedirect)

(* The page that is left is dropped, and its requests are nobody's.        *)
Open(where) ==
  /\ location' = where
  /\ data' = NoData /\ saving' = FALSE /\ user' = NoOne
  /\ processing' = FALSE
  /\ requests' = Left(requests) \cup FirstLoad(where, me)

(* Mutant: the place to return to is not forgotten.                        *)
fetchLoginRedirectAgain ==
  /\ Open(IF redirect = NoData THEN "home" ELSE redirect)
  /\ UNCHANGED redirect

fetchLoginRedirect ==
  /\ Open(IF redirect = NoData THEN "home" ELSE redirect)
  /\ redirect' = NoData

Navigate ==
  /\ initialized
  /\ \/ RequireAuthenticated /\ Open("unauthorized") /\ redirect' = location /\ UNCHANGED <<me, token>>
     \/ RequireUnauthenticated /\ fetchLoginRedirect /\ UNCHANGED <<me, token>>
     \/ RequireAdmin /\ Open("root") /\ UNCHANGED <<me, token, redirect>>
     \/ /\ RootRedirect /\ Open("root") /\ UNCHANGED redirect
        /\ IF location = "unauthorized" THEN me' = NoOne /\ token' = NoToken
                                        ELSE UNCHANGED <<me, token>>
  /\ UNCHANGED <<device, features, initialized, revoked, counts>>

(* The menu and the tabs; the entry for security is for admins.            *)
Menu ==
  /\ Guarded /\ ~Redirecting /\ user = NoOne /\ CanSend
  /\ \E where \in {"home"} \cup (IF IsAdmin(me) THEN SecurityPages ELSE {}) :
       where # location /\ Open(where)
  /\ UNCHANGED <<device, features, initialized, me, token, redirect, revoked, counts>>

(* The site is loaded anew, at any address; what was sent may still be     *)
(* served, but nobody hears of it.                                         *)
Reload ==
  /\ Count("reloads", MaxReloads)
  /\ location' \in Locations \ {"unauthorized"}
  /\ features' = "loading" /\ initialized' = FALSE /\ me' = NoOne /\ processing' = FALSE
  /\ data' = NoData /\ saving' = FALSE /\ user' = NoOne /\ requests' = {}
  /\ UNCHANGED <<device, token, redirect, revoked>>

(* Any other page asks for something.                                      *)
Fetch ==
  /\ Guarded /\ location = "home"
  /\ CanSend
  /\ requests' = requests \cup {Request("fetch", NoData)}
  /\ UNCHANGED <<device, session, page, revoked, counts>>

Fetched ==
  /\ \E r \in Back("fetch") : requests' = requests \ {r} /\ handleApiResponseError(r)
  /\ UNCHANGED <<device, features, initialized, me, token, processing, page, revoked, counts>>

-----------------------------------------------------------------------------
(* The security pages.                                                     *)

OnSecurity(which) == Guarded /\ ~Redirecting /\ location = which /\ data # NoData

(* Mutant: the answer reaches whatever is open by then.                    *)
LoadedAnyhow ==
  /\ \E r \in Back("load") :
       /\ requests' = requests \ {r}
       /\ data' = IF r.phase = "done" THEN r.answer ELSE data
       /\ handleApiResponseError(r)
  /\ UNCHANGED <<device, features, initialized, me, token, processing, saving, user, revoked, counts>>

Loaded ==
  /\ \E r \in Back("load") :
       /\ requests' = requests \ {r}
       /\ data' = IF r.phase = "done" /\ r.mine THEN r.answer ELSE data
       /\ handleApiResponseError(r)
  /\ UNCHANGED <<device, features, initialized, me, token, processing, saving, user, revoked, counts>>

Retry ==
  /\ Guarded /\ ~Redirecting /\ location \in SecurityPages /\ data = NoData
  /\ \A r \in requests : r.kind # "load"
  /\ requests' = requests \cup {Request("load", NoData)}
  /\ UNCHANGED <<device, session, page, revoked, counts>>

Edited(new) ==
  /\ Count("edits", MaxEdits)
  /\ data' = new
  /\ UNCHANGED <<device, session, saving, requests, revoked>>

removeUser ==
  /\ OnSecurity("users") /\ user = NoOne
  /\ \E n \in Names : data.users[n] # "none" /\ Edited([data EXCEPT !.users[n] = "none"])
  /\ UNCHANGED user

(* What the dialog can hold: its name is required and the role a checkbox. *)
UserForm == [name : Names, role : {"guest", "admin"}]

(* createUser and editUser: the dialog, for a name that is free or taken.  *)
openUser ==
  /\ OnSecurity("users") /\ user = NoOne /\ counts.edits < MaxEdits
  /\ user' \in UserForm
  /\ UNCHANGED <<device, session, data, saving, requests, revoked, counts>>

cancelEditingUser ==
  /\ OnSecurity("users") /\ user # NoOne
  /\ user' = NoOne
  /\ UNCHANGED <<device, session, data, saving, requests, revoked, counts>>

doneEditingUser ==
  /\ OnSecurity("users") /\ user # NoOne
  /\ Edited([data EXCEPT !.users[user.name] = user.role])
  /\ user' = NoOne

changeSecret ==
  /\ OnSecurity("secret")
  /\ \E s \in Secrets \ {data.secret} : Edited([data EXCEPT !.secret = s])
  /\ UNCHANGED user

noAdminConfigured == ~\E n \in Names : data.users[n] = "admin"

(* Mutant: the button does not look for an admin.                          *)
onSubmitAnyhow ==
  /\ location \in SecurityPages /\ OnSecurity(location) /\ ~saving /\ user = NoOne /\ CanSend
  /\ saving' = TRUE
  /\ requests' = requests \cup {Request("save", data)}
  /\ UNCHANGED <<device, session, data, user, revoked, counts>>

(* Both pages send the whole record as they have it.                       *)
onSubmit ==
  /\ location \in SecurityPages /\ OnSecurity(location) /\ ~saving /\ user = NoOne /\ CanSend
  /\ location = "users" => ~noAdminConfigured
  /\ saving' = TRUE
  /\ requests' = requests \cup {Request("save", data)}
  /\ UNCHANGED <<device, session, data, user, revoked, counts>>

(* Mutant: the page does not ask who is signed in after a save.            *)
SavedWithoutRefresh ==
  /\ \E r \in Back("save") :
       /\ IF r.mine THEN /\ saving' = FALSE
                         /\ data' = IF r.phase = "done" THEN r.answer ELSE data
                    ELSE UNCHANGED <<saving, data>>
       /\ handleApiResponseError(r)
       /\ requests' = requests \ {r}
  /\ UNCHANGED <<device, features, initialized, me, token, processing, user, revoked, counts>>

(* Saved or not, and whether the page is still there or not: refresh.      *)
Saved ==
  /\ \E r \in Back("save") :
       /\ IF r.mine THEN /\ saving' = FALSE
                         /\ data' = IF r.phase = "done" THEN r.answer ELSE data
                    ELSE UNCHANGED <<saving, data>>
       /\ handleApiResponseError(r)
       /\ Refreshed(requests \ {r}, me)
  /\ UNCHANGED <<device, features, token, processing, user, revoked, counts>>

-----------------------------------------------------------------------------
(* The browser is opened with a token that was signed with the secret, or  *)
(* without.                                                                *)
Init ==
  /\ users \in {u \in [Names -> {"guest", "admin"}] : \E n \in Names : u[n] = "admin"}
  /\ secret = "old" /\ jwtSecret = "old"
  /\ features = "loading" /\ initialized = FALSE /\ me = NoOne
  /\ token \in {NoToken} \cup [name : Names, role : {"guest", "admin"}, secret : {"old"}]
  /\ redirect = NoData
  /\ location \in Locations \ {"unauthorized"}
  /\ processing = FALSE
  /\ data = NoData /\ saving = FALSE /\ user = NoOne
  /\ requests = {} /\ revoked = FALSE
  /\ counts = [edits |-> 0, signIns |-> 0, faults |-> 0, reloads |-> 0, others |-> 0]

Next ==
  \/ Serve \/ configureJWTHandler \/ OtherSaves \/ Lose
  \/ loadFeatures \/ Verified \/ validateAndSignIn \/ SignInAnswered \/ signOut
  \/ Navigate \/ Menu \/ Reload \/ Fetch \/ Fetched
  \/ Loaded \/ Retry \/ removeUser \/ openUser \/ cancelEditingUser \/ doneEditingUser
  \/ changeSecret \/ onSubmit \/ Saved

Spec == Init /\ [][Next]_vars

(* The device serves every request, the browser hands over every answer    *)
(* and draws what is to be drawn, and a connection that is done closes.    *)
Fairness ==
  /\ \A kind \in {"signIn", "verify", "load", "save"} :
       WF_vars(Serve /\ \E r \in requests \ requests' : r.kind = kind)
  /\ WF_vars(loadFeatures) /\ WF_vars(Verified) /\ WF_vars(SignInAnswered)
  /\ WF_vars(Navigate) /\ WF_vars(Loaded) /\ WF_vars(Saved) /\ WF_vars(configureJWTHandler)

FairSpec == Spec /\ Fairness

-----------------------------------------------------------------------------
(* Properties.                                                             *)

(* Whoever is signed in has a role, and a form belongs to a page.          *)
TypeOK ==
  /\ users \in [Names -> Roles] /\ secret \in Secrets /\ jwtSecret \in Secrets
  /\ me = NoOne \/ (me.name \in Names /\ me.role \in {"guest", "admin"})
  /\ location \in Locations
  /\ data # NoData \/ saving => location \in SecurityPages \cup {"unauthorized"}
  /\ processing => location \in {"root", "unauthorized"}

(* Whatever is saved by whom, there is a user who may change the settings: *)
(* "You must have at least one admin user configured."                     *)
AlwaysAnAdmin == \E n \in Names : users[n] = "admin"

(* The routes send nobody around in circles: a browser that is redirected  *)
(* comes to rest, whoever it is and wherever it was to return to           *)
(* (RequireAuthenticated, RequireUnauthenticated, RequireAdmin,            *)
(* RootRedirect, fetchLoginRedirect).                                      *)
ComesToRest == Redirecting ~> ~Redirecting

(* The spinner of the start goes, and the sign-in form can be used again   *)
(* after every attempt (Authentication.refresh, SignIn).                   *)
SignInReady ==
  /\ features = "loaded" /\ ~initialized ~> (initialized \/ features = "failed")
  /\ processing ~> ~processing

(* A browser that saved its own user's rights away is not left signed in:  *)
(* the page asks who it is after every save (onSubmit of ManageUsersForm). *)
RevokedLeaves == revoked ~> (me = NoOne \/ ~revoked)

=============================================================================
