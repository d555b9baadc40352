---------------------------- MODULE Session_proofs ----------------------------
(***************************************************************************)
(* Proofs about Session for any set of users, any number of requests,      *)
(* edits, lost answers and other browsers.                                 *)
(***************************************************************************)
EXTENDS Session, TLAPS

Data   == [users : [Names -> Roles], secret : Secrets]
Who    == [name : Names, role : {"guest", "admin"}]
Tokens == [name : Names, role : {"guest", "admin"}, secret : Secrets]
Kinds  == {"signIn", "verify", "fetch", "load", "save"}
Requests ==
  [kind : Kinds, body : Data \cup Names \cup {"wrong", NoData}, token : Tokens \cup {NoToken},
   guarded : BOOLEAN, from : Locations, mine : BOOLEAN,
   phase : {"sent", "done", "denied", "lost"}, answer : Data \cup Tokens \cup {NoData}]

HasAdmin(u) == \E n \in Names : u[n] = "admin"

(* What is on its way to or from the device has an admin, so that neither  *)
(* a save nor a form filled from an answer takes the last one away.        *)
Good(r) ==
  /\ r \in Requests
  /\ r.kind = "verify" => r.token \in Tokens
  /\ r.kind = "signIn" /\ r.phase = "done" => r.answer \in Tokens
  /\ r.kind = "save" /\ r.phase = "sent" => r.body \in Data /\ HasAdmin(r.body.users)
  /\ r.kind \in {"load", "save"} /\ r.phase = "done" =>
       r.answer \in Data /\ HasAdmin(r.answer.users)

Types ==
  /\ users \in [Names -> Roles] /\ secret \in Secrets /\ jwtSecret \in Secrets
  /\ me \in Who \cup {NoOne} /\ token \in Tokens \cup {NoToken}
  /\ location \in Locations /\ redirect \in Locations \cup {NoData}
  /\ data \in Data \cup {NoData} /\ user \in UserForm \cup {NoOne}
  /\ saving \in BOOLEAN /\ processing \in BOOLEAN /\ initialized \in BOOLEAN

(* A form, its requests and the button of the sign-in form belong to what  *)
(* is on the screen, or was before a denied request sent the browser away. *)
Belongs ==
  /\ data # NoData \/ saving => location \in SecurityPages \cup {"unauthorized"}
  /\ processing => location \in {"root", "unauthorized"}
  /\ \A r \in requests : r.kind \in {"load", "save"} /\ r.mine =>
       location \in SecurityPages \cup {"unauthorized"}

(* Only the page of the users edits users, and it looks before it saves.   *)
SecretKeepsAdmin == location = "secret" /\ data # NoData => HasAdmin(data.users)

IInv ==
  /\ Types /\ Belongs /\ SecretKeepsAdmin /\ HasAdmin(users)
  /\ \A r \in requests : Good(r)

LEMMA InitIInv == Init => IInv
<1> SUFFICES ASSUME Init PROVE IInv
  OBVIOUS
<1>1. users \in [Names -> Roles] /\ HasAdmin(users)
  BY DEF Init, Roles, HasAdmin
<1>2. token \in Tokens \cup {NoToken}
  BY DEF Init, Tokens, Secrets
<1> QED BY <1>1, <1>2 DEF Init, IInv, Types, Belongs, SecretKeepsAdmin, Secrets

-----------------------------------------------------------------------------
(* Requests.                                                               *)

LEMMA NewRequest ==
  ASSUME Types, NEW k \in Kinds, NEW b \in Data \cup Names \cup {"wrong", NoData}
  PROVE  /\ Request(k, b) \in Requests
         /\ Request(k, b).kind = k /\ Request(k, b).body = b /\ Request(k, b).token = token
         /\ Request(k, b).phase = "sent"
BY DEF Types, Request, Requests, Guarded

LEMMA NewGood ==
  ASSUME Types, NEW k \in Kinds, NEW b \in Data \cup Names \cup {"wrong", NoData},
         k = "verify" => token # NoToken,
         k = "save" => b \in Data /\ HasAdmin(b.users)
  PROVE  Good(Request(k, b)) /\ Request(k, b).kind = k
BY NewRequest DEF Types, Good

(* Leaving a page keeps requests good, and leaves none of its own.         *)
LEMMA LeftGood ==
  ASSUME \A r \in requests : Good(r)
  PROVE  \A q \in Left(requests) : Good(q) /\ ~(q.kind \in {"load", "save"} /\ q.mine)
<1> SUFFICES ASSUME NEW q \in Left(requests)
             PROVE  Good(q) /\ ~(q.kind \in {"load", "save"} /\ q.mine)
  OBVIOUS
<1>1. PICK r \in requests :
        q = IF r.kind \in {"verify", "fetch"} THEN r ELSE [r EXCEPT !.mine = FALSE]
  BY DEF Left
<1>2. CASE r.kind \in {"verify", "fetch"}
  BY <1>1, <1>2
<1>3. CASE r.kind \notin {"verify", "fetch"}
  BY <1>1, <1>3 DEF Good, Requests
<1> QED BY <1>2, <1>3

(* The first load of a page is good.                                       *)
LEMMA FirstLoadGood ==
  ASSUME Types, NEW where \in Locations, NEW who
  PROVE  \A q \in FirstLoad(where, who) :
           Good(q) /\ q.kind = "load" /\ where \in SecurityPages
<1> DEFINE q == [Request("load", NoData) EXCEPT !.guarded = FALSE, !.from = where]
<1>1. Good(q) /\ q.kind = "load"
  <2>1. /\ Request("load", NoData) \in Requests /\ Request("load", NoData).kind = "load"
        /\ Request("load", NoData).phase = "sent"
    BY NewRequest DEF Kinds
  <2> QED BY <2>1 DEF Good, Requests
<1> HIDE DEF q
<1> QED BY <1>1 DEF FirstLoad, q

-----------------------------------------------------------------------------
(* The device.                                                             *)

LEMMA ServeStep == IInv /\ Serve => IInv'
<1> SUFFICES ASSUME IInv, Serve PROVE IInv'
  OBVIOUS
<1>1. PICK r \in requests : r.phase = "sent" /\ (ServeSignIn(r) \/ ServeRead(r) \/ ServeSave(r))
  BY DEF Serve
<1>2. UNCHANGED <<session, page>>
  BY DEF Serve
<1>3. Good(r)
  BY DEF IInv
<1> DEFINE Safe == users' \in [Names -> Roles] /\ secret' \in Secrets /\ HasAdmin(users')
           Reply(p, a) == [r EXCEPT !.phase = p, !.answer = a, !.body = NoData]
           Sent == \E p \in {"done", "denied", "lost"}, a \in Data \cup Tokens \cup {NoData} :
                     /\ requests' = (requests \ {r}) \cup {Reply(p, a)}
                     /\ r.kind = "signIn" /\ p = "done" => a \in Tokens
                     /\ r.kind \in {"load", "save"} /\ p = "done" =>
                          a \in Data /\ HasAdmin(a.users)
<1>4. Sent /\ Safe
  <2>1. CASE ServeSignIn(r)
    <3>1. Safe
      BY <2>1 DEF IInv, Types, ServeSignIn, device
    <3>2. CASE r.body \in Names /\ users[r.body] # "none"
      <4>1. generateJWT(r.body) \in Tokens
        BY <3>2 DEF generateJWT, Tokens, IInv, Types, Roles
      <4> QED BY <2>1, <3>1, <3>2, <4>1 DEF ServeSignIn, Answered
    <3>3. CASE ~(r.body \in Names /\ users[r.body] # "none")
      BY <2>1, <3>1, <3>3 DEF ServeSignIn, Answered
    <3> QED BY <3>2, <3>3
  <2>2. CASE ServeRead(r)
    <3>1. Safe
      BY <2>2 DEF IInv, Types, ServeRead, device
    <3>2. CASE ~IsAllowed(r)
      BY <2>2, <3>1, <3>2 DEF ServeRead, Answered
    <3>3. CASE IsAllowed(r) /\ r.kind = "load"
      <4> DEFINE all == [users |-> users, secret |-> secret]
      <4>1. all \in Data /\ HasAdmin(all.users)
        BY DEF Data, IInv, Types
      <4>2. requests' = (requests \ {r}) \cup {Reply("done", all)}
        BY <2>2, <3>3 DEF ServeRead, Answered
      <4> HIDE DEF all
      <4> QED BY <3>1, <3>3, <4>1, <4>2
    <3>4. CASE IsAllowed(r) /\ r.kind # "load"
      <4>1. r.kind \notin {"signIn", "load", "save"}
        BY <2>2, <3>4 DEF ServeRead
      <4> QED BY <2>2, <3>1, <3>4, <4>1 DEF ServeRead, Answered
    <3> QED BY <3>2, <3>3, <3>4
  <2>3. CASE ServeSave(r)
    <3>1. r.body \in Data /\ HasAdmin(r.body.users) /\ r.kind = "save"
      BY <1>1, <1>3, <2>3 DEF Good, ServeSave
    <3>2. CASE IsAllowed(r)
      <4>1. Safe
        BY <2>3, <3>1, <3>2 DEF ServeSave, Data
      <4> QED BY <2>3, <3>1, <3>2, <4>1 DEF ServeSave, Answered
    <3>3. CASE ~IsAllowed(r)
      BY <2>3, <3>1, <3>3 DEF ServeSave, Answered, IInv, Types
    <3> QED BY <3>2, <3>3
  <2> QED BY <1>1, <2>1, <2>2, <2>3
<1>5. PICK p \in {"done", "denied", "lost"}, a \in Data \cup Tokens \cup {NoData} :
        /\ requests' = (requests \ {r}) \cup {Reply(p, a)}
        /\ r.kind = "signIn" /\ p = "done" => a \in Tokens
        /\ r.kind \in {"load", "save"} /\ p = "done" => a \in Data /\ HasAdmin(a.users)
  BY <1>4
<1>6. Good(Reply(p, a)) /\ Reply(p, a).kind = r.kind /\ Reply(p, a).mine = r.mine
  BY <1>3, <1>5 DEF Good, Requests
<1> HIDE DEF Reply, Sent
<1>7. \A q \in requests' : Good(q)
  BY <1>5, <1>6 DEF IInv
<1>8. jwtSecret' = jwtSecret
  BY <1>1 DEF ServeSignIn, ServeRead, ServeSave, device
<1>9. Types' /\ SecretKeepsAdmin' /\ HasAdmin(users)'
  BY <1>2, <1>4, <1>8 DEF IInv, Types, SecretKeepsAdmin, HasAdmin, session, page
<1>10. Belongs'
  BY <1>2, <1>5, <1>6 DEF IInv, Belongs, session, page
<1> QED BY <1>7, <1>9, <1>10 DEF IInv

LEMMA LoseStep == IInv /\ Lose => IInv'
<1> SUFFICES ASSUME IInv, Lose PROVE IInv'
  OBVIOUS
<1>1. PICK r \in requests : r.phase # "lost" /\ Answered(r, "lost", NoData)
  BY DEF Lose
<1> DEFINE q == [r EXCEPT !.phase = "lost", !.answer = NoData, !.body = NoData]
<1>2. Good(q) /\ q.kind = r.kind /\ q.mine = r.mine
  <2>1. Good(r)
    BY DEF IInv
  <2> QED BY <2>1 DEF Good, Requests
<1>3. requests' = (requests \ {r}) \cup {q}
  BY <1>1 DEF Answered
<1> HIDE DEF q
<1>4. \A p \in requests' : Good(p)
  BY <1>2, <1>3 DEF IInv
<1>5. Types' /\ SecretKeepsAdmin' /\ HasAdmin(users)'
  BY DEF Lose, IInv, Types, SecretKeepsAdmin, HasAdmin, device, session, page
<1>6. Belongs'
  BY <1>2, <1>3 DEF Lose, IInv, Belongs, session, page
<1> QED BY <1>4, <1>5, <1>6 DEF IInv

LEMMA DeviceStep == IInv /\ (configureJWTHandler \/ OtherSaves) => IInv'
<1>1. ASSUME IInv, configureJWTHandler PROVE IInv'
  BY <1>1 DEF configureJWTHandler, IInv, Types, Belongs, SecretKeepsAdmin, HasAdmin, session, page
<1>2. ASSUME IInv, OtherSaves PROVE IInv'
  <2>1. users' \in [Names -> Roles] /\ HasAdmin(users')
    BY <1>2 DEF OtherSaves, HasAdmin
  <2> QED BY <1>2, <2>1 DEF OtherSaves, IInv, Types, Belongs, SecretKeepsAdmin, HasAdmin,
                            session, page
<1> QED BY <1>1, <1>2

-----------------------------------------------------------------------------
(* The browser.                                                            *)

(* A denied answer sends the browser away or leaves it where it is.        *)
LEMMA SentAway ==
  ASSUME Types, NEW r, Good(r), handleApiResponseError(r)
  PROVE  location' \in {location, "unauthorized"} /\ redirect' \in Locations \cup {NoData}
BY DEF Types, Good, Requests, handleApiResponseError

(* What an answer that is taken leaves as it was.                          *)
LEMMA TakenBelongs ==
  ASSUME Belongs, location' \in {location, "unauthorized"},
         data' # NoData \/ saving' => location \in SecurityPages \cup {"unauthorized"},
         processing' => processing,
         \A q \in requests' : q.kind \in {"load", "save"} => q \in requests
  PROVE  Belongs'
BY DEF Belongs

(* Asking who is signed in adds at most a good request.                    *)
LEMMA RefreshedGood ==
  ASSUME IInv, NEW rs \in SUBSET requests, NEW who \in Who \cup {NoOne}, Refreshed(rs, who)
  PROVE  /\ \A q \in requests' : Good(q) /\ (q.kind \in {"load", "save"} => q \in requests)
         /\ me' \in Who \cup {NoOne} /\ initialized' \in BOOLEAN
<1>1. CASE token # NoToken
  <2> DEFINE q == Request("verify", NoData)
  <2>1. Good(q) /\ q.kind = "verify"
    BY <1>1, NewGood DEF IInv, Kinds
  <2>2. requests' = rs \cup {q} /\ me' = who /\ initialized' = initialized
    BY <1>1 DEF Refreshed
  <2> HIDE DEF q
  <2> QED BY <2>1, <2>2 DEF IInv, Types
<1>2. CASE token = NoToken
  BY <1>2 DEF Refreshed, IInv
<1> QED BY <1>1, <1>2

LEMMA LoadFeaturesStep == IInv /\ loadFeatures => IInv'
<1> SUFFICES ASSUME IInv, loadFeatures PROVE IInv'
  OBVIOUS
<1>1. /\ \A q \in requests' : Good(q) /\ (q.kind \in {"load", "save"} => q \in requests)
      /\ me' \in Who \cup {NoOne} /\ initialized' \in BOOLEAN
  BY RefreshedGood DEF loadFeatures, IInv, Types
<1>2. Types' /\ SecretKeepsAdmin' /\ HasAdmin(users)'
  BY <1>1 DEF loadFeatures, IInv, Types, SecretKeepsAdmin, HasAdmin, device, page
<1>3. Belongs'
  BY <1>1, TakenBelongs DEF loadFeatures, IInv, Belongs, page
<1> QED BY <1>1, <1>2, <1>3 DEF IInv

LEMMA VerifiedStep == IInv /\ Verified => IInv'
<1> SUFFICES ASSUME IInv, Verified PROVE IInv'
  OBVIOUS
<1>1. PICK r \in Back("verify") :
        /\ me' = IF r.phase = "done" THEN Me(r.token) ELSE NoOne
        /\ requests' = (requests \ {r})
                        \cup (IF initialized THEN {} ELSE FirstLoad(location, me'))
        /\ handleApiResponseError(r)
  BY DEF Verified
<1>2. r \in requests /\ Good(r) /\ r.token \in Tokens
  BY DEF Back, IInv, Good
<1>3. location' \in {location, "unauthorized"} /\ redirect' \in Locations \cup {NoData}
  BY <1>1, <1>2, SentAway DEF IInv
<1>4. me' \in Who \cup {NoOne}
  BY <1>1, <1>2 DEF Me, Who, Tokens
<1>5. Types' /\ SecretKeepsAdmin' /\ HasAdmin(users)'
  BY <1>3, <1>4 DEF Verified, IInv, Types, SecretKeepsAdmin, HasAdmin, device, page, Locations
<1>6. \A q \in FirstLoad(location, me') : Good(q) /\ location \in SecurityPages
  BY FirstLoadGood DEF IInv, Types
<1>7. \A q \in requests' : Good(q) /\ (q \in requests \/ location \in SecurityPages)
  BY <1>1, <1>6 DEF IInv
<1>8. Belongs'
  BY <1>3, <1>7 DEF Verified, IInv, Belongs, page
<1> QED BY <1>5, <1>7, <1>8 DEF IInv

LEMMA SignInStep == IInv /\ validateAndSignIn => IInv'
<1> SUFFICES ASSUME IInv, validateAndSignIn PROVE IInv'
  OBVIOUS
<1>1. PICK name \in Names \cup {"wrong"} : requests' = requests \cup {Request("signIn", name)}
  BY DEF validateAndSignIn
<1> DEFINE q == Request("signIn", name)
<1>2. Good(q) /\ q.kind = "signIn"
  BY NewGood DEF IInv, Kinds
<1>3. requests' = requests \cup {q}
  BY <1>1
<1> HIDE DEF q
<1>4. Types' /\ SecretKeepsAdmin' /\ HasAdmin(users)'
  BY DEF validateAndSignIn, IInv, Types, SecretKeepsAdmin, HasAdmin, device, page
<1>5. Belongs'
  BY <1>2, <1>3 DEF validateAndSignIn, OnSignIn, IInv, Belongs, page
<1> QED BY <1>2, <1>3, <1>4, <1>5 DEF IInv

LEMMA SignInAnsweredStep == IInv /\ SignInAnswered => IInv'
<1> SUFFICES ASSUME IInv, SignInAnswered PROVE IInv'
  OBVIOUS
<1>1. PICK r \in Back("signIn") :
        /\ requests' = requests \ {r}
        /\ IF r.phase = "done"
             THEN token' = r.answer /\ me' = Me(r.answer) /\ UNCHANGED processing
             ELSE processing' = (processing /\ ~r.mine) /\ UNCHANGED <<token, me>>
  BY DEF SignInAnswered
<1>2. r \in requests /\ Good(r) /\ r.kind = "signIn"
  BY DEF Back, IInv
<1>3. /\ token' \in Tokens \cup {NoToken} /\ me' \in Who \cup {NoOne}
      /\ processing' \in BOOLEAN /\ (processing' => processing)
  <2>1. CASE r.phase = "done"
    <3>1. r.answer \in Tokens
      BY <1>2, <2>1 DEF Good
    <3> QED BY <1>1, <2>1, <3>1 DEF Me, Who, Tokens, IInv, Types
  <2>2. CASE r.phase # "done"
    BY <1>1, <2>2 DEF IInv, Types
  <2> QED BY <2>1, <2>2
<1>4. Types' /\ SecretKeepsAdmin' /\ HasAdmin(users)'
  BY <1>3 DEF SignInAnswered, IInv, Types, SecretKeepsAdmin, HasAdmin, device, page
<1>5. Belongs'
  BY <1>1, <1>3 DEF SignInAnswered, IInv, Belongs, page
<1> QED BY <1>1, <1>4, <1>5 DEF IInv

LEMMA SignOutStep == IInv /\ signOut => IInv'
<1> SUFFICES ASSUME IInv, signOut PROVE IInv'
  OBVIOUS
<1>1. \A q \in requests' : Good(q) /\ ~(q.kind \in {"load", "save"} /\ q.mine)
  BY LeftGood DEF signOut, IInv
<1>2. Types' /\ SecretKeepsAdmin' /\ HasAdmin(users)'
  BY DEF signOut, IInv, Types, SecretKeepsAdmin, HasAdmin, device, Locations
<1>3. Belongs'
  BY <1>1 DEF signOut, Belongs
<1> QED BY <1>1, <1>2, <1>3 DEF IInv

(* Opening a place leaves the page that was open, whoever is signed in.    *)
LEMMA OpenStep ==
  ASSUME IInv, NEW where \in Locations, Open(where), UNCHANGED <<device, initialized>>,
         me' \in Who \cup {NoOne}, token' \in Tokens \cup {NoToken},
         redirect' \in Locations \cup {NoData}
  PROVE  IInv'
<1>1. \A q \in FirstLoad(where, me) : Good(q) /\ where \in SecurityPages
  BY FirstLoadGood DEF IInv
<1>2. requests' = Left(requests) \cup FirstLoad(where, me) /\ location' = where
  BY DEF Open
<1>3. \A p \in Left(requests) : Good(p) /\ ~(p.kind \in {"load", "save"} /\ p.mine)
  BY LeftGood DEF IInv
<1>4. Types' /\ SecretKeepsAdmin' /\ HasAdmin(users)'
  BY DEF Open, IInv, Types, SecretKeepsAdmin, HasAdmin, device
<1>5. Belongs'
  BY <1>1, <1>2, <1>3 DEF Open, Belongs
<1> QED BY <1>1, <1>2, <1>3, <1>4, <1>5 DEF IInv

LEMMA NavigateStep == IInv /\ (Navigate \/ Menu) => IInv'
<1>1. ASSUME IInv, Navigate PROVE IInv'
  <2>1. UNCHANGED <<device, initialized>>
    BY <1>1 DEF Navigate
  <2>2. CASE Open("unauthorized") /\ redirect' = location /\ UNCHANGED <<me, token>>
    BY <1>1, <2>1, <2>2, OpenStep DEF IInv, Types, Locations
  <2>3. CASE fetchLoginRedirect /\ UNCHANGED <<me, token>>
    <3>1. (IF redirect = NoData THEN "home" ELSE redirect) \in Locations
      BY <1>1 DEF IInv, Types, Locations
    <3> QED BY <1>1, <2>1, <2>3, <3>1, OpenStep DEF fetchLoginRedirect, IInv, Types
  <2>4. CASE Open("root") /\ UNCHANGED <<me, token, redirect>>
    BY <1>1, <2>1, <2>4, OpenStep DEF IInv, Types, Locations
  <2>5. CASE /\ Open("root") /\ UNCHANGED redirect
             /\ IF location = "unauthorized" THEN me' = NoOne /\ token' = NoToken
                                             ELSE UNCHANGED <<me, token>>
    BY <1>1, <2>1, <2>5, OpenStep DEF IInv, Types, Locations
  <2> QED BY <1>1, <2>2, <2>3, <2>4, <2>5 DEF Navigate
<1>2. ASSUME IInv, Menu PROVE IInv'
  <2>1. PICK where \in {"home"} \cup (IF IsAdmin(me) THEN SecurityPages ELSE {}) : Open(where)
    BY <1>2 DEF Menu
  <2>2. where \in Locations
    BY DEF SecurityPages, Locations
  <2> QED BY <1>2, <2>1, <2>2, OpenStep DEF Menu, IInv, Types
<1> QED BY <1>1, <1>2

LEMMA ReloadStep == IInv /\ Reload => IInv'
BY DEF Reload, IInv, Types, Belongs, SecretKeepsAdmin, HasAdmin, device

LEMMA FetchStep == IInv /\ (Fetch \/ Fetched) => IInv'
<1>1. ASSUME IInv, Fetch PROVE IInv'
  <2> DEFINE q == Request("fetch", NoData)
  <2>1. Good(q) /\ q.kind = "fetch"
    BY <1>1, NewGood DEF IInv, Kinds
  <2>2. requests' = requests \cup {q}
    BY <1>1 DEF Fetch
  <2> HIDE DEF q
  <2> QED BY <1>1, <2>1, <2>2 DEF Fetch, IInv, Types, Belongs, SecretKeepsAdmin, HasAdmin,
                                 device, session, page
<1>2. ASSUME IInv, Fetched PROVE IInv'
  <2>1. PICK r \in Back("fetch") : requests' = requests \ {r} /\ handleApiResponseError(r)
    BY <1>2 DEF Fetched
  <2>2. location' \in {location, "unauthorized"} /\ redirect' \in Locations \cup {NoData}
    BY <1>2, <2>1, SentAway DEF Back, IInv
  <2>3. Types' /\ SecretKeepsAdmin' /\ HasAdmin(users)'
    BY <1>2, <2>2 DEF Fetched, IInv, Types, SecretKeepsAdmin, HasAdmin, device, page, Locations
  <2>4. Belongs'
    BY <1>2, <2>1, <2>2, TakenBelongs DEF Fetched, IInv, Belongs, page
  <2> QED BY <1>2, <2>1, <2>3, <2>4 DEF IInv
<1> QED BY <1>1, <1>2

LEMMA LoadedStep == IInv /\ Loaded => IInv'
<1> SUFFICES ASSUME IInv, Loaded PROVE IInv'
  OBVIOUS
<1>1. PICK r \in Back("load") :
        /\ requests' = requests \ {r}
        /\ data' = IF r.phase = "done" /\ r.mine THEN r.answer ELSE data
        /\ handleApiResponseError(r)
  BY DEF Loaded
<1>2. r \in requests /\ r.kind = "load" /\ Good(r)
  BY DEF Back, IInv
<1>3. location' \in {location, "unauthorized"} /\ redirect' \in Locations \cup {NoData}
  BY <1>1, <1>2, SentAway DEF IInv
<1>4. /\ data' \in Data \cup {NoData}
      /\ data' = data \/ HasAdmin(data'.users)
      /\ data' = data \/ location \in SecurityPages \cup {"unauthorized"}
  BY <1>1, <1>2 DEF Good, IInv, Types, Belongs
<1>5. Types' /\ HasAdmin(users)'
  BY <1>3, <1>4 DEF Loaded, IInv, Types, HasAdmin, device, Locations
<1>6. SecretKeepsAdmin'
  BY <1>3, <1>4 DEF IInv, SecretKeepsAdmin, HasAdmin
<1>7. Belongs'
  BY <1>1, <1>3, <1>4, TakenBelongs DEF Loaded, IInv, Belongs
<1> QED BY <1>1, <1>5, <1>6, <1>7 DEF IInv

LEMMA RetryStep == IInv /\ Retry => IInv'
<1> SUFFICES ASSUME IInv, Retry PROVE IInv'
  OBVIOUS
<1> DEFINE q == Request("load", NoData)
<1>1. Good(q)
  BY NewGood DEF IInv, Kinds
<1>2. requests' = requests \cup {q} /\ location \in SecurityPages
  BY DEF Retry
<1> HIDE DEF q
<1> QED BY <1>1, <1>2 DEF Retry, IInv, Types, Belongs, SecretKeepsAdmin, HasAdmin,
                         device, session, page

(* Editing the users is free; it is onSubmit that looks for an admin.      *)
LEMMA EditStep ==
  ASSUME IInv, NEW new \in Data, Edited(new), location \in SecurityPages,
         location = "secret" => HasAdmin(new.users), user' \in UserForm \cup {NoOne}
  PROVE  IInv'
<1>1. Types' /\ HasAdmin(users)'
  BY DEF Edited, IInv, Types, HasAdmin, device, session
<1>2. SecretKeepsAdmin' /\ Belongs'
  BY DEF Edited, IInv, SecretKeepsAdmin, Belongs, HasAdmin, session
<1> QED BY <1>1, <1>2 DEF Edited, IInv

LEMMA UsersStep ==
  IInv /\ (removeUser \/ openUser \/ cancelEditingUser \/ doneEditingUser) => IInv'
<1>1. ASSUME IInv, removeUser PROVE IInv'
  <2>1. PICK n \in Names : Edited([data EXCEPT !.users[n] = "none"])
    BY <1>1 DEF removeUser
  <2>2. data \in Data /\ location = "users"
    BY <1>1 DEF removeUser, OnSecurity, IInv, Types
  <2>3. [data EXCEPT !.users[n] = "none"] \in Data
    BY <2>2 DEF Data, Roles
  <2> QED BY <1>1, <2>1, <2>2, <2>3, EditStep DEF removeUser, SecurityPages, IInv, Types
<1>2. ASSUME IInv, openUser \/ cancelEditingUser PROVE IInv'
  BY <1>2 DEF openUser, cancelEditingUser, IInv, Types, Belongs, SecretKeepsAdmin, HasAdmin,
              device, session
<1>3. ASSUME IInv, doneEditingUser PROVE IInv'
  <2>1. data \in Data /\ location = "users" /\ user \in UserForm
    BY <1>3 DEF doneEditingUser, OnSecurity, IInv, Types
  <2>2. [data EXCEPT !.users[user.name] = user.role] \in Data
    BY <2>1 DEF Data, Roles, UserForm
  <2> QED BY <1>3, <2>1, <2>2, EditStep DEF doneEditingUser, SecurityPages
<1> QED BY <1>1, <1>2, <1>3

LEMMA SecretStep == IInv /\ changeSecret => IInv'
<1> SUFFICES ASSUME IInv, changeSecret PROVE IInv'
  OBVIOUS
<1>1. PICK s \in Secrets \ {data.secret} : Edited([data EXCEPT !.secret = s])
  BY DEF changeSecret
<1>2. data \in Data /\ data # NoData /\ location = "secret"
  BY DEF changeSecret, OnSecurity, IInv, Types
<1>3. [data EXCEPT !.secret = s] \in Data /\ [data EXCEPT !.secret = s].users = data.users
  BY <1>2 DEF Data
<1>4. HasAdmin([data EXCEPT !.secret = s].users)
  BY <1>2, <1>3 DEF IInv, SecretKeepsAdmin
<1> QED BY <1>1, <1>2, <1>3, <1>4, EditStep DEF changeSecret, SecurityPages, IInv, Types

LEMMA SubmitStep == IInv /\ onSubmit => IInv'
<1> SUFFICES ASSUME IInv, onSubmit PROVE IInv'
  OBVIOUS
<1> DEFINE q == Request("save", data)
<1>1. data \in Data /\ data # NoData /\ location \in SecurityPages
  BY DEF onSubmit, OnSecurity, IInv, Types
<1>2. HasAdmin(data.users)
  BY <1>1 DEF onSubmit, noAdminConfigured, SecurityPages, IInv, SecretKeepsAdmin, HasAdmin
<1>3. Good(q)
  BY <1>1, <1>2, NewGood DEF IInv, Kinds
<1>4. requests' = requests \cup {q}
  BY DEF onSubmit
<1> HIDE DEF q
<1>5. Types' /\ HasAdmin(users)'
  BY DEF onSubmit, IInv, Types, HasAdmin, device, session
<1>6. SecretKeepsAdmin' /\ Belongs'
  BY <1>1, <1>4 DEF onSubmit, IInv, SecretKeepsAdmin, Belongs, HasAdmin, session
<1> QED BY <1>3, <1>4, <1>5, <1>6 DEF IInv

LEMMA SavedStep == IInv /\ Saved => IInv'
<1> SUFFICES ASSUME IInv, Saved PROVE IInv'
  OBVIOUS
<1>1. PICK r \in Back("save") :
        /\ IF r.mine THEN /\ saving' = FALSE
                          /\ data' = IF r.phase = "done" THEN r.answer ELSE data
                     ELSE UNCHANGED <<saving, data>>
        /\ handleApiResponseError(r)
        /\ Refreshed(requests \ {r}, me)
  BY DEF Saved
<1>2. r \in requests /\ r.kind = "save" /\ Good(r)
  BY DEF Back, IInv
<1>3. location' \in {location, "unauthorized"} /\ redirect' \in Locations \cup {NoData}
  BY <1>1, <1>2, SentAway DEF IInv
<1>4. /\ data' \in Data \cup {NoData} /\ saving' \in BOOLEAN /\ (saving' => saving)
      /\ data' = data \/ HasAdmin(data'.users)
      /\ data' = data \/ location \in SecurityPages \cup {"unauthorized"}
  BY <1>1, <1>2 DEF Good, IInv, Types, Belongs
<1>5. /\ \A q \in requests' : Good(q) /\ (q.kind \in {"load", "save"} => q \in requests)
      /\ me' \in Who \cup {NoOne} /\ initialized' \in BOOLEAN
  BY <1>1, RefreshedGood DEF IInv, Types
<1>6. Types' /\ HasAdmin(users)'
  BY <1>3, <1>4, <1>5 DEF Saved, IInv, Types, HasAdmin, device, Locations
<1>7. SecretKeepsAdmin'
  BY <1>3, <1>4 DEF IInv, SecretKeepsAdmin, HasAdmin
<1>8. Belongs'
  BY <1>3, <1>4, <1>5, TakenBelongs DEF Saved, IInv, Belongs
<1> QED BY <1>5, <1>6, <1>7, <1>8 DEF IInv

-----------------------------------------------------------------------------
LEMMA Inductive == IInv /\ [Next]_vars => IInv'
<1> SUFFICES ASSUME IInv, [Next]_vars PROVE IInv'
  OBVIOUS
<1>1. CASE UNCHANGED vars
  BY <1>1 DEF IInv, Types, Belongs, SecretKeepsAdmin, HasAdmin, vars, device, session, page
<1>2. CASE Serve \/ configureJWTHandler \/ OtherSaves \/ Lose
  BY <1>2, ServeStep, DeviceStep, LoseStep
<1>3. CASE loadFeatures \/ Verified \/ validateAndSignIn \/ SignInAnswered \/ signOut
  BY <1>3, LoadFeaturesStep, VerifiedStep, SignInStep, SignInAnsweredStep, SignOutStep
<1>4. CASE Navigate \/ Menu \/ Reload \/ Fetch \/ Fetched
  BY <1>4, NavigateStep, ReloadStep, FetchStep
<1>5. CASE Loaded \/ Retry \/ removeUser \/ openUser \/ cancelEditingUser \/ doneEditingUser
  BY <1>5, LoadedStep, RetryStep, UsersStep
<1>6. CASE changeSecret \/ onSubmit \/ Saved
  BY <1>6, SecretStep, SubmitStep, SavedStep
<1> QED BY <1>1, <1>2, <1>3, <1>4, <1>5, <1>6 DEF Next

LEMMA Invariance == Spec => []IInv
BY InitIInv, Inductive, PTL DEF Spec

(* A form belongs to the page it is on, and whoever is signed in has a     *)
(* role, for any users and any answers (Authentication, useRest).          *)
THEOREM TypeCorrect == Spec => []TypeOK
<1>1. IInv => TypeOK
  BY DEF IInv, Types, Belongs, TypeOK, Who
<1> QED BY <1>1, Invariance, PTL

(* There is always an admin, however many users there are and whatever     *)
(* stale lists other browsers save (ManageUsersForm, SecuritySettingsForm).*)
THEOREM AlwaysAnAdminHolds == Spec => []AlwaysAnAdmin
<1>1. IInv => AlwaysAnAdmin
  BY DEF IInv, HasAdmin, AlwaysAnAdmin
<1> QED BY <1>1, Invariance, PTL
=============================================================================
