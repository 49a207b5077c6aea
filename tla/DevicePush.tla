------------------------------- MODULE DevicePush -------------------------------
(***************************************************************************)
(* Push registration end to end: the push client of one device             *)
(* (web/push-client.js), the registry of tokens (DeviceTokenService) and   *)
(* the sends that prune it (PushNotificationService).                      *)
(*                                                                         *)
(* FCM gives a device a token and may replace it; a token once dead stays  *)
(* dead.  A row of the registry binds a token to one user.  Other devices  *)
(* register and deregister tokens through the same API.                    *)
(***************************************************************************)
EXTENDS AuthSession, Sequences, FiniteSets

CONSTANTS Tokens, NoToken,
          MaxRequests   \* bound: requests in flight when another device sends one

ASSUME TokenAssumption ==
  NoToken \notin Tokens /\ IsFiniteSet(Tokens) /\ MaxRequests \in Nat \ {0}

VARIABLES owner,     \* device_tokens: per token its user, or no row
          fcm,       \* per token: not minted, of this device, of another, or dead
          page,      \* the push client's state
          posts,     \* POST /me/devices on their way
          deletes,   \* DELETE /me/devices/{token} on their way
          send       \* the multicast in progress, if any

pushVars == <<owner, fcm, page, posts, deletes, send>>

MaybeToken == Tokens \cup {NoToken}
Requests == [by : Users, token : Tokens]
Results == {"delivered", "dead", "transient"}
NoSend == [tokens |-> <<>>, results |-> <<>>, next |-> 1]

PushTypeOK ==
  /\ owner \in [Tokens -> MaybeUser]
  /\ fcm \in [Tokens -> {"unminted", "here", "elsewhere", "dead"}]
  /\ page \in [registered : BOOLEAN,   \* onAuth's flag
               listening : BOOLEAN,    \* listenersAttached
               leaving : BOOLEAN,      \* unregister waits for its listeners to be removed
               asking : BOOLEAN,       \* requestPermissions waits for the user
               minting : BOOLEAN,      \* the plugin's register was called
               lastToken : MaybeToken]
  /\ posts \subseteq Requests /\ deletes \subseteq Requests
  /\ send.next \in 1 .. Cardinality(Tokens) + 1
  /\ Len(send.results) \in {0, Len(send.tokens)}
  /\ \A i \in DOMAIN send.tokens : send.tokens[i] \in Tokens
  /\ \A i \in DOMAIN send.results : send.results[i] \in Results

PushInit ==
  /\ SessionInit
  /\ fcm \in [Tokens -> {"unminted", "elsewhere"}]
  /\ owner \in [Tokens -> MaybeUser]
  /\ \A t \in Tokens : fcm[t] = "unminted" => owner[t] = NoUser
  /\ page = [registered |-> FALSE, listening |-> FALSE, leaving |-> FALSE,
             asking |-> FALSE, minting |-> FALSE, lastToken |-> NoToken]
  /\ posts = {} /\ deletes = {} /\ send = NoSend

---------------------------------------------------------------------------
(* The client                                                              *)

\* A slip: the request goes out without a user.
RequestAnyway(t) == [by : {Token}, token : {t} \cap Tokens]

\* What a request sent now needs: a token to name and a user to authenticate.
Request(t) == [by : {Token} \cap Users, token : {t} \cap Tokens]

\* onAuth: register for a first user; unregister when there is none, by which time
\* the SDK has no user to authenticate the DELETE with: none is awaited, and the
\* listeners are taken off in the same turn.
PushOnAuth ==
  /\ \/ /\ user' # NoUser /\ ~page.registered
        /\ page' = [page EXCEPT !.registered = TRUE, !.listening = TRUE, !.asking = TRUE]
        /\ UNCHANGED deletes
     \/ /\ user' = NoUser /\ page.registered
        /\ page' = [page EXCEPT !.registered = FALSE, !.listening = FALSE, !.leaving = TRUE]
        /\ deletes' = deletes \cup Request(page.lastToken)
     \/ /\ (user' # NoUser) = page.registered
        /\ UNCHANGED <<page, deletes>>
  /\ UNCHANGED <<owner, fcm, posts, send>>

\* requestPermission, then the plugin's register if it was granted.
AnswerPermission ==
  /\ page.asking
  /\ \E granted \in BOOLEAN :
       page' = [page EXCEPT !.asking = FALSE, !.minting = @ \/ granted]
  /\ UNCHANGED <<owner, fcm, posts, deletes, send>>

\* handleRegistrationToken, by the listeners attached now or those being removed.
TokenEvent(t) ==
  IF page.listening \/ page.leaving
  THEN /\ page' = [page EXCEPT !.minting = FALSE, !.lastToken = t]
       /\ posts' = posts \cup Request(t)
  ELSE page' = [page EXCEPT !.minting = FALSE] /\ UNCHANGED posts

\* FCM answers register with this device's token, a new one if it has none.
Registration ==
  /\ page.minting
  /\ \E t \in Tokens :
       /\ \/ fcm[t] = "here" /\ UNCHANGED fcm
          \/ /\ \A s \in Tokens : fcm[s] # "here"
             /\ fcm[t] = "unminted" /\ fcm' = [fcm EXCEPT ![t] = "here"]
       /\ TokenEvent(t)
  /\ UNCHANGED <<owner, deletes, send>>

RegistrationError ==
  /\ page.minting
  /\ page' = [page EXCEPT !.minting = FALSE]
  /\ UNCHANGED <<owner, fcm, posts, deletes, send>>

\* FCM replaces the token and says so unasked.
Rotate ==
  /\ \E old, new \in Tokens :
       /\ fcm[old] = "here" /\ fcm[new] = "unminted"
       /\ fcm' = [fcm EXCEPT ![old] = "dead", ![new] = "here"]
       /\ TokenEvent(new)
  /\ UNCHANGED <<owner, deletes, send>>

\* A slip: the flag is reset when the listeners are gone.
LeftLate ==
  /\ page.leaving
  /\ page' = [page EXCEPT !.leaving = FALSE, !.listening = FALSE, !.lastToken = NoToken]
  /\ UNCHANGED <<owner, fcm, posts, deletes, send>>

\* The end of unregister: the old listeners are gone and the token is forgotten,
\* also one that came meanwhile.
Left ==
  /\ page.leaving
  /\ page' = [page EXCEPT !.leaving = FALSE, !.lastToken = NoToken]
  /\ UNCHANGED <<owner, fcm, posts, deletes, send>>

\* Another device of u registers its token or takes it back.
OtherDevice(u, t) ==
  /\ fcm[t] = "elsewhere"
  /\ Cardinality(posts) + Cardinality(deletes) < MaxRequests
  /\ \/ owner[t] # u /\ posts' = posts \cup {[by |-> u, token |-> t]} /\ UNCHANGED deletes
     \/ owner[t] = u /\ deletes' = deletes \cup {[by |-> u, token |-> t]} /\ UNCHANGED posts
  /\ UNCHANGED <<owner, fcm, page, send>>

\* It is uninstalled.
Uninstall(t) ==
  /\ fcm[t] = "elsewhere" /\ fcm' = [fcm EXCEPT ![t] = "dead"]
  /\ UNCHANGED <<owner, page, posts, deletes, send>>

---------------------------------------------------------------------------
(* The registry                                                            *)

\* register: an upsert that rebinds the row to the caller; or the request fails,
\* and is not sent again.
Register(q) ==
  /\ posts' = posts \ {q}
  /\ owner' \in {owner, [owner EXCEPT ![q.token] = q.by]}
  /\ UNCHANGED <<fcm, page, deletes, send>>

\* A slip: deleteByToken.
DeregisterAny(q) ==
  /\ deletes' = deletes \ {q}
  /\ owner' \in {owner, [owner EXCEPT ![q.token] = NoUser]}
  /\ UNCHANGED <<fcm, page, posts, send>>

\* deregister: deleteByTokenAndUserId.
Deregister(q) ==
  /\ deletes' = deletes \ {q}
  /\ owner' \in {owner, [owner EXCEPT ![q.token] = IF @ = q.by THEN NoUser ELSE @]}
  /\ UNCHANGED <<fcm, page, posts, send>>

---------------------------------------------------------------------------
(* Sends                                                                   *)

\* sendToUser reads the user's tokens, in the order the database gives.
SendToUser(u) ==
  /\ send = NoSend
  /\ LET held == {t \in Tokens : owner[t] = u}
     IN /\ held # {}
        /\ \E order \in [1 .. Cardinality(held) -> held] :
             /\ \A i, j \in DOMAIN order : order[i] = order[j] => i = j
             /\ send' = [NoSend EXCEPT !.tokens = order]
  /\ UNCHANGED <<owner, fcm, page, posts, deletes>>

\* sendEachForMulticast: one result per token, in their order; or it fails entirely.
Multicast ==
  /\ send.tokens # <<>> /\ send.results = <<>>
  /\ \/ send' = NoSend
     \/ \E results \in [DOMAIN send.tokens -> Results] :
          /\ \A i \in DOMAIN results :
               (results[i] = "dead") => fcm[send.tokens[i]] = "dead"
          /\ \A i \in DOMAIN results :
               (results[i] = "delivered") => fcm[send.tokens[i]] # "dead"
          /\ send' = [send EXCEPT !.results = results]
  /\ UNCHANGED <<owner, fcm, page, posts, deletes>>

\* A slip: the index counts the failures only.
BlamedAmongFailures(i) ==
  send.tokens[Cardinality({j \in 1 .. i : send.results[j] # "delivered"})]

\* The token the i-th result is about.
Blamed(i) == send.tokens[i]

\* pruneDeadTokens, one result at a time: a dead token's row goes, whoever owns it.
Prune ==
  /\ send.results # <<>>
  /\ owner' = IF send.results[send.next] = "dead"
              THEN [owner EXCEPT ![Blamed(send.next)] = NoUser] ELSE owner
  /\ send' = IF send.next = Len(send.tokens) THEN NoSend ELSE [send EXCEPT !.next = @ + 1]
  /\ UNCHANGED <<fcm, page, posts, deletes>>

PushStep ==
  \/ AnswerPermission \/ Registration \/ RegistrationError \/ Rotate \/ Left
  \/ \E u \in Users, t \in Tokens : OtherDevice(u, t)
  \/ \E t \in Tokens : Uninstall(t)
  \/ \E q \in posts : Register(q)
  \/ \E q \in deletes : Deregister(q)
  \/ \E u \in Users : SendToUser(u)
  \/ Multicast \/ Prune

PushNext ==
  \/ Elsewhere /\ UNCHANGED pushVars
  \/ Deliver /\ PushOnAuth
  \/ PushStep /\ UNCHANGED sessionVars

PushSpec == PushInit /\ [][PushNext]_<<sessionVars, pushVars>>

---------------------------------------------------------------------------

\* The row of a token that still works goes only by a DELETE of its owner: not by
\* one of an earlier owner that comes late, nor by the failure of another token or
\* of a send that read the registry before the token was bound anew.
RowsKept ==
  [][\A t \in Tokens :
       (owner[t] # NoUser /\ owner'[t] = NoUser /\ fcm[t] # "dead") =>
         [by |-> owner[t], token |-> t] \in deletes \ deletes']_<<sessionVars, pushVars>>

\* However sign-outs and sign-ins follow each other while listeners are being
\* removed, the client of a signed-in user listens for its token.
Listens == page.registered => page.listening

\* push-client.js:13 "and DELETE /api/v1/me/devices/{token} on sign-out".
SignOutDeregisters ==
  [][\A t \in Tokens :
       (page.registered /\ ~page'.registered /\ page.lastToken = t /\ owner[t] = user) =>
         [by |-> user, token |-> t] \in deletes']_<<sessionVars, pushVars>>

=============================================================================
