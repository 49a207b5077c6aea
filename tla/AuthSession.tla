------------------------------ MODULE AuthSession ------------------------------
(***************************************************************************)
(* The sign-in state of one page (web/auth.js): the Firebase SDK's current *)
(* user, and the state OSKAuth hands to the page's scripts.  The two       *)
(* differ between a sign-in or sign-out and its onAuthStateChanged         *)
(* callback: getIdToken reads the first, getState the second.              *)
(*                                                                         *)
(* Every script of a page subscribes to the same callback.  Deliver is     *)
(* the callback; a module of a script conjoins its handler to it, because  *)
(* notify runs the handlers in the same turn.                              *)
(***************************************************************************)
EXTENDS Naturals

CONSTANTS Users, NoUser,
          MaxChanges   \* bound: sign-ins and sign-outs after the SDK has loaded

ASSUME SessionAssumption == NoUser \notin Users /\ MaxChanges \in Nat

VARIABLES sdk,       \* the SDK: off (no apiKey), loading, loaded or failed
          current,   \* auth.currentUser
          user,      \* state.user, what subscribers were last told
          session,   \* history: callbacks delivered so far
          changes    \* bound: changes of current so far

sessionVars == <<sdk, current, user, session, changes>>

MaybeUser == Users \cup {NoUser}

SessionTypeOK ==
  /\ sdk \in {"off", "loading", "loaded", "failed"}
  /\ current \in MaybeUser /\ user \in MaybeUser
  /\ session \in 0 .. MaxChanges + 1
  /\ changes \in 0 .. MaxChanges

SessionInit ==
  /\ sdk \in {"off", "loading"}
  /\ current = NoUser /\ user = NoUser
  /\ session = 0 /\ changes = 0

\* state.ready: settled at once when there is no apiKey, else by the first
\* callback or by the failure to load.
Ready == sdk \in {"off", "failed"} \/ session > 0

GuardMode ==
  CASE sdk = "off"    -> "not-configured"
    [] sdk = "failed" -> "error"
    [] ~Ready         -> "loading"
    [] Ready /\ sdk = "loaded" /\ user # NoUser -> "signed-in"
    [] OTHER          -> "signed-out"

\* The owner of the token a request sent now would carry.
Token == IF sdk = "loaded" THEN current ELSE NoUser

\* The SDK loads once, and restores the stored session or none.
Load ==
  /\ sdk = "loading" /\ sdk' = "loaded"
  /\ current' \in MaybeUser
  /\ UNCHANGED <<user, session, changes>>

\* Offline, a blocked CDN, a bad configuration: the page stays in the error state.
LoadFails ==
  /\ sdk = "loading" /\ sdk' = "failed"
  /\ UNCHANGED <<current, user, session, changes>>

\* The SDK's user changes: here, or in another tab of the browser, in which case
\* this page may see one user replaced by another.
Change(u) ==
  /\ sdk = "loaded" /\ u # current
  /\ changes < MaxChanges /\ changes' = changes + 1
  /\ current' = u
  /\ UNCHANGED <<sdk, user, session>>

SignIn  == \E u \in Users : Change(u)
SignOut == Change(NoUser)

\* The callback: the first one, or one for a user that changed.
Deliver ==
  /\ sdk = "loaded"
  /\ session = 0 \/ user # current
  /\ user' = current
  /\ session' = session + 1
  /\ UNCHANGED <<sdk, current, changes>>

\* Steps no script of the page takes part in.
Elsewhere == Load \/ LoadFails \/ SignIn \/ SignOut

=============================================================================
