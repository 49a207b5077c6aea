---------------------------- MODULE CompletionGate ----------------------------
(***************************************************************************)
(* The profile-completion gate (web/completion-gate.js): on a sign-in it   *)
(* covers the page, asks the backend for the profile, and shows a form for *)
(* the required fields that are missing or reveals the page.               *)
(*                                                                         *)
(* A profile is the set of required fields it has.  Profiles change        *)
(* through this gate alone.  A request is answered by the server and       *)
(* applied by the page in two steps; it carries the callback it was sent   *)
(* under, which the code does not keep.                                    *)
(***************************************************************************)
EXTENDS AuthSession

CONSTANTS Fields   \* resolveRequiredFields

VARIABLES profile,      \* backend, per user: required fields with a value
          overlay,      \* mountedKind
          missing,      \* the fields the mounted form asks for
          lastProfile,  \* merge base of a submit
          wasSignedIn,
          body,         \* document.body's overflow and lockScroll's savedOverflow
          checks,       \* GET /me in flight
          save,         \* the PATCH /me in flight (busy), if any
          decision      \* history: the ground of the last decision on the overlay

gateVars == <<profile, overlay, missing, lastProfile, wasSignedIn, body, checks, save, decision>>

Answers == [is : {"sent", "failed", "ok"}, fields : SUBSET Fields]
Sent == [is |-> "sent", fields |-> {}]
Failed == [is |-> "failed", fields |-> {}]   \* no session, 4xx, 5xx, or no answer
Ok(fields) == [is |-> "ok", fields |-> fields]

Idle == [by |-> NoUser, session |-> 0, patch |-> {}, got |-> Failed]

Checks == [by : MaybeUser, session : 1 .. MaxChanges + 1, got : Answers]
Saves == [by : MaybeUser, session : 1 .. MaxChanges + 1, patch : SUBSET Fields, got : Answers]

GateTypeOK ==
  /\ profile \in [Users -> SUBSET Fields]
  /\ overlay \in {"none", "loading", "form"}
  /\ missing \subseteq Fields /\ lastProfile \subseteq Fields
  /\ wasSignedIn \in BOOLEAN
  /\ body \in [overflow : {"page", "hidden"}, saved : {"null", "page", "hidden"}]
  /\ checks \subseteq Checks
  /\ save \in Saves \cup {Idle}
  /\ decision \in {"none", "ask", "complete", "open", "foreign"}

GateInit ==
  /\ profile \in [Users -> SUBSET Fields]
  /\ overlay = "none" /\ missing = {} /\ lastProfile = {}
  /\ wasSignedIn = FALSE
  /\ body = [overflow |-> "page", saved |-> "null"]
  /\ checks = {} /\ save = Idle
  /\ decision = "none"

busy == save # Idle

---------------------------------------------------------------------------
(* The overlay and the scroll lock                                         *)

Lock(b) == [overflow |-> "hidden", saved |-> IF b.saved = "null" THEN b.overflow ELSE b.saved]

\* A slip: only the form releases the lock.
UnlockFormOnly(b) ==
  IF overlay = "loading" THEN b
  ELSE [overflow |-> IF b.saved = "null" THEN "page" ELSE b.saved, saved |-> "null"]

Unlock(b) == [overflow |-> IF b.saved = "null" THEN "page" ELSE b.saved, saved |-> "null"]

Unmounted(b) == IF overlay = "none" THEN b ELSE Unlock(b)

Unmount ==
  /\ overlay' = "none" /\ missing' = {}
  /\ body' = Unmounted(body)

ShowLoading ==
  IF overlay # "none" THEN UNCHANGED <<overlay, missing, body>>
  ELSE overlay' = "loading" /\ missing' = {} /\ body' = Lock(body)

ShowForm(fields) ==
  /\ overlay' = "form" /\ missing' = fields
  /\ body' = Lock(Unmounted(body))

\* An answer to an earlier callback, or about another user, taints what follows
\* until the next sign-in.
Decide(request, why) ==
  decision' = IF request.session = session /\ request.by = user /\ decision # "foreign"
              THEN why ELSE "foreign"

\* computeGateView for a profile that was read, and what check and submit do with it.
Reflect(p, request) ==
  IF Fields \subseteq p
  THEN Unmount /\ Decide(request, "complete")
  ELSE ShowForm(Fields \ p) /\ Decide(request, "ask")

---------------------------------------------------------------------------
(* The handler of the auth callback: edges only                            *)

GateOnAuth ==
  \/ /\ user' # NoUser /\ ~wasSignedIn
     /\ wasSignedIn' = TRUE
     /\ ShowLoading
     /\ checks' = checks \cup {[by |-> current, session |-> session', got |-> Sent]}
     /\ decision' = IF overlay = "none" THEN "none" ELSE "foreign"
     /\ UNCHANGED <<profile, lastProfile, save>>
  \/ /\ user' = NoUser /\ wasSignedIn
     /\ wasSignedIn' = FALSE
     /\ Unmount
     /\ decision' = "none"
     /\ UNCHANGED <<profile, lastProfile, checks, save>>
  \/ /\ (user' # NoUser) = wasSignedIn
     /\ decision' = IF user' = user THEN decision ELSE "foreign"
     /\ UNCHANGED <<profile, overlay, missing, lastProfile, wasSignedIn, body, checks, save>>

---------------------------------------------------------------------------
(* check                                                                   *)

ServeCheck(c) ==
  /\ c.got = Sent
  /\ \E a \in {Failed} \cup {Ok(profile[u]) : u \in {c.by} \cap Users} :
       checks' = (checks \ {c}) \cup {[c EXCEPT !.got = a]}
  /\ UNCHANGED <<profile, overlay, missing, lastProfile, wasSignedIn, body, save, decision>>

\* A slip: a check that failed is dropped.
ApplyCheckRead(c) ==
  /\ c.got # Sent
  /\ checks' = checks \ {c}
  /\ IF c.got = Failed
     THEN UNCHANGED <<overlay, missing, body, decision, lastProfile>>
     ELSE Reflect(c.got.fields, c) /\ lastProfile' = c.got.fields
  /\ UNCHANGED <<profile, wasSignedIn, save>>

\* Whatever was not read reveals the page.
ApplyCheck(c) ==
  /\ c.got # Sent
  /\ checks' = checks \ {c}
  /\ IF c.got = Failed
     THEN Unmount /\ Decide(c, "open") /\ UNCHANGED lastProfile
     ELSE Reflect(c.got.fields, c) /\ lastProfile' = c.got.fields
  /\ UNCHANGED <<profile, wasSignedIn, save>>

---------------------------------------------------------------------------
(* submit                                                                  *)

\* The form's inputs are required, but one of blanks only is left out of the patch.
Submit ==
  /\ overlay = "form" /\ ~busy
  /\ \E patch \in SUBSET missing :
       save' = [by |-> Token, session |-> session, patch |-> patch, got |-> Sent]
  /\ UNCHANGED <<profile, overlay, missing, lastProfile, wasSignedIn, body, checks, decision>>

\* A save the server takes is echoed, answered without a readable body, or its
\* answer is lost.
ServeSave ==
  /\ busy /\ save.got = Sent
  /\ \/ /\ save.by # NoUser
        /\ profile' = [profile EXCEPT ![save.by] = @ \cup save.patch]
        /\ \E a \in {Ok(profile'[save.by]), Ok({}), Failed} : save' = [save EXCEPT !.got = a]
     \/ save' = [save EXCEPT !.got = Failed] /\ UNCHANGED profile
  /\ UNCHANGED <<overlay, missing, lastProfile, wasSignedIn, body, checks, decision>>

Merged == lastProfile \cup save.got.fields \cup save.patch

\* A slip: any 2xx dismisses the form.
ApplySaveUnchecked ==
  /\ busy /\ save.got # Sent
  /\ save' = Idle
  /\ IF save.got = Failed
     THEN UNCHANGED <<overlay, missing, body, decision>>
     ELSE Unmount /\ Decide(save, "complete")
  /\ UNCHANGED <<profile, lastProfile, wasSignedIn, checks>>

\* An error leaves the form as it is.
ApplySave ==
  /\ busy /\ save.got # Sent
  /\ save' = Idle
  /\ IF save.got = Failed
     THEN UNCHANGED <<overlay, missing, body, decision>>
     ELSE Reflect(Merged, save)
  /\ UNCHANGED <<profile, lastProfile, wasSignedIn, checks>>

\* The form's sign-out button uncovers the page first; the SDK signs out later, if it does.
LeaveForm ==
  /\ overlay = "form"
  /\ Unmount /\ decision' = IF decision = "foreign" THEN decision ELSE "open"
  /\ UNCHANGED <<profile, lastProfile, wasSignedIn, checks, save>>

GateStep ==
  \/ \E c \in checks : ServeCheck(c) \/ ApplyCheck(c)
  \/ Submit \/ ServeSave \/ ApplySave \/ LeaveForm

GateNext ==
  \/ Elsewhere /\ UNCHANGED gateVars
  \/ Deliver /\ GateOnAuth
  \/ GateStep /\ UNCHANGED sessionVars

\* Every fetch settles: the page sets no time limit, the browser and the server do.
GateFairness ==
  /\ WF_<<sessionVars, gateVars>>(\E c \in checks : ServeCheck(c) /\ UNCHANGED sessionVars)
  /\ WF_<<sessionVars, gateVars>>(\E c \in checks : ApplyCheck(c) /\ UNCHANGED sessionVars)

GateSpec ==
  SessionInit /\ GateInit /\ [][GateNext]_<<sessionVars, gateVars>> /\ GateFairness

---------------------------------------------------------------------------

\* "The one thing it must never do is let an incomplete profile slip through": as long
\* as every answer was to the present sign-in and about its user, a page revealed as
\* complete belongs to a user whose profile is, and a form asks for all they lack.
GateHonest ==
  user # NoUser =>
    /\ (overlay = "none" /\ decision = "complete") => profile[user] = Fields
    /\ (overlay = "form" /\ decision = "ask") => Fields \ profile[user] \subseteq missing

\* The page scrolls exactly when nothing covers it, whatever the order of answers.
ScrollFree ==
  /\ (body.overflow = "hidden") = (overlay # "none")
  /\ (body.saved = "null") = (overlay = "none")
  /\ body.saved # "hidden"

\* The loading cover, which has no button, always goes away.
LoadingEnds == overlay = "loading" ~> overlay # "loading"

=============================================================================
