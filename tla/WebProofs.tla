-------------------------------- MODULE WebProofs --------------------------------
(***************************************************************************)
(* The scripts of the web pages and the push client, for any users, any    *)
(* number of changes of the user and of requests in flight.                *)
(*                                                                         *)
(* All of them hear of the user from the same session, so they share the   *)
(* lemmas of the first section.  Every script has an invariant of its own, *)
(* one lemma per action that keeps it, and WebInv puts them together.      *)
(***************************************************************************)
EXTENDS WebPages, DevicePush, FiniteSetTheorems, SequenceTheorems, TLAPS

---------------------------------------------------------------------------
(* The session                                                             *)

\* Until the SDK has loaded nobody is signed in; each callback but the first is for a
\* change of the user, so callbacks are bounded as the changes are.
SessionInv ==
  /\ SessionTypeOK
  /\ sdk # "loaded" => current = NoUser /\ session = 0
  /\ session = 0 => user = NoUser
  /\ session + (IF user = current THEN 0 ELSE 1) <= changes + 1

LEMMA SessionStart == SessionInit => SessionInv
  BY SessionAssumption DEF SessionInit, SessionInv, SessionTypeOK, MaybeUser

\* Steps elsewhere show the page nothing.
LEMMA ElsewhereStep ==
  ASSUME SessionInv, Elsewhere
  PROVE  SessionInv' /\ UNCHANGED <<user, session>>
  <1>1. CASE Load
    BY <1>1, SessionAssumption DEF Load, SessionInv, SessionTypeOK, MaybeUser
  <1>2. CASE LoadFails
    BY <1>2, SessionAssumption DEF LoadFails, SessionInv, SessionTypeOK, MaybeUser
  <1>3. CASE \E u \in MaybeUser : Change(u)
    BY <1>3, SessionAssumption DEF Change, SessionInv, SessionTypeOK, MaybeUser
  <1> QED BY <1>1, <1>2, <1>3 DEF Elsewhere, SignIn, SignOut, MaybeUser

\* What a callback leaves: the page knows the SDK's user, under a number of its own.
LEMMA DeliverStep ==
  ASSUME SessionInv, Deliver
  PROVE  /\ SessionInv'
         /\ session \in Nat /\ session' = session + 1 /\ session' \in 1 .. MaxChanges + 1
         /\ user \in MaybeUser /\ user' = current /\ user' \in MaybeUser
         /\ session = 0 => user = NoUser
         /\ user' = user => user = NoUser
  BY SessionAssumption DEF Deliver, SessionInv, SessionTypeOK, MaybeUser

LEMMA SessionKept == ASSUME SessionInv, UNCHANGED sessionVars PROVE SessionInv'
  BY DEF SessionInv, SessionTypeOK, sessionVars

\* What a script may use of the session at any time.
LEMMA SessionFacts ==
  ASSUME SessionInv
  PROVE  /\ session \in Nat /\ session <= MaxChanges + 1 /\ MaxChanges \in Nat
         /\ user \in MaybeUser /\ Token \in MaybeUser
         /\ user # NoUser => session > 0
  BY SessionAssumption DEF SessionInv, SessionTypeOK, Token, MaybeUser

---------------------------------------------------------------------------
(* The completion gate                                                     *)

\* What was read of a profile, or saved to it, is still there: profiles only grow.
Truthful(q) ==
  q.got \in {Sent, Failed} \/ (q.by \in Users /\ \E read \in SUBSET profile[q.by] : q.got = Ok(read))

\* A check was sent in the callback it is numbered after, for the user of that callback.
CheckOK(c) ==
  /\ c \in Checks /\ Truthful(c)
  /\ c.session <= session
  /\ c.session = session => c.by = user /\ user # NoUser

SaveOK ==
  busy =>
    /\ save \in Saves /\ Truthful(save)
    /\ save.session <= session
    /\ save.got # Sent /\ save.got # Failed => save.patch \subseteq profile[save.by]

\* What a submit of this session would be merged with is of this user.
BaseOwn ==
  (decision # "foreign" /\ (overlay = "form" \/ (busy /\ save.session = session))) =>
    user \in Users /\ lastProfile \subseteq profile[user]

\* The overlay, and the page under it.
OverlayOK ==
  /\ overlay \in {"none", "loading", "form"}
  /\ missing \subseteq Fields
  /\ body \in [overflow : {"page", "hidden"}, saved : {"null", "page", "hidden"}]
  /\ ScrollFree
  /\ overlay # "none" => session > 0

GateInv ==
  /\ profile \in [Users -> SUBSET Fields]
  /\ lastProfile \subseteq Fields
  /\ decision \in {"none", "ask", "complete", "open", "foreign"}
  /\ wasSignedIn = (user # NoUser)
  /\ \A c \in checks : CheckOK(c)
  /\ OverlayOK /\ SaveOK /\ BaseOwn /\ GateHonest

LEMMA GateIdle == GateInit => GateTypeOK /\ GateHonest /\ ScrollFree
  <1> SUFFICES ASSUME GateInit PROVE GateTypeOK /\ GateHonest /\ ScrollFree
    OBVIOUS
  <1>1. body = [overflow |-> "page", saved |-> "null"] /\ overlay = "none" BY DEF GateInit
  <1>2. ScrollFree BY <1>1 DEF ScrollFree
  <1>3. body \in [overflow : {"page", "hidden"}, saved : {"null", "page", "hidden"}] BY <1>1
  <1>4. GateTypeOK BY <1>3 DEF GateInit, GateTypeOK
  <1>5. GateHonest BY DEF GateInit, GateHonest
  <1> QED BY <1>2, <1>4, <1>5

LEMMA GateStart == SessionInit /\ GateInit => GateInv
  <1> SUFFICES ASSUME SessionInit, GateInit PROVE GateInv
    OBVIOUS
  <1>1. OverlayOK BY DEF GateInit, OverlayOK, ScrollFree
  <1>2. SaveOK /\ BaseOwn /\ GateHonest BY DEF GateInit, SaveOK, BaseOwn, GateHonest, busy
  <1> QED BY <1>1, <1>2 DEF GateInit, SessionInit, GateInv

LEMMA GateInvFacts == GateInv => GateTypeOK /\ GateHonest /\ ScrollFree
  BY DEF GateInv, GateTypeOK, OverlayOK, CheckOK, SaveOK, busy

LEMMA GateUnmount ==
  ASSUME OverlayOK, Unmount
  PROVE  OverlayOK' /\ overlay' = "none"
  BY DEF OverlayOK, ScrollFree, Unmount, Unmounted, Unlock

LEMMA GateShowForm ==
  ASSUME OverlayOK, session > 0, UNCHANGED session, NEW fields \in SUBSET Fields, ShowForm(fields)
  PROVE  OverlayOK' /\ overlay' = "form" /\ missing' = fields
  BY DEF OverlayOK, ScrollFree, ShowForm, Unmounted, Unlock, Lock

LEMMA GateShowLoading ==
  ASSUME OverlayOK, session' > 0, ShowLoading
  PROVE  OverlayOK' /\ (overlay = "none" => overlay' = "loading")
  BY DEF OverlayOK, ScrollFree, ShowLoading, Lock

\* What a profile that was read makes of the page: when it is one of the present user's
\* in this session, the page is honest, and when it is not, the decision says so.
LEMMA GateReflect ==
  ASSUME GateInv, SessionInv, UNCHANGED <<profile, user, session>>,
         NEW p \in SUBSET Fields, NEW request,
         Reflect(p, request), session > 0,
         (request.session = session /\ request.by = user /\ decision # "foreign") =>
            user \in Users /\ p \subseteq profile[user]
  PROVE  /\ OverlayOK' /\ GateHonest' /\ decision' \in {"ask", "complete", "foreign"}
         /\ decision' # "foreign" =>
              /\ decision # "foreign" /\ request.session = session /\ request.by = user
              /\ user \in Users /\ p \subseteq profile[user]
  <1>1. CASE Fields \subseteq p /\ Unmount /\ Decide(request, "complete")
    <2>1. OverlayOK' /\ overlay' = "none" BY <1>1, GateUnmount DEF GateInv
    <2> QED BY <1>1, <2>1 DEF Decide, GateHonest, GateInv
  <1>2. CASE ShowForm(Fields \ p) /\ Decide(request, "ask")
    <2>1. OverlayOK' /\ overlay' = "form" /\ missing' = Fields \ p
      BY <1>2, GateShowForm DEF GateInv
    <2> QED BY <1>2, <2>1 DEF Decide, GateHonest, GateInv
  <1> QED BY <1>1, <1>2 DEF Reflect

\* An answer that is neither awaited nor an error says what is in the profile.
LEMMA ReadFields ==
  ASSUME NEW q, Truthful(q), q.got # Sent, q.got # Failed
  PROVE  q.by \in Users /\ q.got.fields \subseteq profile[q.by]
  <1>1. PICK read \in SUBSET profile[q.by] : q.by \in Users /\ q.got = Ok(read)
    BY DEF Truthful
  <1>2. q.got.fields = read BY <1>1 DEF Ok
  <1> QED BY <1>1, <1>2

LEMMA Grown ==
  ASSUME NEW q, Truthful(q), profile \in [Users -> SUBSET Fields],
         \A u \in Users : profile[u] \subseteq profile'[u]
  PROVE  Truthful(q)'
  BY DEF Truthful

\* A check applies to the present user when it was sent in this session.
LEMMA GateOnAuthStep == ASSUME GateInv, SessionInv, Deliver, GateOnAuth PROVE GateInv'
  <1>0. /\ session \in Nat /\ session' = session + 1 /\ session' \in 1 .. MaxChanges + 1
        /\ user \in MaybeUser /\ user' = current /\ user' \in MaybeUser
        /\ user' = user => user = NoUser
    BY DeliverStep
  <1>1. profile' = profile /\ lastProfile' = lastProfile /\ save' = save BY DEF GateOnAuth
  <1>2. OverlayOK'
    <2>1. CASE ShowLoading BY <1>0, <2>1, GateShowLoading DEF GateInv
    <2>2. CASE Unmount BY <1>0, <2>2, GateUnmount DEF GateInv
    <2>3. CASE UNCHANGED <<overlay, missing, body>>
      BY <1>0, <2>3 DEF GateInv, OverlayOK, ScrollFree
    <2> QED BY <2>1, <2>2, <2>3 DEF GateOnAuth
  <1>3. \A c \in checks' : CheckOK(c)'
    <2> SUFFICES ASSUME NEW c \in checks' PROVE CheckOK(c)'
      OBVIOUS
    <2>1. CASE c \in checks
      <3>1. CheckOK(c) BY <2>1 DEF GateInv
      <3>2. c.session < session' BY <1>0, <3>1 DEF CheckOK, Checks
      <3> QED BY <1>0, <1>1, <3>1, <3>2 DEF CheckOK, Truthful, Checks
    <2>2. CASE user' # NoUser /\ c = [by |-> current, session |-> session', got |-> Sent]
      BY <1>0, <2>2 DEF CheckOK, Truthful, Checks, Answers, Sent
    <2> QED BY <2>1, <2>2 DEF GateOnAuth
  <1>4. SaveOK'
    BY <1>0, <1>1 DEF GateInv, SaveOK, Truthful, Saves, busy
  <1>5. BaseOwn' /\ GateHonest'
    <2>1. ~(busy' /\ save'.session = session')
      BY <1>0, <1>1 DEF GateInv, SaveOK, Saves, busy
    <2>2. CASE decision' = "foreign"
      BY <2>2 DEF BaseOwn, GateHonest
    <2>3. CASE decision' = "none" /\ overlay' # "form"
      BY <2>1, <2>3 DEF BaseOwn, GateHonest
    <2>4. CASE user' = user /\ UNCHANGED <<overlay, decision>>
      BY <1>0, <1>1, <2>1, <2>4, SessionAssumption DEF GateInv, BaseOwn, GateHonest
    <2> QED BY <1>0, <2>2, <2>3, <2>4, GateUnmount DEF GateOnAuth, ShowLoading, GateInv
  <1>6. /\ wasSignedIn' = (user' # NoUser)
        /\ decision' \in {"none", "ask", "complete", "open", "foreign"}
    BY DEF GateInv, GateOnAuth
  <1> QED BY <1>1, <1>2, <1>3, <1>4, <1>5, <1>6 DEF GateInv

LEMMA ServeCheckStep ==
  ASSUME GateInv, SessionInv, UNCHANGED sessionVars, NEW c \in checks, ServeCheck(c)
  PROVE  GateInv'
  <1>1. /\ UNCHANGED <<profile, overlay, missing, lastProfile, wasSignedIn, body, save, decision>>
        /\ UNCHANGED <<user, session>>
    BY DEF ServeCheck, sessionVars
  <1>2. \A q \in checks' : CheckOK(q)'
    <2> SUFFICES ASSUME NEW q \in checks' PROVE CheckOK(q)'
      OBVIOUS
    <2>0. CheckOK(c) BY DEF GateInv
    <2>1. CASE q \in checks
      BY <1>1, <2>1 DEF GateInv, CheckOK, Truthful
    <2>2. CASE q = [c EXCEPT !.got = Failed]
      BY <1>1, <2>0, <2>2 DEF CheckOK, Truthful, Checks, Answers, Failed
    <2>3. CASE c.by \in Users /\ q = [c EXCEPT !.got = Ok(profile[c.by])]
      <3>1. profile[c.by] \in SUBSET Fields BY <2>3 DEF GateInv
      <3>2. q \in Checks /\ q.by = c.by /\ q.session = c.session /\ q.got = Ok(profile[c.by])
        BY <2>0, <2>3, <3>1 DEF CheckOK, Checks, Answers, Ok
      <3> QED BY <1>1, <2>0, <2>3, <3>1, <3>2 DEF CheckOK, Truthful
    <2> QED BY <2>1, <2>2, <2>3 DEF ServeCheck
  <1>3. OverlayOK' /\ SaveOK' /\ BaseOwn' /\ GateHonest'
    BY <1>1 DEF GateInv, OverlayOK, ScrollFree, SaveOK, Truthful, BaseOwn, GateHonest, busy
  <1> QED BY <1>1, <1>2, <1>3 DEF GateInv

LEMMA ApplyCheckStep ==
  ASSUME GateInv, SessionInv, UNCHANGED sessionVars, NEW c \in checks, ApplyCheck(c)
  PROVE  GateInv'
  <1>0. CheckOK(c) /\ session \in Nat /\ session > 0
    BY SessionFacts DEF GateInv, CheckOK, Checks
  <1>1. UNCHANGED <<user, session, profile, wasSignedIn, save>> /\ checks' \subseteq checks
    BY DEF ApplyCheck, sessionVars
  <1>2. (\A q \in checks' : CheckOK(q)') /\ SaveOK'
    BY <1>1 DEF GateInv, CheckOK, SaveOK, Truthful, busy
  <1>3. CASE Unmount /\ Decide(c, "open") /\ UNCHANGED lastProfile
    <2>1. OverlayOK' /\ overlay' = "none" BY <1>3, GateUnmount DEF GateInv
    <2>2. (decision' = "open" /\ decision # "foreign") \/ decision' = "foreign"
      BY <1>3 DEF Decide
    <2>3. BaseOwn' /\ GateHonest'
      BY <1>1, <1>3, <2>1, <2>2 DEF GateInv, BaseOwn, GateHonest, busy
    <2> QED BY <1>1, <1>2, <1>3, <2>1, <2>2, <2>3 DEF GateInv
  <1>4. CASE c.got # Failed /\ Reflect(c.got.fields, c) /\ lastProfile' = c.got.fields
    <2>1. c.by \in Users /\ c.got.fields \subseteq profile[c.by]
      BY <1>0, <1>4, ReadFields DEF CheckOK, ApplyCheck
    <2>2. c.got.fields \in SUBSET Fields BY <2>1 DEF GateInv
    <2>3. /\ OverlayOK' /\ GateHonest' /\ decision' \in {"ask", "complete", "foreign"}
          /\ decision' # "foreign" => user \in Users /\ c.got.fields \subseteq profile[user]
      BY <1>0, <1>1, <1>4, <2>1, <2>2, GateReflect
    <2>4. BaseOwn' BY <1>1, <1>4, <2>3 DEF BaseOwn
    <2> QED BY <1>1, <1>2, <1>4, <2>2, <2>3, <2>4 DEF GateInv
  <1> QED BY <1>3, <1>4 DEF ApplyCheck

LEMMA SubmitStep ==
  ASSUME GateInv, SessionInv, UNCHANGED sessionVars, Submit
  PROVE  GateInv'
  <1>0. /\ session \in 1 .. MaxChanges + 1 /\ Token \in MaybeUser
        /\ UNCHANGED <<user, session>>
        /\ UNCHANGED <<profile, overlay, missing, lastProfile, wasSignedIn, body, checks, decision>>
    BY SessionFacts DEF GateInv, OverlayOK, Submit, sessionVars
  <1>1. PICK patch \in SUBSET missing :
          save' = [by |-> Token, session |-> session, patch |-> patch, got |-> Sent]
    BY DEF Submit
  <1>2. SaveOK'
    <2>1. save' \in Saves BY <1>0, <1>1 DEF Saves, Answers, Sent, GateInv, OverlayOK
    <2> QED BY <1>0, <1>1, <2>1 DEF SaveOK, Truthful
  <1>3. BaseOwn' /\ OverlayOK' /\ GateHonest' /\ \A c \in checks' : CheckOK(c)'
    BY <1>0 DEF GateInv, OverlayOK, ScrollFree, BaseOwn, GateHonest, CheckOK, Truthful, Submit
  <1> QED BY <1>0, <1>2, <1>3 DEF GateInv

LEMMA ServeSaveStep ==
  ASSUME GateInv, SessionInv, UNCHANGED sessionVars, ServeSave
  PROVE  GateInv'
  <1>0. /\ UNCHANGED <<user, session>>
        /\ UNCHANGED <<overlay, missing, lastProfile, wasSignedIn, body, checks, decision>>
        /\ save \in Saves /\ save.session <= session
    BY DEF GateInv, SaveOK, ServeSave, sessionVars
  <1>1. /\ profile' \in [Users -> SUBSET Fields]
        /\ \A u \in Users : profile[u] \subseteq profile'[u]
    BY <1>0 DEF ServeSave, GateInv, Saves
  <1>2. SaveOK'
    <2>1. CASE save' = [save EXCEPT !.got = Failed]
      BY <1>0, <2>1 DEF SaveOK, Saves, Truthful, Answers, Failed
    <2>2. ASSUME save.by # NoUser,
                 profile' = [profile EXCEPT ![save.by] = @ \cup save.patch],
                 NEW a \in {Ok(profile'[save.by]), Ok({}), Failed},
                 save' = [save EXCEPT !.got = a]
          PROVE  SaveOK'
      <3>1. save.by \in Users BY <1>0, <2>2 DEF Saves, MaybeUser
      <3>2. save.patch \subseteq profile'[save.by] /\ profile'[save.by] \in SUBSET Fields
        BY <1>1, <2>2, <3>1 DEF GateInv
      <3>3. a \in Answers BY <2>2, <3>2 DEF Answers, Ok, Failed
      <3>4. save' \in Saves /\ save'.by = save.by /\ save'.session = save.session
            /\ save'.patch = save.patch /\ save'.got = a
        BY <1>0, <2>2, <3>3 DEF Saves
      <3>5. Truthful(save)' BY <2>2, <3>1, <3>4 DEF Truthful
      <3> QED BY <1>0, <3>2, <3>4, <3>5 DEF SaveOK
    <2> QED BY <2>1, <2>2 DEF ServeSave
  <1>3. \A c \in checks' : CheckOK(c)'
    BY <1>0, <1>1, Grown DEF GateInv, CheckOK
  <1>4. OverlayOK' /\ GateHonest'
    <2>1. user # NoUser => user \in Users BY SessionFacts DEF MaybeUser
    <2> QED BY <1>0, <1>1, <2>1 DEF GateInv, OverlayOK, ScrollFree, GateHonest
  <1>5. BaseOwn'
    <2>1. busy /\ save'.session = save.session BY <1>0 DEF ServeSave, Saves
    <2> QED BY <1>0, <1>1, <2>1 DEF GateInv, BaseOwn
  <1> QED BY <1>0, <1>1, <1>2, <1>3, <1>4, <1>5 DEF GateInv

LEMMA ApplySaveStep ==
  ASSUME GateInv, SessionInv, UNCHANGED sessionVars, ApplySave
  PROVE  GateInv'
  <1>0. /\ UNCHANGED <<user, session, profile, lastProfile, wasSignedIn, checks>>
        /\ save' = Idle /\ save \in Saves /\ Truthful(save) /\ save.session <= session
        /\ session > 0
    BY SessionFacts DEF GateInv, SaveOK, ApplySave, Saves, sessionVars
  <1>1. SaveOK' /\ \A c \in checks' : CheckOK(c)'
    BY <1>0 DEF GateInv, SaveOK, CheckOK, Truthful, busy
  <1>2. CASE UNCHANGED <<overlay, missing, body, decision>>
    BY <1>0, <1>1, <1>2 DEF GateInv, OverlayOK, ScrollFree, BaseOwn, GateHonest, busy
  <1>3. CASE save.got # Failed /\ Reflect(Merged, save)
    <2>1. /\ save.by \in Users /\ save.got.fields \subseteq profile[save.by]
          /\ save.patch \subseteq profile[save.by]
      BY <1>0, <1>3, ReadFields DEF GateInv, SaveOK, ApplySave
    <2>2. Merged \in SUBSET Fields BY <2>1 DEF GateInv, Merged
    <2>3. (save.session = session /\ save.by = user /\ decision # "foreign") =>
             user \in Users /\ Merged \subseteq profile[user]
      BY <2>1 DEF GateInv, BaseOwn, Merged, ApplySave
    <2>4. /\ OverlayOK' /\ GateHonest' /\ decision' \in {"ask", "complete", "foreign"}
          /\ decision' # "foreign" => user \in Users /\ Merged \subseteq profile[user]
      BY <1>0, <1>3, <2>2, <2>3, GateReflect
    <2>5. BaseOwn' BY <1>0, <2>4 DEF BaseOwn, Merged
    <2> QED BY <1>0, <1>1, <2>4, <2>5 DEF GateInv
  <1> QED BY <1>2, <1>3 DEF ApplySave

LEMMA LeaveFormStep ==
  ASSUME GateInv, SessionInv, UNCHANGED sessionVars, LeaveForm
  PROVE  GateInv'
  <1>0. UNCHANGED <<user, session, profile, lastProfile, wasSignedIn, checks, save>>
    BY DEF LeaveForm, sessionVars
  <1>1. OverlayOK' /\ overlay' = "none" BY GateUnmount DEF GateInv, LeaveForm
  <1>2. SaveOK' /\ \A c \in checks' : CheckOK(c)'
    BY <1>0 DEF GateInv, SaveOK, CheckOK, Truthful, busy
  <1>3. BaseOwn' /\ GateHonest' BY <1>0, <1>1 DEF GateInv, BaseOwn, GateHonest, LeaveForm, busy
  <1> QED BY <1>0, <1>1, <1>2, <1>3 DEF GateInv, LeaveForm

LEMMA GateKept == ASSUME GateInv, UNCHANGED <<user, session, gateVars>> PROVE GateInv'
  <1>1. OverlayOK' /\ SaveOK' /\ BaseOwn' /\ GateHonest'
    BY DEF GateInv, OverlayOK, ScrollFree, SaveOK, Truthful, BaseOwn, GateHonest, busy, gateVars
  <1>2. \A c \in checks' : CheckOK(c)' BY DEF GateInv, CheckOK, Truthful, gateVars
  <1> QED BY <1>1, <1>2 DEF GateInv, gateVars

LEMMA GateNextInv == GateInv /\ SessionInv /\ GateNext => GateInv'
  <1> SUFFICES ASSUME GateInv, SessionInv, GateNext PROVE GateInv'
    OBVIOUS
  <1>1. CASE Elsewhere /\ UNCHANGED gateVars BY <1>1, ElsewhereStep, GateKept
  <1>2. CASE Deliver /\ GateOnAuth BY <1>2, GateOnAuthStep
  <1>3. CASE GateStep /\ UNCHANGED sessionVars
    BY <1>3, ServeCheckStep, ApplyCheckStep, SubmitStep, ServeSaveStep, ApplySaveStep, LeaveFormStep
       DEF GateStep
  <1> QED BY <1>1, <1>2, <1>3 DEF GateNext

---------------------------------------------------------------------------
(* The terms gate                                                          *)

\* A version that was read and needs no terms is still accepted, as acceptances are
\* never taken back.
LookupOK(q) ==
  /\ q \in TermsRequests /\ q.session <= session
  /\ (q.got \notin {"sent", "failed"} /\ ~NeedsTerms(q.got)) =>
       q.by \in Users /\ ~NeedsTerms(accepted[q.by])

\* An acceptance the server took stands, echoed or not.
AcceptOK(q) ==
  /\ q \in TermsRequests /\ q.session <= session
  /\ Current \in Versions
  /\ q.got \notin {"sent", "failed"} => q.by \in Users /\ ~NeedsTerms(accepted[q.by])

\* The gate belongs to whoever is signed in, and is needed for a version only.
StateOK(s, in) ==
  /\ s.signedIn = in
  /\ s.needs => Current # ""

TermsInv ==
  /\ TermsTypeOK
  /\ wasIn = (user # NoUser)
  /\ StateOK(st, wasIn)
  /\ \A q \in lookups : LookupOK(q)
  /\ \A q \in accepts : AcceptOK(q)
  /\ TermsHonest

LEMMA TermsIdle == TermsInit => TermsTypeOK /\ TermsHonest /\ StateOK(st, FALSE)
  <1> SUFFICES ASSUME TermsInit PROVE TermsTypeOK /\ TermsHonest /\ StateOK(st, FALSE)
    OBVIOUS
  <1>1. st = [signedIn |-> FALSE, needs |-> FALSE, submitting |-> FALSE, error |-> FALSE]
    BY DEF TermsInit, Reset
  <1>2. TermsTypeOK
    <2>1. accepted \in [Users -> MaybeVersion] BY DEF TermsInit
    <2>2. st \in [signedIn : BOOLEAN, needs : BOOLEAN, submitting : BOOLEAN, error : BOOLEAN]
      BY <1>1
    <2>3. wasIn \in BOOLEAN BY DEF TermsInit
    <2>4. lookups \subseteq TermsRequests /\ accepts \subseteq TermsRequests BY DEF TermsInit
    <2>5. ground \in {"none", "read", "accepted", "open", "foreign"} BY DEF TermsInit
    <2> QED BY <2>1, <2>2, <2>3, <2>4, <2>5 DEF TermsTypeOK
  <1>3. TermsHonest BY <1>1 DEF TermsInit, TermsHonest
  <1>4. StateOK(st, FALSE)
    <2>1. st.signedIn = FALSE /\ st.needs = FALSE BY <1>1
    <2> QED BY <2>1 DEF StateOK
  <1> QED BY <1>2, <1>3, <1>4

LEMMA TermsStart == SessionInit /\ TermsInit => TermsInv
  BY TermsIdle DEF SessionInit, TermsInit, TermsInv

\* Acceptances that stand go on standing.
LEMMA TermsStand ==
  ASSUME \A u \in Users : ~NeedsTerms(accepted[u]) => ~NeedsTerms(accepted'[u]),
         session <= session', session \in Nat, session' \in Nat
  PROVE  /\ \A q : LookupOK(q) => LookupOK(q)'
         /\ \A q : AcceptOK(q) => AcceptOK(q)'
  <1>1. ASSUME NEW q, q \in TermsRequests, q.session <= session PROVE q.session <= session'
    BY <1>1 DEF TermsRequests
  <1> QED BY <1>1 DEF LookupOK, AcceptOK, NeedsTerms

LEMMA TermsOnAuthStep == ASSUME TermsInv, SessionInv, Deliver, TermsOnAuth PROVE TermsInv'
  <1>0. /\ session \in Nat /\ session' = session + 1 /\ session' \in 1 .. MaxChanges + 1
        /\ user' = current /\ user' \in MaybeUser
    BY DeliverStep
  <1>1. UNCHANGED <<accepted, accepts>> BY DEF TermsOnAuth
  <1>2. \A q \in lookups' : LookupOK(q)'
    <2> SUFFICES ASSUME NEW q \in lookups' PROVE LookupOK(q)'
      OBVIOUS
    <2>1. CASE q \in lookups BY <1>0, <1>1, <2>1, TermsStand DEF TermsInv
    <2>2. CASE q = [by |-> current, session |-> session', got |-> "sent"]
      BY <1>0, <2>2 DEF LookupOK, TermsRequests
    <2> QED BY <2>1, <2>2 DEF TermsOnAuth
  <1>3. \A q \in accepts' : AcceptOK(q)' BY <1>0, <1>1, TermsStand DEF TermsInv
  <1>4. CASE wasIn /\ wasIn' /\ ground' = (IF user' = user THEN ground ELSE "foreign")
             /\ UNCHANGED <<st, lookups>>
    <2>1. TermsHonest' BY <1>1, <1>4 DEF TermsInv, TermsHonest
    <2> QED BY <1>0, <1>1, <1>2, <1>3, <1>4, <2>1 DEF TermsInv, TermsTypeOK, TermsOnAuth
  <1>5. CASE st' = [Reset EXCEPT !.signedIn = wasIn'] /\ ground' = "none"
    <2>1. wasIn' \in BOOLEAN /\ wasIn' = (user' # NoUser) BY DEF TermsOnAuth
    <2>2. st' = [signedIn |-> wasIn', needs |-> FALSE, submitting |-> FALSE, error |-> FALSE]
      BY <1>5 DEF Reset
    <2>3. TermsHonest' BY <1>5, <2>2 DEF TermsHonest
    <2>4. lookups' \subseteq TermsRequests BY <1>2 DEF LookupOK
    <2>5. st' \in [signedIn : BOOLEAN, needs : BOOLEAN, submitting : BOOLEAN, error : BOOLEAN]
      BY <2>1, <2>2
    <2>6. TermsTypeOK' BY <1>1, <1>5, <2>1, <2>4, <2>5 DEF TermsInv, TermsTypeOK
    <2>7. StateOK(st, wasIn)' BY <2>2 DEF StateOK
    <2> QED BY <1>2, <1>3, <2>1, <2>3, <2>6, <2>7 DEF TermsInv
  <1> QED BY <1>4, <1>5 DEF TermsOnAuth

\* A step of the gate within a session, from what it does to the requests.
LEMMA TermsFrame ==
  ASSUME TermsInv, SessionInv, UNCHANGED <<user, session, wasIn>>,
         accepted' \in [Users -> MaybeVersion],
         ground' \in {"none", "read", "accepted", "open", "foreign"},
         st' \in [signedIn : BOOLEAN, needs : BOOLEAN, submitting : BOOLEAN, error : BOOLEAN],
         StateOK(st', wasIn),
         \A q \in lookups' : LookupOK(q)', \A q \in accepts' : AcceptOK(q)',
         TermsHonest'
  PROVE  TermsInv'
  BY DEF TermsInv, TermsTypeOK, LookupOK, AcceptOK

LEMMA ServeLookupStep ==
  ASSUME TermsInv, SessionInv, UNCHANGED sessionVars, NEW q \in lookups, ServeLookup(q)
  PROVE  TermsInv'
  <1>0. UNCHANGED <<user, session, wasIn, accepted, st, accepts, ground>>
    BY DEF ServeLookup, sessionVars
  <1>1. session \in Nat BY SessionFacts
  <1>2. LookupOK(q) BY DEF TermsInv
  <1>3. \A r \in lookups' : LookupOK(r)'
    <2> SUFFICES ASSUME NEW r \in lookups' PROVE LookupOK(r)'
      OBVIOUS
    <2>1. CASE r \in lookups BY <1>0, <1>1, <2>1, TermsStand DEF TermsInv
    <2>2. CASE r = [q EXCEPT !.got = "failed"]
      BY <1>0, <1>2, <2>2 DEF LookupOK, TermsRequests
    <2>3. CASE q.by \in Users /\ r = [q EXCEPT !.got = accepted[q.by]]
      <3>1. accepted[q.by] \in MaybeVersion BY <2>3 DEF TermsInv, TermsTypeOK
      <3> QED BY <1>0, <1>2, <2>3, <3>1 DEF LookupOK, TermsRequests, NeedsTerms
    <2> QED BY <2>1, <2>2, <2>3 DEF ServeLookup
  <1>4. \A r \in accepts' : AcceptOK(r)' BY <1>0, <1>1, TermsStand DEF TermsInv
  <1>5. TermsHonest' BY <1>0 DEF TermsInv, TermsHonest, NeedsTerms
  <1> QED BY <1>0, <1>3, <1>4, <1>5, TermsFrame DEF TermsInv, TermsTypeOK

LEMMA ApplyLookupStep ==
  ASSUME TermsInv, SessionInv, UNCHANGED sessionVars, NEW q \in lookups, ApplyLookup(q)
  PROVE  TermsInv'
  <1>0. UNCHANGED <<user, session, wasIn, accepted, accepts>> /\ lookups' \subseteq lookups
    BY DEF ApplyLookup, sessionVars
  <1>1. session \in Nat BY SessionFacts
  <1>2. LookupOK(q) BY DEF TermsInv
  <1>3. (\A r \in lookups' : LookupOK(r)') /\ \A r \in accepts' : AcceptOK(r)'
    BY <1>0, <1>1, TermsStand DEF TermsInv
  <1>4. /\ st' \in [signedIn : BOOLEAN, needs : BOOLEAN, submitting : BOOLEAN, error : BOOLEAN]
        /\ st'.signedIn = st.signedIn /\ st'.submitting = st.submitting
        /\ st'.needs = (q.got # "failed" /\ NeedsTerms(q.got))
        /\ StateOK(st', wasIn)
    BY DEF TermsInv, TermsTypeOK, ApplyLookup, NeedsTerms, StateOK
  <1>5. \/ ground' = (IF q.got = "failed" THEN "open" ELSE "read") /\ q.by = user
        \/ ground' = "foreign"
    BY DEF ApplyLookup, Judge
  <1>6. TermsHonest'
    BY <1>0, <1>2, <1>4, <1>5 DEF TermsInv, TermsHonest, LookupOK, ApplyLookup, NeedsTerms
  <1> QED BY <1>0, <1>3, <1>4, <1>5, <1>6, TermsFrame DEF TermsInv, TermsTypeOK

LEMMA AcceptStep ==
  ASSUME TermsInv, SessionInv, UNCHANGED sessionVars, Accept
  PROVE  TermsInv'
  <1>0. UNCHANGED <<user, session, wasIn, accepted, lookups, ground>> BY DEF Accept, sessionVars
  <1>1. /\ session \in 1 .. MaxChanges + 1 /\ Token \in MaybeUser
        /\ session \in Nat /\ Current \in Versions
    <2>1. user # NoUser /\ Current # "" BY DEF TermsInv, StateOK, Accept, GateShown
    <2>2. Current \in Versions BY <2>1, TermsAssumption
    <2>3. session > 0 /\ session \in Nat /\ session <= MaxChanges + 1 /\ MaxChanges \in Nat
      BY <2>1, SessionFacts
    <2> QED BY <2>2, <2>3, SessionFacts
  <1>2. /\ st' \in [signedIn : BOOLEAN, needs : BOOLEAN, submitting : BOOLEAN, error : BOOLEAN]
        /\ st'.signedIn = st.signedIn /\ st'.needs = st.needs
        /\ StateOK(st', wasIn)
    BY DEF TermsInv, TermsTypeOK, Accept, StateOK
  <1>3. \A r \in lookups' : LookupOK(r)'
    BY <1>0, <1>1, TermsStand DEF TermsInv
  <1>4. \A r \in accepts' : AcceptOK(r)'
    <2> SUFFICES ASSUME NEW r \in accepts' PROVE AcceptOK(r)'
      OBVIOUS
    <2>1. CASE r \in accepts BY <1>0, <1>1, <2>1, TermsStand DEF TermsInv
    <2>2. CASE r = [by |-> Token, session |-> session, got |-> "sent"]
      BY <1>0, <1>1, <2>2 DEF AcceptOK, TermsRequests
    <2> QED BY <2>1, <2>2 DEF Accept
  <1>5. TermsHonest' BY <1>0, <1>2 DEF TermsInv, TermsHonest, Accept, NeedsTerms
  <1> QED BY <1>0, <1>2, <1>3, <1>4, <1>5, TermsFrame DEF TermsInv, TermsTypeOK

LEMMA ServeAcceptStep ==
  ASSUME TermsInv, SessionInv, UNCHANGED sessionVars, NEW q \in accepts, ServeAccept(q)
  PROVE  TermsInv'
  <1>0. UNCHANGED <<user, session, wasIn, lookups, st, ground>> BY DEF ServeAccept, sessionVars
  <1>1. session \in Nat /\ user \in MaybeUser BY SessionFacts
  <1>2. AcceptOK(q) /\ q.by \in MaybeUser BY DEF TermsInv, AcceptOK, TermsRequests
  <1>3. CASE accepts' = (accepts \ {q}) \cup {[q EXCEPT !.got = "failed"]} /\ UNCHANGED accepted
    <2>1. AcceptOK([q EXCEPT !.got = "failed"])'
      BY <1>0, <1>2, <1>3 DEF AcceptOK, TermsRequests
    <2>2. (\A r \in lookups' : LookupOK(r)') /\ \A r \in accepts' : AcceptOK(r)'
      BY <1>0, <1>1, <1>3, <2>1, TermsStand DEF TermsInv
    <2>3. TermsHonest' BY <1>0, <1>3 DEF TermsInv, TermsHonest, NeedsTerms
    <2> QED BY <1>0, <1>3, <2>2, <2>3, TermsFrame DEF TermsInv, TermsTypeOK
  <1>4. ASSUME q.by # NoUser, accepted' = [accepted EXCEPT ![q.by] = Current],
               NEW a \in {Current, "empty", "failed"},
               accepts' = (accepts \ {q}) \cup {[q EXCEPT !.got = a]}
        PROVE  TermsInv'
    <2>0. q.by \in Users /\ Current \in Versions BY <1>2, <1>4 DEF MaybeUser, AcceptOK
    <2>1. /\ accepted' \in [Users -> MaybeVersion]
          /\ \A u \in Users : ~NeedsTerms(accepted[u]) => ~NeedsTerms(accepted'[u])
          /\ ~NeedsTerms(accepted'[q.by])
      BY <1>4, <2>0 DEF NeedsTerms, TermsInv, TermsTypeOK, MaybeVersion
    <2>2. \A r \in lookups' : LookupOK(r)' BY <1>0, <1>1, <2>1, TermsStand DEF TermsInv
    <2>3. \A r \in accepts' : AcceptOK(r)'
      <3> SUFFICES ASSUME NEW r \in accepts' PROVE AcceptOK(r)'
        OBVIOUS
      <3>1. CASE r \in accepts BY <1>0, <1>1, <2>1, <3>1, TermsStand DEF TermsInv
      <3>2. CASE r = [q EXCEPT !.got = a]
        BY <1>0, <1>2, <2>0, <2>1, <3>2 DEF AcceptOK, TermsRequests, MaybeVersion
      <3> QED BY <1>4, <3>1, <3>2
    <2>4. TermsHonest'
      <3>1. accepts' # {} BY <1>4
      <3>2. st.signedIn => user \in Users BY <1>1 DEF TermsInv, StateOK, MaybeUser
      <3> QED BY <1>0, <2>1, <3>1, <3>2 DEF TermsInv, TermsHonest
    <2> QED BY <1>0, <2>1, <2>2, <2>3, <2>4, TermsFrame DEF TermsInv, TermsTypeOK
  <1> QED BY <1>3, <1>4 DEF ServeAccept

LEMMA ApplyAcceptStep ==
  ASSUME TermsInv, SessionInv, UNCHANGED sessionVars, NEW q \in accepts, ApplyAccept(q)
  PROVE  TermsInv'
  <1>0. UNCHANGED <<user, session, wasIn, accepted, lookups>> /\ accepts' \subseteq accepts
    BY DEF ApplyAccept, sessionVars
  <1>1. session \in Nat BY SessionFacts
  <1>2. AcceptOK(q) BY DEF TermsInv
  <1>3. (\A r \in lookups' : LookupOK(r)') /\ \A r \in accepts' : AcceptOK(r)'
    BY <1>0, <1>1, TermsStand DEF TermsInv
  <1>4. CASE /\ q.got = "failed" /\ UNCHANGED ground
             /\ st' = [st EXCEPT !.submitting = FALSE, !.error = TRUE]
    <2>1. /\ st' \in [signedIn : BOOLEAN, needs : BOOLEAN, submitting : BOOLEAN, error : BOOLEAN]
          /\ st'.signedIn = st.signedIn /\ st'.needs = st.needs /\ st'.submitting = FALSE
          /\ StateOK(st', wasIn)
      BY <1>4 DEF TermsInv, TermsTypeOK, StateOK
    <2>2. TermsHonest' BY <1>0, <1>4, <2>1 DEF TermsInv, TermsHonest
    <2> QED BY <1>0, <1>3, <1>4, <2>1, <2>2, TermsFrame DEF TermsInv, TermsTypeOK
  <1>5. CASE /\ q.got # "failed" /\ Judge(q, "accepted")
             /\ st' = [st EXCEPT !.submitting = FALSE, !.error = FALSE,
                                 !.needs = q.got # "empty" /\ NeedsTerms(q.got)]
    <2>1. /\ st' \in [signedIn : BOOLEAN, needs : BOOLEAN, submitting : BOOLEAN, error : BOOLEAN]
          /\ st'.signedIn = st.signedIn /\ st'.submitting = FALSE
          /\ st'.needs = (q.got # "empty" /\ NeedsTerms(q.got))
          /\ StateOK(st', wasIn)
      BY <1>5 DEF TermsInv, TermsTypeOK, NeedsTerms, StateOK
    <2>2. (ground' = "accepted" /\ q.by = user) \/ ground' = "foreign" BY <1>5 DEF Judge
    <2>3. ~NeedsTerms(accepted[q.by]) BY <1>2, <1>5 DEF AcceptOK, ApplyAccept
    <2>4. TermsHonest' BY <1>0, <2>1, <2>2, <2>3 DEF TermsHonest, NeedsTerms
    <2> QED BY <1>0, <1>3, <2>1, <2>2, <2>4, TermsFrame DEF TermsInv, TermsTypeOK
  <1> QED BY <1>4, <1>5 DEF ApplyAccept

LEMMA TermsKept == ASSUME TermsInv, SessionInv, UNCHANGED <<user, session, termsVars>> PROVE TermsInv'
  <1>1. session \in Nat BY SessionFacts
  <1>2. (\A r \in lookups' : LookupOK(r)') /\ \A r \in accepts' : AcceptOK(r)'
    BY <1>1, TermsStand DEF TermsInv, termsVars
  <1>3. TermsHonest' BY DEF TermsInv, TermsHonest, NeedsTerms, termsVars
  <1> QED BY <1>2, <1>3, TermsFrame DEF TermsInv, TermsTypeOK, termsVars

LEMMA TermsNextInv == TermsInv /\ SessionInv /\ TermsNext => TermsInv'
  <1> SUFFICES ASSUME TermsInv, SessionInv, TermsNext PROVE TermsInv'
    OBVIOUS
  <1>1. CASE Elsewhere /\ UNCHANGED termsVars BY <1>1, ElsewhereStep, TermsKept
  <1>2. CASE Deliver /\ TermsOnAuth BY <1>2, TermsOnAuthStep
  <1>3. CASE TermsStep /\ UNCHANGED sessionVars
    BY <1>3, ServeLookupStep, ApplyLookupStep, AcceptStep, ServeAcceptStep, ApplyAcceptStep
       DEF TermsStep
  <1> QED BY <1>1, <1>2, <1>3 DEF TermsNext

---------------------------------------------------------------------------
(* The verification banner                                                 *)

BannerInv == BannerTypeOK /\ ResendUsable /\ (~hidden => session > 0)

LEMMA CooldownFacts ==
  /\ 0 \in Cooldowns /\ Cooldowns \subseteq Nat
  /\ Waits \subseteq Cooldowns
  /\ \A n \in Cooldowns : n > 0 => n - 1 \in Cooldowns
  BY BannerAssumption DEF Cooldowns, Waits

\* Every answer either hides the banner, starts a cooldown the server may ask for, or
\* does neither.
LEMMA OutcomeFacts ==
  ASSUME NEW by, NEW o \in Outcomes(by)
  PROVE  o.hide \in BOOLEAN /\ (o.wait = 0 \/ o.wait \in Waits)
  <1>1. \/ o = Outcome(0, FALSE) \/ o = Outcome(0, TRUE) \/ o = Outcome(DefaultCooldown, FALSE)
        \/ o \in Throttled
    BY DEF Outcomes, Retryable
  <1>2. ASSUME NEW n \in Waits \cup {0}, NEW hide \in BOOLEAN, o = Outcome(n, hide)
        PROVE  o.hide \in BOOLEAN /\ (o.wait = 0 \/ o.wait \in Waits)
    <2>1. o.hide = hide /\ o.wait = n BY <1>2 DEF Outcome
    <2> QED BY <2>1
  <1>3. /\ DefaultCooldown \in Waits
        /\ \A s \in RetryAfters, d \in {DefaultCooldown, OutageCooldown} :
              WaitFor(s, d) \in Waits
    BY DEF Waits, WaitFor
  <1>4. ASSUME o \in Throttled PROVE o.hide \in BOOLEAN /\ (o.wait = 0 \/ o.wait \in Waits)
    <2>1. PICK s \in RetryAfters, d \in {DefaultCooldown, OutageCooldown} :
            o = Outcome(WaitFor(s, d), FALSE)
      BY <1>4 DEF Throttled, Outcome
    <2> QED BY <1>2, <1>3, <2>1
  <1> QED BY <1>1, <1>2, <1>3, <1>4

\* The part of the state the resend button and its cooldown are about.
ButtonOK ==
  /\ resendDisabled \in BOOLEAN /\ interval \in BOOLEAN /\ cooldown \in Cooldowns
  /\ ResendUsable

\* Without a cooldown the button is free; with one the interval runs.
LEMMA ButtonFree ==
  ASSUME cooldown' = 0, interval' = FALSE, resendDisabled' = FALSE
  PROVE  ButtonOK'
  <1>1. cooldown' \in Cooldowns /\ ~(cooldown' > 0) BY CooldownFacts
  <1> QED BY <1>1 DEF ButtonOK, ResendUsable

LEMMA ButtonCounts ==
  ASSUME NEW n \in Cooldowns, cooldown' = n, interval' = (n > 0), resendDisabled' = (n > 0)
  PROVE  ButtonOK'
  <1>1. CASE n > 0
    <2>1. cooldown' > 0 /\ interval' = TRUE /\ resendDisabled' = TRUE BY <1>1
    <2> QED BY <2>1 DEF ButtonOK, ResendUsable
  <1>2. CASE ~(n > 0)
    <2>1. n = 0 /\ (n > 0) = FALSE BY <1>2, CooldownFacts
    <2> QED BY <2>1, ButtonFree
  <1> QED BY <1>1, <1>2

LEMMA RenderStep ==
  ASSUME ButtonOK, NEW u, NEW flags, Render(u, flags), resends \subseteq resends'
  PROVE  ButtonOK' /\ hidden' \in BOOLEAN /\ (~hidden' => u # NoUser)
  <1>1. hidden' \in BOOLEAN /\ (~hidden' => u # NoUser) BY DEF Render, Shown
  <1>2. CASE cooldown' = 0 /\ interval' = FALSE /\ resendDisabled' = FALSE
    BY <1>1, <1>2, ButtonFree
  <1>3. CASE UNCHANGED <<cooldown, interval, resendDisabled>>
    <2>1. resends # {} => resends' # {} OBVIOUS
    <2> QED BY <1>1, <1>3, <2>1 DEF ButtonOK, ResendUsable
  <1> QED BY <1>1, <1>2, <1>3 DEF Render, ClearCooldown

LEMMA BannerStart == BannerInit => BannerInv
  <1> SUFFICES ASSUME BannerInit PROVE BannerInv
    OBVIOUS
  <1>1. cooldown \in Cooldowns /\ ~(cooldown > 0) BY CooldownFacts DEF BannerInit
  <1>2. ResendUsable BY <1>1 DEF BannerInit, ResendUsable
  <1> QED BY <1>1, <1>2 DEF BannerInit, BannerInv, BannerTypeOK

LEMMA BannerOnAuthStep == ASSUME BannerInv, SessionInv, Deliver, BannerOnAuth PROVE BannerInv'
  <1>0. /\ session' > 0 /\ user' \in MaybeUser BY DeliverStep
  <1>1. seen' \in [Users -> BOOLEAN]
    <2>1. CASE seen' = seen BY <2>1 DEF BannerInv, BannerTypeOK
    <2>2. ASSUME NEW u \in {user'} \ {user, NoUser}, seen' = [seen EXCEPT ![u] = verified[u]]
          PROVE  seen' \in [Users -> BOOLEAN]
      BY <1>0, <2>2 DEF BannerInv, BannerTypeOK, MaybeUser
    <2> QED BY <2>1, <2>2 DEF BannerOnAuth
  <1>2. ButtonOK' /\ hidden' \in BOOLEAN
    BY RenderStep DEF BannerInv, BannerTypeOK, ButtonOK, BannerOnAuth
  <1>3. refreshDisabled' \in BOOLEAN BY DEF BannerOnAuth
  <1> QED BY <1>0, <1>1, <1>2, <1>3 DEF BannerInv, BannerTypeOK, ButtonOK, BannerOnAuth

\* Steps that leave the requests and the button alone.
LEMMA BannerFrame ==
  ASSUME BannerInv, ButtonOK', session' = session, hidden' \in BOOLEAN, ~hidden' => session > 0,
         verified' \in [Users -> BOOLEAN], seen' \in [Users -> BOOLEAN], refreshDisabled' \in BOOLEAN,
         resends' \subseteq [by : MaybeUser, session : 1 .. MaxChanges + 1],
         refreshes' \subseteq [of : MaybeUser, reloaded : BOOLEAN]
  PROVE  BannerInv'
  BY DEF BannerInv, BannerTypeOK, ButtonOK

LEMMA ResendStep ==
  ASSUME BannerInv, SessionInv, UNCHANGED sessionVars, Resend
  PROVE  BannerInv'
  <1>0. session \in 1 .. MaxChanges + 1 /\ Token \in MaybeUser
    BY SessionFacts DEF BannerInv, Resend
  <1>1. resends' \subseteq [by : MaybeUser, session : 1 .. MaxChanges + 1]
    BY <1>0 DEF BannerInv, BannerTypeOK, Resend
  <1>2. ButtonOK' BY DEF BannerInv, BannerTypeOK, ResendUsable, ButtonOK, Resend
  <1> QED BY <1>1, <1>2, BannerFrame DEF BannerInv, BannerTypeOK, Resend, sessionVars

LEMMA ApplyResendStep ==
  ASSUME BannerInv, SessionInv, UNCHANGED sessionVars, NEW q \in resends, ApplyResend(q)
  PROVE  BannerInv'
  <1>0. UNCHANGED <<session, verified, seen, refreshDisabled, refreshes>> /\ resends' \subseteq resends
    BY DEF ApplyResend, sessionVars
  <1>1. PICK o \in Outcomes(q.by) :
          \/ /\ o.hide
             /\ hidden' = TRUE /\ ClearCooldown /\ resendDisabled' = FALSE
          \/ /\ ~o.hide /\ o.wait > 0
             /\ StartCooldown(o.wait) /\ UNCHANGED hidden
          \/ /\ ~o.hide /\ o.wait = 0
             /\ resendDisabled' = (resendDisabled /\ cooldown > 0)
             /\ UNCHANGED <<hidden, cooldown, interval>>
    BY DEF ApplyResend
  <1>2. ButtonOK' /\ (hidden' = TRUE \/ UNCHANGED hidden)
    <2>1. CASE hidden' = TRUE /\ ClearCooldown /\ resendDisabled' = FALSE
      BY <2>1, ButtonFree DEF ClearCooldown
    <2>2. CASE o.wait > 0 /\ StartCooldown(o.wait) /\ UNCHANGED hidden
      <3>1. o.wait \in Cooldowns BY CooldownFacts, OutcomeFacts
      <3> QED BY <2>2, <3>1, ButtonCounts DEF StartCooldown
    <2>3. CASE /\ resendDisabled' = (resendDisabled /\ cooldown > 0)
               /\ UNCHANGED <<hidden, cooldown, interval>>
      BY <2>3 DEF BannerInv, BannerTypeOK, ButtonOK, ResendUsable
    <2> QED BY <1>1, <2>1, <2>2, <2>3
  <1>3. hidden' \in BOOLEAN /\ (~hidden' => session > 0)
    <2>1. hidden \in BOOLEAN /\ (~hidden => session > 0) BY DEF BannerInv, BannerTypeOK
    <2> QED BY <1>2, <2>1
  <1> QED BY <1>0, <1>2, <1>3, BannerFrame DEF BannerInv, BannerTypeOK

LEMMA SyncCooldownStep ==
  ASSUME BannerInv, SessionInv, UNCHANGED sessionVars, SyncCooldown
  PROVE  BannerInv'
  <1>1. cooldown \in Cooldowns /\ cooldown > 0
    BY DEF BannerInv, BannerTypeOK, ResendUsable, SyncCooldown
  <1>2. cooldown - 1 \in Cooldowns BY <1>1, CooldownFacts
  <1>3. ButtonOK' BY <1>2, ButtonCounts DEF SyncCooldown
  <1> QED BY <1>3, BannerFrame DEF BannerInv, BannerTypeOK, SyncCooldown, sessionVars

LEMMA RefreshStep ==
  ASSUME BannerInv, SessionInv, UNCHANGED sessionVars,
         Refresh \/ \E r \in refreshes : Reload(r) \/ EndRefresh(r)
  PROVE  BannerInv'
  <1>0. UNCHANGED <<session, verified, resends>> /\ user \in MaybeUser
        /\ (user # NoUser => session > 0)
    BY SessionFacts DEF Refresh, Reload, EndRefresh, sessionVars
  <1>1. CASE Refresh
    <2>1. refreshes' \subseteq [of : MaybeUser, reloaded : BOOLEAN]
      <3>1. [of |-> user, reloaded |-> FALSE] \in [of : MaybeUser, reloaded : BOOLEAN]
        BY <1>0
      <3> QED BY <1>1, <3>1 DEF Refresh, BannerInv, BannerTypeOK
    <2>2. ButtonOK' BY <1>1 DEF Refresh, BannerInv, BannerTypeOK, ButtonOK, ResendUsable
    <2> QED BY <1>0, <1>1, <2>1, <2>2, BannerFrame DEF Refresh, BannerInv, BannerTypeOK
  <1>2. ASSUME NEW r \in refreshes, Reload(r) PROVE BannerInv'
    <2>1. refreshes' \subseteq [of : MaybeUser, reloaded : BOOLEAN]
      BY <1>2 DEF Reload, BannerInv, BannerTypeOK
    <2>2. seen' \in [Users -> BOOLEAN]
      BY <1>2 DEF Reload, BannerInv, BannerTypeOK, MaybeUser
    <2>3. ButtonOK' BY <1>2 DEF Reload, BannerInv, BannerTypeOK, ButtonOK, ResendUsable
    <2> QED BY <1>0, <1>2, <2>1, <2>2, <2>3, BannerFrame DEF Reload, BannerInv, BannerTypeOK
  <1>3. ASSUME NEW r \in refreshes, EndRefresh(r) PROVE BannerInv'
    <2>1. ButtonOK' /\ hidden' \in BOOLEAN /\ (~hidden' => user # NoUser)
      BY <1>0, <1>3, RenderStep DEF EndRefresh, BannerInv, BannerTypeOK, ButtonOK
    <2> QED BY <1>0, <1>3, <2>1, BannerFrame DEF EndRefresh, BannerInv, BannerTypeOK
  <1> QED BY <1>1, <1>2, <1>3

LEMMA VerifyStep ==
  ASSUME BannerInv, SessionInv, UNCHANGED sessionVars, NEW u \in Users, Verify(u)
  PROVE  BannerInv'
  <1>1. ButtonOK' BY DEF Verify, BannerInv, BannerTypeOK, ButtonOK, ResendUsable
  <1> QED BY <1>1, BannerFrame DEF Verify, BannerInv, BannerTypeOK, sessionVars

LEMMA BannerNextInv == BannerInv /\ SessionInv /\ BannerNext => BannerInv'
  <1> SUFFICES ASSUME BannerInv, SessionInv, BannerNext PROVE BannerInv'
    OBVIOUS
  <1>1. CASE Elsewhere /\ UNCHANGED bannerVars
    BY <1>1, ElsewhereStep DEF BannerInv, BannerTypeOK, ResendUsable, bannerVars
  <1>2. CASE Deliver /\ BannerOnAuth BY <1>2, BannerOnAuthStep
  <1>3. CASE BannerStep /\ UNCHANGED sessionVars
    BY <1>3, ResendStep, ApplyResendStep, SyncCooldownStep, RefreshStep, VerifyStep DEF BannerStep
  <1> QED BY <1>1, <1>2, <1>3 DEF BannerNext

---------------------------------------------------------------------------
(* The profile form                                                        *)

\* While no user replaced another since the load, what differs from the profile last
\* seen was typed by the user who is there.
TypedOwn ==
  (user # NoUser /\ ~formHidden /\ ~mixed) =>
    \A f \in ProfileFields : form[f] # original[f] => author[f] = user

ProfileInv == ProfileTypeOK /\ wasOn = (user # NoUser) /\ TypedOwn /\ OnlyOwnEdits

LEMMA EmptyTyped == Empty \in Profiles /\ Asked \in Answer /\ Refused \in Answer
  BY DEF Empty, Profiles, Values, Answer, Asked, Refused

LEMMA NoSaveTyped ==
  NoSave \in [by : MaybeUser, asked : MaybeUser, sends : SUBSET ProfileFields, patch : Profiles,
              authors : SUBSET MaybeUser, mixed : BOOLEAN, got : Answer]
  BY EmptyTyped DEF NoSave, MaybeUser

LEMMA ProfileIdle == ProfileInit => ProfileTypeOK /\ TypedOwn /\ OnlyOwnEdits
  <1> SUFFICES ASSUME ProfileInit PROVE ProfileTypeOK /\ TypedOwn /\ OnlyOwnEdits
    OBVIOUS
  <1>1. account \in [Users -> Profiles] BY DEF ProfileInit, Profiles, Values
  <1>2. author \in [ProfileFields -> MaybeUser] BY DEF ProfileInit, MaybeUser
  <1>3. edits \in 0 .. MaxEdits BY ProfileAssumption DEF ProfileInit
  <1>4. ProfileTypeOK BY <1>1, <1>2, <1>3, EmptyTyped, NoSaveTyped DEF ProfileInit, ProfileTypeOK
  <1>5. TypedOwn /\ OnlyOwnEdits BY DEF ProfileInit, TypedOwn, OnlyOwnEdits
  <1> QED BY <1>4, <1>5

LEMMA ProfileStart == SessionInit /\ ProfileInit => ProfileInv
  BY ProfileIdle DEF ProfileInit, SessionInit, ProfileInv

\* A profile filled in leaves nothing typed.
LEMMA FillStep ==
  ASSUME NEW p \in Profiles, Fill(p)
  PROVE  /\ original' \in Profiles /\ form' \in Profiles
         /\ author' \in [ProfileFields -> MaybeUser] /\ TypedOwn'
  BY DEF Fill, TypedOwn, MaybeUser

LEMMA ProfileOnAuthStep == ASSUME ProfileInv, SessionInv, Deliver, ProfileOnAuth PROVE ProfileInv'
  <1>0. user' = current /\ user' \in MaybeUser /\ session' \in 1 .. MaxChanges + 1 BY DeliverStep
  <1>1. wasOn' = (user' # NoUser) /\ wasOn' \in BOOLEAN
        /\ UNCHANGED <<account, original, form, author, sending, edits>>
    BY DEF ProfileOnAuth
  <1>2. loads' \subseteq [by : MaybeUser, session : 1 .. MaxChanges + 1]
    BY <1>0 DEF ProfileInv, ProfileTypeOK, ProfileOnAuth
  <1>3. formHidden' \in BOOLEAN /\ mixed' \in BOOLEAN
    BY DEF ProfileInv, ProfileTypeOK, ProfileOnAuth
  <1>4. ProfileTypeOK' BY <1>1, <1>2, <1>3 DEF ProfileInv, ProfileTypeOK
  <1>5. TypedOwn'
    <2>1. CASE formHidden' = TRUE BY <2>1 DEF TypedOwn
    <2>2. CASE /\ mixed' = (mixed \/ (wasOn /\ wasOn' /\ user' # user))
               /\ UNCHANGED formHidden /\ ~(wasOn' /\ ~wasOn)
      BY <1>1, <2>2 DEF ProfileInv, TypedOwn
    <2> QED BY <2>1, <2>2 DEF ProfileOnAuth
  <1>6. OnlyOwnEdits' BY <1>1 DEF ProfileInv, OnlyOwnEdits
  <1> QED BY <1>1, <1>4, <1>5, <1>6 DEF ProfileInv

LEMMA AnswerLoadStep ==
  ASSUME ProfileInv, SessionInv, UNCHANGED sessionVars, NEW q \in loads, AnswerLoad(q)
  PROVE  ProfileInv'
  <1>0. UNCHANGED <<user, account, wasOn, sending, mixed, edits>> /\ loads' \subseteq loads
    BY DEF AnswerLoad, sessionVars
  <1>1. OnlyOwnEdits' BY <1>0 DEF ProfileInv, OnlyOwnEdits
  <1>2. CASE UNCHANGED <<original, form, author, formHidden>>
    BY <1>0, <1>1, <1>2 DEF ProfileInv, ProfileTypeOK, TypedOwn
  <1>3. CASE q.by # NoUser /\ Fill(account[q.by]) /\ formHidden' = FALSE
    <2>1. account[q.by] \in Profiles BY <1>3 DEF ProfileInv, ProfileTypeOK, MaybeUser
    <2> QED BY <1>0, <1>1, <1>3, <2>1, FillStep DEF ProfileInv, ProfileTypeOK
  <1> QED BY <1>2, <1>3 DEF AnswerLoad

LEMMA TypeStep ==
  ASSUME ProfileInv, SessionInv, UNCHANGED sessionVars, NEW f \in ProfileFields, Type(f)
  PROVE  ProfileInv'
  <1>0. UNCHANGED <<user, account, original, formHidden, wasOn, loads, sending, mixed>>
    BY DEF Type, sessionVars
  <1>1. PICK v \in {Typed, Blank} : form' = [form EXCEPT ![f] = v] BY DEF Type
  <1>2. form' \in Profiles BY <1>1 DEF ProfileInv, ProfileTypeOK, Profiles, Values
  <1>3. author' = [author EXCEPT ![f] = user] /\ author' \in [ProfileFields -> MaybeUser]
    BY SessionFacts DEF Type, ProfileInv, ProfileTypeOK
  <1>4. edits' \in 0 .. MaxEdits BY ProfileAssumption DEF Type, ProfileInv, ProfileTypeOK
  <1>5. TypedOwn'
    BY <1>0, <1>1, <1>3 DEF ProfileInv, ProfileTypeOK, Profiles, TypedOwn
  <1>6. OnlyOwnEdits' BY <1>0 DEF ProfileInv, OnlyOwnEdits
  <1> QED BY <1>0, <1>2, <1>3, <1>4, <1>5, <1>6 DEF ProfileInv, ProfileTypeOK

LEMMA SaveStep ==
  ASSUME ProfileInv, SessionInv, UNCHANGED sessionVars, Save
  PROVE  ProfileInv'
  <1>0. UNCHANGED <<user, account, original, form, author, formHidden, wasOn, loads, mixed, edits>>
    BY DEF Save, sessionVars
  <1> DEFINE patch == [f \in ProfileFields |-> IF f \in Changed THEN form[f] ELSE Blank]
             authors == {author[f] : f \in Changed}
  <1>1. sending' = [by |-> Token, asked |-> user, sends |-> Changed, patch |-> patch,
                    authors |-> authors, mixed |-> mixed, got |-> Asked]
    BY DEF Save
  <1>2. patch \in Profiles BY DEF ProfileInv, ProfileTypeOK, Profiles, Values
  <1>3. Changed \subseteq ProfileFields BY DEF Changed
  <1>4. authors \subseteq MaybeUser BY <1>3 DEF ProfileInv, ProfileTypeOK
  <1>5. ~mixed => authors = {user}
    <2>1. ~mixed => \A f \in Changed : author[f] = user
      BY DEF ProfileInv, TypedOwn, Save, FormShown, Changed
    <2>2. Changed # {} BY DEF Save
    <2> QED BY <2>1, <2>2
  <1> HIDE DEF patch, authors
  <1>6. ProfileTypeOK'
    <2>1. sending' \in [by : MaybeUser, asked : MaybeUser, sends : SUBSET ProfileFields,
                        patch : Profiles, authors : SUBSET MaybeUser, mixed : BOOLEAN, got : Answer]
      <3>1. Token \in MaybeUser /\ user \in MaybeUser BY SessionFacts
      <3>2. mixed \in BOOLEAN BY DEF ProfileInv, ProfileTypeOK
      <3> QED BY <1>1, <1>2, <1>3, <1>4, <3>1, <3>2, EmptyTyped
    <2> QED BY <1>0, <2>1 DEF ProfileInv, ProfileTypeOK
  <1>7. OnlyOwnEdits' BY <1>1, <1>5 DEF OnlyOwnEdits
  <1>8. TypedOwn' BY <1>0 DEF ProfileInv, TypedOwn
  <1> QED BY <1>0, <1>6, <1>7, <1>8 DEF ProfileInv

LEMMA ServeEditStep ==
  ASSUME ProfileInv, SessionInv, UNCHANGED sessionVars, ServeEdit
  PROVE  ProfileInv'
  <1>0. UNCHANGED <<user, original, form, author, formHidden, wasOn, loads, mixed, edits>>
    BY DEF ServeEdit, sessionVars
  <1>1. /\ account' \in [Users -> Profiles]
        /\ \E a \in Answer : sending' = [sending EXCEPT !.got = a]
    <2>1. CASE sending' = [sending EXCEPT !.got = Refused] /\ UNCHANGED account
      BY <2>1, EmptyTyped DEF ProfileInv, ProfileTypeOK
    <2>2. CASE /\ sending.by # NoUser
               /\ account' = [account EXCEPT ![sending.by] =
                    [f \in ProfileFields |-> IF f \in sending.sends THEN sending.patch[f] ELSE @[f]]]
               /\ \E a \in {Got(account'[sending.by]), [Asked EXCEPT !.is = "empty"], Refused} :
                    sending' = [sending EXCEPT !.got = a]
      <3>1. sending.by \in Users /\ sending.patch \in Profiles /\ account[sending.by] \in Profiles
        BY <2>2 DEF ProfileInv, ProfileTypeOK, MaybeUser
      <3> DEFINE edited == [f \in ProfileFields |->
                    IF f \in sending.sends THEN sending.patch[f] ELSE account[sending.by][f]]
      <3>2. edited \in Profiles BY <3>1 DEF Profiles
      <3>3. account' = [account EXCEPT ![sending.by] = edited] BY <2>2
      <3> HIDE DEF edited
      <3>4. account' \in [Users -> Profiles] /\ account'[sending.by] = edited
        BY <3>1, <3>2, <3>3 DEF ProfileInv, ProfileTypeOK
      <3>5. /\ Got(edited) \in Answer
            /\ [Asked EXCEPT !.is = "empty"] \in Answer /\ Refused \in Answer
        BY <3>2, EmptyTyped DEF Got, Answer, Asked
      <3> QED BY <2>2, <3>4, <3>5
    <2> QED BY <2>1, <2>2 DEF ServeEdit
  <1>2. PICK a \in Answer : sending' = [sending EXCEPT !.got = a] BY <1>1
  <1>3. ProfileTypeOK' BY <1>0, <1>1, <1>2 DEF ProfileInv, ProfileTypeOK
  <1>4. OnlyOwnEdits'
    BY <1>2 DEF ProfileInv, ProfileTypeOK, OnlyOwnEdits, ServeEdit
  <1>5. TypedOwn' BY <1>0 DEF ProfileInv, TypedOwn
  <1> QED BY <1>0, <1>3, <1>4, <1>5 DEF ProfileInv

LEMMA ApplyEditStep ==
  ASSUME ProfileInv, SessionInv, UNCHANGED sessionVars, ApplyEdit
  PROVE  ProfileInv'
  <1>0. UNCHANGED <<user, account, formHidden, wasOn, loads, mixed, edits>> /\ sending' = NoSave
    BY DEF ApplyEdit, sessionVars
  <1>1. OnlyOwnEdits' BY <1>0 DEF OnlyOwnEdits
  <1>2. /\ original' \in Profiles /\ form' \in Profiles
        /\ author' \in [ProfileFields -> MaybeUser] /\ TypedOwn'
    <2>1. CASE Fill(sending.got.profile)
      <3>1. sending.got.profile \in Profiles BY DEF ProfileInv, ProfileTypeOK, Answer
      <3> QED BY <2>1, <3>1, FillStep
    <2>2. CASE UNCHANGED <<original, form, author>>
      BY <1>0, <2>2 DEF ProfileInv, ProfileTypeOK, TypedOwn
    <2> QED BY <2>1, <2>2 DEF ApplyEdit
  <1> QED BY <1>0, <1>1, <1>2, NoSaveTyped DEF ProfileInv, ProfileTypeOK

LEMMA ProfileNextInv == ProfileInv /\ SessionInv /\ ProfileNext => ProfileInv'
  <1> SUFFICES ASSUME ProfileInv, SessionInv, ProfileNext PROVE ProfileInv'
    OBVIOUS
  <1>1. CASE Elsewhere /\ UNCHANGED profileVars
    BY <1>1, ElsewhereStep DEF ProfileInv, ProfileTypeOK, TypedOwn, OnlyOwnEdits, profileVars
  <1>2. CASE Deliver /\ ProfileOnAuth BY <1>2, ProfileOnAuthStep
  <1>3. CASE ProfileStep /\ UNCHANGED sessionVars
    BY <1>3, AnswerLoadStep, TypeStep, SaveStep, ServeEditStep, ApplyEditStep DEF ProfileStep
  <1> QED BY <1>1, <1>2, <1>3 DEF ProfileNext

---------------------------------------------------------------------------
(* The avatar panel                                                        *)

AvatarInv == AvatarTypeOK /\ AvatarOwn

LEMMA AvatarStart == AvatarInit => AvatarInv
  BY DEF AvatarInit, AvatarInv, AvatarTypeOK, AvatarOwn, Pictures, MaybeUser

LEMMA ShowTyped == ASSUME shown \in Pictures, NEW p \in Pictures, Show(p) PROVE shown' \in Pictures
  BY DEF Show

LEMMA AvatarOnAuthStep == ASSUME AvatarInv, SessionInv, Deliver, AvatarOnAuth PROVE AvatarInv'
  <1>1. avatarLoads' \subseteq MaybeUser /\ wasOnPage' \in BOOLEAN
    BY DeliverStep DEF AvatarOnAuth, AvatarInv, AvatarTypeOK
  <1> QED BY <1>1 DEF AvatarOnAuth, AvatarInv, AvatarTypeOK, AvatarOwn

LEMMA AnswerAvatarLoadStep ==
  ASSUME AvatarInv, NEW by \in avatarLoads, AnswerAvatarLoad(by)
  PROVE  AvatarInv'
  <1>1. PICK p \in {lastPhoto} \cup {photo[u] : u \in {by} \cap Users} : lastPhoto' = p /\ Show(p)
    BY DEF AnswerAvatarLoad
  <1>2. p \in Pictures BY DEF AvatarInv, AvatarTypeOK
  <1>3. shown' \in Pictures BY <1>1, <1>2, ShowTyped DEF AvatarInv, AvatarTypeOK
  <1> QED BY <1>1, <1>2, <1>3 DEF AnswerAvatarLoad, AvatarInv, AvatarTypeOK, AvatarOwn

LEMMA SelectFileStep ==
  ASSUME AvatarInv, SessionInv, SelectFile
  PROVE  AvatarInv'
  <1>1. picked' \in MaybeUser /\ uploadEnabled' \in BOOLEAN /\ shown' \in Pictures
    BY SessionFacts DEF SelectFile, AvatarInv, AvatarTypeOK, MaybeUser, Pictures
  <1>2. uploadEnabled' <=> picked' # NoUser BY DEF SelectFile
  <1> QED BY <1>1, <1>2 DEF SelectFile, AvatarInv, AvatarTypeOK, AvatarOwn

LEMMA StartUploadStep ==
  ASSUME AvatarInv, SessionInv, StartUpload
  PROVE  AvatarInv'
  <1> DEFINE q == [by |-> Token, file |-> picked, step |-> "store", object |-> NoUser, ok |-> FALSE]
  <1>1. uploads' = uploads \cup {q} BY DEF StartUpload
  <1>2. q \in Uploads
    BY SessionFacts DEF StartUpload, AvatarInv, AvatarTypeOK, Uploads, Pictures, MaybeUser
  <1> QED BY <1>1, <1>2 DEF StartUpload, AvatarInv, AvatarTypeOK, AvatarOwn

LEMMA StoreObjectStep ==
  ASSUME AvatarInv, SessionInv, NEW q \in uploads, StoreObject(q)
  PROVE  AvatarInv'
  <1>1. PICK r \in {[q EXCEPT !.step = "done"]}
              \cup {[q EXCEPT !.step = "put", !.object = u] : u \in {Token} \ {NoUser}} :
          uploads' = (uploads \ {q}) \cup {r}
    BY DEF StoreObject
  <1>2. r \in Uploads
    BY SessionFacts DEF AvatarInv, AvatarTypeOK, Uploads, Pictures
  <1> QED BY <1>1, <1>2 DEF StoreObject, AvatarInv, AvatarTypeOK, AvatarOwn

LEMMA ServePutStep ==
  ASSUME AvatarInv, NEW q \in uploads, ServePut(q)
  PROVE  AvatarInv'
  <1>0. q \in Uploads BY DEF AvatarInv, AvatarTypeOK
  <1>1. \E r \in Uploads : uploads' = (uploads \ {q}) \cup {r}
    BY <1>0 DEF ServePut, Uploads
  <1>2. /\ photo' \in [Users -> Pictures]
        /\ \A u \in Users : photo'[u] \in {u, NoUser}
    BY <1>0 DEF ServePut, Valid, Uploads, AvatarInv, AvatarTypeOK, AvatarOwn
  <1> QED BY <1>1, <1>2 DEF ServePut, AvatarInv, AvatarTypeOK, AvatarOwn

LEMMA EndUploadStep ==
  ASSUME AvatarInv, NEW q \in uploads, EndUpload(q)
  PROVE  AvatarInv'
  <1>1. shown' \in Pictures
    <2>1. q.object \in Pictures BY DEF AvatarInv, AvatarTypeOK, Uploads
    <2> QED BY <2>1, ShowTyped DEF EndUpload, AvatarInv, AvatarTypeOK
  <1>2. /\ picked' \in MaybeUser /\ uploadEnabled' \in BOOLEAN
        /\ uploadEnabled' <=> picked' # NoUser
    BY DEF EndUpload, AvatarInv, AvatarTypeOK, MaybeUser
  <1> QED BY <1>1, <1>2 DEF EndUpload, AvatarInv, AvatarTypeOK, AvatarOwn

LEMMA AvatarNextInv == AvatarInv /\ SessionInv /\ AvatarNext => AvatarInv'
  <1> SUFFICES ASSUME AvatarInv, SessionInv, AvatarNext PROVE AvatarInv'
    OBVIOUS
  <1>1. CASE UNCHANGED avatarVars BY <1>1 DEF AvatarInv, AvatarTypeOK, AvatarOwn, avatarVars
  <1>2. CASE Deliver /\ AvatarOnAuth BY <1>2, AvatarOnAuthStep
  <1>3. CASE AvatarStep
    BY <1>3, AnswerAvatarLoadStep, SelectFileStep, StartUploadStep, StoreObjectStep, ServePutStep,
       EndUploadStep DEF AvatarStep
  <1> QED BY <1>1, <1>2, <1>3 DEF AvatarNext

---------------------------------------------------------------------------
(* The admin console                                                       *)

\* A request about an account names one, and a save holds that account's own values.
CallOK(q) == q.kind \in {"row", "detail"} => q.about \in Accounts

SavingOwn == pending.got = "sent" => pending.account \in Accounts /\ pending.sends.of = pending.account

\* What an answer about the present user said of the role.
RoleTrue == (basis /\ access.admin) => user \in Admins

Answered == {"ok", "unauthorized", "forbidden", "error"}
CallSet == [kind : Kinds, by : MaybeUser, about : Accounts \cup {NoAccount}]
AccessSet == [meStatus : Statuses, admin : BOOLEAN]

\* The access and the requests in flight, and what one step may do to them.
AccessOK ==
  /\ access \in AccessSet /\ basis \in BOOLEAN /\ calls \subseteq CallSet
  /\ \A q \in calls : CallOK(q)
  /\ RoleTrue

\* The accounts, the list and the editor.
EditingOK ==
  /\ stored \in [Accounts -> Accounts]
  /\ rows \in [Accounts -> {"none", "summary", "full"}]
  /\ editor \in Accounts \cup {NoAccount} /\ inputs \in Inputs
  /\ pending \in [by : MaybeUser, account : Accounts \cup {NoAccount}, sends : Inputs,
                  got : {"none", "sent", "ok", "unauthorized", "forbidden", "error"}]
  /\ EditorHonest /\ SavingOwn

ConsoleInv == AccessOK /\ EditingOK

LEMMA ConsoleInvFacts == ConsoleInv => ConsoleTypeOK /\ EditorHonest /\ ConsoleHonest
  BY DEF ConsoleInv, AccessOK, EditingOK, AccessSet, CallSet, ConsoleTypeOK,
     RoleTrue, ConsoleHonest, ConsoleShown

LEMMA ConsoleStart == ConsoleInit => ConsoleInv
  <1> SUFFICES ASSUME ConsoleInit PROVE ConsoleInv
    OBVIOUS
  <1>1. inputs \in Inputs /\ pending.got = "none"
    BY DEF ConsoleInit, Inputs, Blanks, NoPending
  <1>2. pending \in [by : MaybeUser, account : Accounts \cup {NoAccount}, sends : Inputs,
                     got : {"none", "sent", "ok", "unauthorized", "forbidden", "error"}]
    BY DEF ConsoleInit, NoPending, Inputs, Blanks, MaybeUser
  <1>3. access \in AccessSet /\ RoleTrue BY DEF ConsoleInit, AccessSet, Statuses, RoleTrue
  <1>4. EditorHonest /\ SavingOwn BY <1>1 DEF ConsoleInit, EditorHonest, SavingOwn
  <1>5. AccessOK BY <1>3 DEF ConsoleInit, AccessOK
  <1>6. EditingOK BY <1>1, <1>2, <1>4 DEF ConsoleInit, EditingOK
  <1> QED BY <1>5, <1>6 DEF ConsoleInv

LEMMA RepliesFacts == ASSUME NEW by PROVE Replies(by) \subseteq Answered
  BY DEF Replies, Answered

LEMMA CallTyped ==
  ASSUME NEW kind \in Kinds, NEW by \in MaybeUser, NEW a \in Accounts \cup {NoAccount},
         kind \in {"row", "detail"} => a \in Accounts
  PROVE  Call(kind, by, a) \in CallSet /\ CallOK(Call(kind, by, a))
  BY DEF Call, CallSet, CallOK

\* An answer that is no success takes rights away or asks again, and gives none.
LEMMA RegateStep ==
  ASSUME AccessOK, SessionInv, NEW reply, NEW left \in SUBSET calls, Regate(reply, left),
         UNCHANGED <<user, basis>>
  PROVE  AccessOK'
  <1>1. CASE UNCHANGED access /\ calls' = left
    BY <1>1 DEF AccessOK, RoleTrue, CallOK
  <1>2. CASE Unauthorized /\ calls' = left
    <2>1. access' \in AccessSet /\ access'.admin = access.admin
      BY <1>2 DEF AccessOK, AccessSet, Unauthorized, Statuses
    <2> QED BY <1>2, <2>1 DEF AccessOK, RoleTrue, CallOK
  <1>3. CASE access' = [access EXCEPT !.meStatus = "loading"] /\ calls' = left \cup {CallMe(Token)}
    <2>1. access' \in AccessSet /\ access'.admin = access.admin
      BY <1>3 DEF AccessOK, AccessSet, Statuses
    <2>2. CallMe(Token) \in CallSet /\ CallOK(CallMe(Token))
      BY CallTyped, SessionFacts DEF CallMe, Kinds
    <2>3. \A q \in calls' : q \in CallSet /\ CallOK(q) BY <1>3, <2>2 DEF AccessOK
    <2> QED BY <1>3, <2>1, <2>3 DEF AccessOK, RoleTrue, CallOK
  <1> QED BY <1>1, <1>2, <1>3 DEF Regate, VerifyAdmin

LEMMA AccessKept == ASSUME AccessOK, UNCHANGED <<user, access, basis, calls>> PROVE AccessOK'
  BY DEF AccessOK, RoleTrue, CallOK

LEMMA EditingKept == ASSUME EditingOK, UNCHANGED <<stored, rows, editor, inputs, pending>> PROVE EditingOK'
  BY DEF EditingOK, EditorHonest, SavingOwn

\* A request starts with the token of the moment.
LEMMA StartStep ==
  ASSUME AccessOK, SessionInv, UNCHANGED <<user, access, basis>>,
         NEW kind \in Kinds, NEW a \in Accounts \cup {NoAccount},
         kind \in {"row", "detail"} => a \in Accounts, Start(kind, a)
  PROVE  AccessOK'
  <1>1. Token \in MaybeUser BY SessionFacts
  <1>2. Call(kind, Token, a) \in CallSet /\ CallOK(Call(kind, Token, a)) BY <1>1, CallTyped
  <1>3. \A q \in calls' : q \in CallSet /\ CallOK(q) BY <1>2 DEF AccessOK, Start
  <1> QED BY <1>3 DEF AccessOK, RoleTrue, CallOK

LEMMA ConsoleOnAuthStep == ASSUME ConsoleInv, SessionInv, Deliver, ConsoleOnAuth PROVE ConsoleInv'
  <1>0. user' = current /\ current \in MaybeUser BY DeliverStep
  <1>1. CASE UNCHANGED <<user, access, calls, rows, editor, basis>>
    BY <1>1, AccessKept, EditingKept DEF ConsoleInv, ConsoleOnAuth
  <1>2. CASE user' # user /\ NewUser /\ basis' = TRUE
    <2>1. access' \in AccessSet /\ access'.admin = FALSE
      <3>1. PICK s \in {"loading", "idle"} : access' = [meStatus |-> s, admin |-> FALSE]
        BY <1>2 DEF NewUser
      <3> QED BY <3>1 DEF AccessSet, Statuses
    <2>2. CallMe(current) \in CallSet /\ CallOK(CallMe(current))
      BY <1>0, CallTyped DEF CallMe, Kinds
    <2>3. \A q \in calls' : q \in CallSet /\ CallOK(q)
      BY <1>2, <2>2 DEF ConsoleInv, NewUser, AccessOK
    <2>4. AccessOK' BY <1>2, <2>1, <2>3 DEF AccessOK, RoleTrue, CallOK
    <2>5. EditingOK'
      BY <1>2 DEF ConsoleInv, NewUser, CloseEditor, ConsoleOnAuth, EditingOK, EditorHonest, SavingOwn
    <2> QED BY <2>4, <2>5 DEF ConsoleInv
  <1> QED BY <1>1, <1>2 DEF ConsoleOnAuth

LEMMA AnswerMeStep ==
  ASSUME ConsoleInv, SessionInv, UNCHANGED sessionVars, NEW q \in calls, AnswerMe(q)
  PROVE  ConsoleInv'
  <1>0. UNCHANGED <<user, stored, rows, editor, inputs, pending>> BY DEF AnswerMe, sessionVars
  <1>1. EditingOK' BY <1>0, EditingKept DEF ConsoleInv
  <1>2. AccessOK BY DEF ConsoleInv
  <1>3. AccessOK'
    <2>1. CASE calls' = calls \ {q} /\ UNCHANGED <<access, basis>>
      BY <1>0, <1>2, <2>1 DEF AccessOK, RoleTrue, CallOK
    <2>2. CASE /\ basis' = (basis /\ q.by = user)
               /\ access' = [meStatus |-> "ok", admin |-> q.by \in Admins]
               /\ calls' = (calls \ {q}) \cup
                    (IF access'.admin THEN {Call("page", Token, NoAccount)} ELSE {})
      <3>1. access' \in AccessSet /\ access'.admin = (q.by \in Admins)
        BY <2>2 DEF AccessSet, Statuses
      <3>2. Call("page", Token, NoAccount) \in CallSet /\ CallOK(Call("page", Token, NoAccount))
        BY CallTyped, SessionFacts DEF Kinds
      <3>3. \A r \in calls' : r \in CallSet /\ CallOK(r) BY <1>2, <2>2, <3>2 DEF AccessOK
      <3>4. basis' \in BOOLEAN /\ RoleTrue' BY <1>0, <2>2, <3>1 DEF RoleTrue
      <3> QED BY <3>1, <3>3, <3>4 DEF AccessOK, CallOK
    <2>3. ASSUME NEW s \in Statuses, access' = [access EXCEPT !.meStatus = s],
                 basis' = (basis /\ q.by = user), calls' = calls \ {q}
          PROVE  AccessOK'
      <3>1. access' \in AccessSet /\ access'.admin = access.admin
        BY <1>2, <2>3 DEF AccessOK, AccessSet
      <3>2. basis' \in BOOLEAN /\ RoleTrue' BY <1>0, <1>2, <2>3, <3>1 DEF AccessOK, RoleTrue
      <3> QED BY <1>2, <2>3, <3>1, <3>2 DEF AccessOK, CallOK
    <2>4. {"unauthorized", "forbidden", "error"} \subseteq Statuses BY DEF Statuses
    <2> QED BY <2>1, <2>2, <2>3, <2>4 DEF AnswerMe
  <1> QED BY <1>1, <1>3 DEF ConsoleInv

LEMMA ListStep ==
  ASSUME ConsoleInv, SessionInv, UNCHANGED sessionVars,
         \/ LoadPage \/ \E a \in Accounts : Mutate(a)
         \/ \E q \in calls : AnswerPage(q) \/ AnswerMutation(q)
  PROVE  ConsoleInv'
  <1>0. UNCHANGED <<user, stored, basis, editor, inputs, pending>> /\ AccessOK /\ EditingOK
    BY DEF ConsoleInv, LoadPage, Mutate, AnswerPage, AnswerMutation, sessionVars
  <1>1. CASE LoadPage
    <2>1. AccessOK' BY <1>0, <1>1, StartStep DEF LoadPage, Kinds
    <2> QED BY <1>0, <1>1, <2>1, EditingKept DEF ConsoleInv, LoadPage
  <1>2. ASSUME NEW a \in Accounts, Mutate(a) PROVE ConsoleInv'
    <2>1. AccessOK' BY <1>0, <1>2, StartStep DEF Mutate, Kinds
    <2> QED BY <1>0, <1>2, <2>1, EditingKept DEF ConsoleInv, Mutate
  <1>3. ASSUME NEW q \in calls, AnswerPage(q) PROVE ConsoleInv'
    <2>1. AccessOK' BY <1>0, <1>3, RegateStep DEF AnswerPage
    <2>2. EditingOK' BY <1>0, <1>3 DEF AnswerPage, EditingOK, EditorHonest, SavingOwn
    <2> QED BY <2>1, <2>2 DEF ConsoleInv
  <1>4. ASSUME NEW q \in calls, AnswerMutation(q) PROVE ConsoleInv'
    <2>1. AccessOK' BY <1>0, <1>4, RegateStep DEF AnswerMutation
    <2>2. EditingOK' BY <1>0, <1>4 DEF AnswerMutation, EditingOK, EditorHonest, SavingOwn
    <2> QED BY <2>1, <2>2 DEF ConsoleInv
  <1> QED BY <1>1, <1>2, <1>3, <1>4

\* The form shows the account it is opened for.
LEMMA FillTyped ==
  ASSUME NEW a \in Accounts, NEW source, FillForm(a, source)
  PROVE  inputs' \in Inputs /\ inputs'.of = a
  BY DEF FillForm, Inputs

LEMMA OpenEditorStep ==
  ASSUME ConsoleInv, SessionInv, UNCHANGED sessionVars, NEW a \in Accounts, OpenEditor(a)
  PROVE  ConsoleInv'
  <1>0. UNCHANGED <<user, stored, access, basis, rows, pending>> /\ AccessOK /\ EditingOK
    BY DEF ConsoleInv, OpenEditor, sessionVars
  <1>1. AccessOK' BY <1>0, StartStep DEF OpenEditor, Kinds
  <1>2. inputs' \in Inputs /\ inputs'.of = a /\ editor' = a BY FillTyped DEF OpenEditor
  <1>3. EditingOK' BY <1>0, <1>2 DEF EditingOK, EditorHonest, SavingOwn
  <1> QED BY <1>1, <1>3 DEF ConsoleInv

LEMMA AnswerDetailStep ==
  ASSUME ConsoleInv, SessionInv, UNCHANGED sessionVars, NEW q \in calls, AnswerDetail(q)
  PROVE  ConsoleInv'
  <1>0. UNCHANGED <<user, stored, basis, rows, pending>> /\ AccessOK /\ EditingOK
        /\ calls' = calls \ {q} /\ q.about \in Accounts
    BY DEF ConsoleInv, AnswerDetail, sessionVars, AccessOK, CallOK
  <1>1. CASE editor = q.about /\ FillFrom(q) /\ UNCHANGED <<access, editor>>
    <2>1. stored[q.about] = q.about BY <1>0 DEF EditingOK, EditorHonest
    <2>2. inputs' \in Inputs /\ inputs'.of = q.about BY <1>0, <1>1, <2>1, FillTyped DEF FillFrom
    <2>3. EditingOK' BY <1>0, <1>1, <2>2 DEF EditingOK, EditorHonest, SavingOwn
    <2>4. AccessOK' BY <1>0, <1>1 DEF AccessOK, RoleTrue, CallOK
    <2> QED BY <2>3, <2>4 DEF ConsoleInv
  <1>2. CASE CloseEditor /\ Unauthorized /\ UNCHANGED inputs
    <2>1. EditingOK' BY <1>0, <1>2 DEF CloseEditor, EditingOK, EditorHonest, SavingOwn
    <2>2. access' \in AccessSet /\ access'.admin = access.admin
      BY <1>0, <1>2 DEF Unauthorized, AccessOK, AccessSet, Statuses
    <2>3. AccessOK' BY <1>0, <2>2 DEF AccessOK, RoleTrue, CallOK
    <2> QED BY <2>1, <2>3 DEF ConsoleInv
  <1>3. CASE UNCHANGED <<access, editor, inputs>>
    <2>1. EditingOK' BY <1>0, <1>3, EditingKept
    <2>2. AccessOK' BY <1>0, <1>3 DEF AccessOK, RoleTrue, CallOK
    <2> QED BY <2>1, <2>2 DEF ConsoleInv
  <1> QED BY <1>1, <1>2, <1>3 DEF AnswerDetail

LEMMA EditStep ==
  ASSUME ConsoleInv, SessionInv, UNCHANGED sessionVars, Choose \/ Cancel \/ SaveProfile
  PROVE  ConsoleInv'
  <1>0. UNCHANGED <<user, stored, access, basis, rows, calls>> /\ AccessOK /\ EditingOK
    BY DEF ConsoleInv, Choose, Cancel, SaveProfile, sessionVars
  <1>1. AccessOK' BY <1>0, AccessKept
  <1>2. CASE Choose
    <2>1. inputs' \in Inputs /\ inputs'.of = inputs.of BY <1>0, <1>2 DEF Choose, EditingOK, Inputs
    <2>2. EditingOK' BY <1>0, <1>2, <2>1 DEF Choose, EditingOK, EditorHonest, SavingOwn
    <2> QED BY <1>1, <2>2 DEF ConsoleInv
  <1>3. CASE Cancel
    <2>1. EditingOK' BY <1>0, <1>3 DEF Cancel, CloseEditor, EditingOK, EditorHonest, SavingOwn
    <2> QED BY <1>1, <2>1 DEF ConsoleInv
  <1>4. CASE SaveProfile
    <2>1. pending' = [by |-> Token, account |-> editor, sends |-> inputs, got |-> "sent"]
      BY <1>4 DEF SaveProfile
    <2>2. editor \in Accounts /\ inputs \in Inputs /\ inputs.of = editor
      BY <1>0, <1>4 DEF SaveProfile, EditorShown, EditingOK, EditorHonest
    <2>3. pending' \in [by : MaybeUser, account : Accounts \cup {NoAccount}, sends : Inputs,
                        got : {"none", "sent", "ok", "unauthorized", "forbidden", "error"}]
      BY <2>1, <2>2, SessionFacts
    <2>4. SavingOwn' BY <2>1, <2>2 DEF SavingOwn
    <2>5. EditingOK' BY <1>0, <1>4, <2>3, <2>4 DEF SaveProfile, EditingOK, EditorHonest
    <2> QED BY <1>1, <2>5 DEF ConsoleInv
  <1> QED BY <1>2, <1>3, <1>4

LEMMA ServeProfileStep ==
  ASSUME ConsoleInv, SessionInv, UNCHANGED sessionVars, ServeProfile
  PROVE  ConsoleInv'
  <1>0. UNCHANGED <<user, access, basis, rows, calls, editor, inputs>> /\ AccessOK /\ EditingOK
    BY DEF ConsoleInv, ServeProfile, sessionVars
  <1>1. AccessOK' BY <1>0, AccessKept
  <1>2. PICK reply \in Replies(pending.by) :
          /\ pending' = [pending EXCEPT !.got = reply]
          /\ \/ stored' = [stored EXCEPT ![pending.account] = pending.sends.of]
             \/ UNCHANGED stored
    BY DEF ServeProfile
  <1>3. reply \in Answered BY RepliesFacts
  <1>4. /\ pending' \in [by : MaybeUser, account : Accounts \cup {NoAccount}, sends : Inputs,
                         got : {"none", "sent", "ok", "unauthorized", "forbidden", "error"}]
        /\ pending'.got # "sent"
    BY <1>0, <1>2, <1>3 DEF EditingOK, Answered
  <1>5. stored' \in [Accounts -> Accounts] /\ \A a \in Accounts : stored'[a] = a
    BY <1>0, <1>2 DEF EditingOK, EditorHonest, SavingOwn, ServeProfile
  <1>6. EditingOK' BY <1>0, <1>4, <1>5 DEF EditingOK, EditorHonest, SavingOwn
  <1> QED BY <1>1, <1>6 DEF ConsoleInv

LEMMA ApplyProfileStep ==
  ASSUME ConsoleInv, SessionInv, UNCHANGED sessionVars, ApplyProfile
  PROVE  ConsoleInv'
  <1>0. UNCHANGED <<user, stored, basis, inputs>> /\ pending' = NoPending /\ AccessOK /\ EditingOK
    BY DEF ConsoleInv, ApplyProfile, sessionVars
  <1>1. /\ pending' \in [by : MaybeUser, account : Accounts \cup {NoAccount}, sends : Inputs,
                         got : {"none", "sent", "ok", "unauthorized", "forbidden", "error"}]
        /\ SavingOwn'
    BY <1>0 DEF NoPending, Inputs, Blanks, MaybeUser, SavingOwn
  <1>2. AccessOK'
    <2>1. CASE UNCHANGED <<access, calls>> BY <1>0, <2>1, AccessKept
    <2>2. CASE Regate(pending.got, calls) BY <1>0, <2>2, RegateStep
    <2> QED BY <2>1, <2>2 DEF ApplyProfile
  <1>3. rows' \in [Accounts -> {"none", "summary", "full"}]
    BY <1>0 DEF ApplyProfile, EditingOK
  <1>4. editor' = NoAccount \/ editor' = editor BY DEF ApplyProfile, CloseEditor
  <1>5. EditingOK' BY <1>0, <1>1, <1>3, <1>4 DEF EditingOK, EditorHonest
  <1> QED BY <1>2, <1>5 DEF ConsoleInv

LEMMA ConsoleNextInv == ConsoleInv /\ SessionInv /\ ConsoleNext => ConsoleInv'
  <1> SUFFICES ASSUME ConsoleInv, SessionInv, ConsoleNext PROVE ConsoleInv'
    OBVIOUS
  <1>1. CASE Elsewhere /\ UNCHANGED consoleVars
    BY <1>1, ElsewhereStep, AccessKept, EditingKept DEF ConsoleInv, consoleVars
  <1>2. CASE Deliver /\ ConsoleOnAuth BY <1>2, ConsoleOnAuthStep
  <1>3. CASE ConsoleStep /\ UNCHANGED sessionVars
    BY <1>3, AnswerMeStep, ListStep, OpenEditorStep, AnswerDetailStep, EditStep, ServeProfileStep,
       ApplyProfileStep DEF ConsoleStep
  <1> QED BY <1>1, <1>2, <1>3 DEF ConsoleNext

---------------------------------------------------------------------------
(* The page                                                                *)

\* The script that moves keeps its invariant; the others stay as they are at first.
WebInv ==
  /\ subject \in Scripts
  /\ SessionInv
  /\ IF subject = "completion-gate" THEN GateInv ELSE GateInit
  /\ IF subject = "terms" THEN TermsInv ELSE TermsInit
  /\ IF subject = "verify-email" THEN BannerInv ELSE BannerInit
  /\ IF subject = "profile" THEN ProfileInv ELSE ProfileInit
  /\ IF subject = "avatar" THEN AvatarInv ELSE AvatarInit
  /\ IF subject = "admin" THEN ConsoleInv ELSE ConsoleInit

LEMMA WebStart == Init => WebInv
  BY SessionStart, GateStart, TermsStart, BannerStart, ProfileStart, AvatarStart, ConsoleStart
     DEF Init, WebInv

\* A script that does not move is not disturbed.
LEMMA IdleKept ==
  /\ GateInit /\ UNCHANGED gateVars => GateInit'
  /\ TermsInit /\ UNCHANGED termsVars => TermsInit'
  /\ BannerInit /\ UNCHANGED bannerVars => BannerInit'
  /\ ProfileInit /\ UNCHANGED profileVars => ProfileInit'
  /\ AvatarInit /\ UNCHANGED avatarVars => AvatarInit'
  /\ ConsoleInit /\ UNCHANGED consoleVars => ConsoleInit'
  <1>1. GateInit /\ UNCHANGED gateVars => GateInit' BY DEF GateInit, gateVars
  <1>2. TermsInit /\ UNCHANGED termsVars => TermsInit' BY DEF TermsInit, termsVars
  <1>3. BannerInit /\ UNCHANGED bannerVars => BannerInit' BY DEF BannerInit, bannerVars
  <1>4. ProfileInit /\ UNCHANGED profileVars => ProfileInit' BY DEF ProfileInit, profileVars
  <1>5. AvatarInit /\ UNCHANGED avatarVars => AvatarInit' BY DEF AvatarInit, avatarVars
  <1>6. ConsoleInit /\ UNCHANGED consoleVars => ConsoleInit' BY DEF ConsoleInit, consoleVars
  <1> QED BY <1>1, <1>2, <1>3, <1>4, <1>5, <1>6

\* When nothing moves the invariant of the subject stands.
LEMMA SubjectKept ==
  ASSUME SessionInv, UNCHANGED sessionVars
  PROVE  /\ GateInv /\ UNCHANGED gateVars => GateInv'
         /\ TermsInv /\ UNCHANGED termsVars => TermsInv'
         /\ BannerInv /\ UNCHANGED bannerVars => BannerInv'
         /\ ProfileInv /\ UNCHANGED profileVars => ProfileInv'
         /\ AvatarInv /\ UNCHANGED avatarVars => AvatarInv'
         /\ ConsoleInv /\ UNCHANGED consoleVars => ConsoleInv'
  <1>0. UNCHANGED <<user, session>> BY DEF sessionVars
  <1>1. GateInv /\ UNCHANGED gateVars => GateInv' BY <1>0, GateKept
  <1>2. TermsInv /\ UNCHANGED termsVars => TermsInv' BY <1>0, TermsKept
  <1>3. BannerInv /\ UNCHANGED bannerVars => BannerInv'
    BY <1>0 DEF BannerInv, BannerTypeOK, ResendUsable, bannerVars
  <1>4. ProfileInv /\ UNCHANGED profileVars => ProfileInv'
    BY <1>0 DEF ProfileInv, ProfileTypeOK, TypedOwn, OnlyOwnEdits, profileVars
  <1>5. AvatarInv /\ UNCHANGED avatarVars => AvatarInv'
    BY DEF AvatarInv, AvatarTypeOK, AvatarOwn, avatarVars
  <1>6. ConsoleInv /\ UNCHANGED consoleVars => ConsoleInv'
    BY <1>0, AccessKept, EditingKept DEF ConsoleInv, consoleVars
  <1> QED BY <1>1, <1>2, <1>3, <1>4, <1>5, <1>6

LEMMA SessionStep ==
  ASSUME SessionInv, GateNext \/ TermsNext \/ BannerNext \/ ProfileNext \/ AvatarNext \/ ConsoleNext
  PROVE  SessionInv'
  <1>1. Elsewhere \/ Deliver \/ UNCHANGED sessionVars
    BY DEF GateNext, TermsNext, BannerNext, ProfileNext, AvatarNext, ConsoleNext
  <1> QED BY <1>1, ElsewhereStep, DeliverStep, SessionKept

LEMMA WebNextInv == WebInv /\ [Next]_vars => WebInv'
  <1> SUFFICES ASSUME WebInv, [Next]_vars PROVE WebInv'
    OBVIOUS
  <1>1. CASE UNCHANGED vars
    BY <1>1, SessionKept, SubjectKept, IdleKept DEF WebInv, vars, scriptVars
  <1>2. CASE Next
    <2>0. UNCHANGED subject /\ SessionInv' BY <1>2, SessionStep DEF Next, WebInv
    <2>1. CASE /\ subject = "completion-gate" /\ GateNext
               /\ UNCHANGED <<termsVars, bannerVars, profileVars, avatarVars, consoleVars>>
      BY <2>0, <2>1, GateNextInv, IdleKept DEF WebInv
    <2>2. CASE /\ subject = "terms" /\ TermsNext
               /\ UNCHANGED <<gateVars, bannerVars, profileVars, avatarVars, consoleVars>>
      BY <2>0, <2>2, TermsNextInv, IdleKept DEF WebInv
    <2>3. CASE /\ subject = "verify-email" /\ BannerNext
               /\ UNCHANGED <<gateVars, termsVars, profileVars, avatarVars, consoleVars>>
      BY <2>0, <2>3, BannerNextInv, IdleKept DEF WebInv
    <2>4. CASE /\ subject = "profile" /\ ProfileNext
               /\ UNCHANGED <<gateVars, termsVars, bannerVars, avatarVars, consoleVars>>
      BY <2>0, <2>4, ProfileNextInv, IdleKept DEF WebInv
    <2>5. CASE /\ subject = "avatar" /\ AvatarNext
               /\ UNCHANGED <<gateVars, termsVars, bannerVars, profileVars, consoleVars>>
      BY <2>0, <2>5, AvatarNextInv, IdleKept DEF WebInv
    <2>6. CASE /\ subject = "admin" /\ ConsoleNext
               /\ UNCHANGED <<gateVars, termsVars, bannerVars, profileVars, avatarVars>>
      BY <2>0, <2>6, ConsoleNextInv, IdleKept DEF WebInv
    <2> QED BY <1>2, <2>1, <2>2, <2>3, <2>4, <2>5, <2>6 DEF Next
  <1> QED BY <1>1, <1>2

LEMMA WebInvariant == Spec => []WebInv
  BY WebStart, WebNextInv, PTL DEF Spec

\* The session, and the state, requests and answers of every script stay well formed.
THEOREM WebTypeSafe == Spec => []TypeOK
  <1>1. WebInv => TypeOK
    BY GateInvFacts, GateIdle, TermsIdle, BannerStart, ProfileIdle, AvatarStart, ConsoleStart,
       ConsoleInvFacts
       DEF WebInv, TypeOK, SessionInv, TermsInv, BannerInv, ProfileInv, AvatarInv
  <1> QED BY <1>1, WebInvariant, PTL

\* A gate of completion-gate.js, terms.js or admin.js lets a page through for the user
\* it is for: an answer to an earlier callback or about another user may be taken for
\* one about the present, but then it says so, and what was read stays true.
THEOREM GatesSafe == Spec => []GatesHonest
  <1>1. WebInv => GatesHonest
    BY GateInvFacts, GateIdle, TermsIdle, ConsoleStart, ConsoleInvFacts
       DEF WebInv, GatesHonest, TermsInv
  <1> QED BY <1>1, WebInvariant, PTL

\* lockScroll and unlockScroll of completion-gate.js pair up over any sequence of
\* sign-ins, sign-outs and late answers: the page scrolls if and only if it is uncovered.
THEOREM ScrollSafe == Spec => []ScrollFree
  <1>1. WebInv => ScrollFree BY GateInvFacts, GateIdle DEF WebInv
  <1> QED BY <1>1, WebInvariant, PTL

\* verify-email.js always leaves something that enables a disabled resend button, for
\* any cooldowns and any number of answers that cross.
THEOREM ResendSafe == Spec => []ResendUsable
  <1>1. WebInv => ResendUsable BY BannerStart DEF WebInv, BannerInv
  <1> QED BY <1>1, WebInvariant, PTL

\* buildPatch of profile.js sends no value of another account, though the form may show
\* the profile of one: as long as the SDK and the page agree on the user who saves, and
\* no user replaced another without a sign-out since the last load.
THEOREM OwnEditsSafe == Spec => []OnlyOwnEdits
  <1>1. WebInv => OnlyOwnEdits BY ProfileIdle DEF WebInv, ProfileInv
  <1> QED BY <1>1, WebInvariant, PTL

\* AvatarObject.validate makes up for the three moments at which an upload asks who is
\* there, and the upload button is armed exactly for a file nobody is uploading.
THEOREM AvatarSafe == Spec => []AvatarOwn
  <1>1. WebInv => AvatarOwn BY AvatarStart DEF WebInv, AvatarInv
  <1> QED BY <1>1, WebInvariant, PTL

\* admin.js fills the open editor with the values of its account only, and saves them to
\* that account.
THEOREM EditorSafe == Spec => []EditorHonest
  <1>1. WebInv => EditorHonest BY ConsoleStart, ConsoleInvFacts DEF WebInv
  <1> QED BY <1>1, WebInvariant, PTL

---------------------------------------------------------------------------
(* The whole page: what subject leaves out is no behaviour of any script   *)

\* A step of the page is, for each script, a step of that script or none.
LEMMA PageMoves ==
  ASSUME PageNext
  PROVE  /\ GateNext \/ UNCHANGED <<sessionVars, gateVars>>
         /\ TermsNext \/ UNCHANGED <<sessionVars, termsVars>>
         /\ BannerNext \/ UNCHANGED <<sessionVars, bannerVars>>
         /\ ProfileNext \/ UNCHANGED <<sessionVars, profileVars>>
         /\ AvatarNext \/ UNCHANGED <<sessionVars, avatarVars>>
         /\ ConsoleNext \/ UNCHANGED <<sessionVars, consoleVars>>
  <1>1. CASE Elsewhere /\ UNCHANGED scriptVars
    <2>1. /\ UNCHANGED gateVars /\ UNCHANGED termsVars /\ UNCHANGED bannerVars
          /\ UNCHANGED profileVars /\ UNCHANGED avatarVars /\ UNCHANGED consoleVars
      BY <1>1 DEF scriptVars
    <2> QED BY <1>1, <2>1 DEF GateNext, TermsNext, BannerNext, ProfileNext, AvatarNext, ConsoleNext
  <1>2. CASE Notify
    BY <1>2 DEF Notify, GateNext, TermsNext, BannerNext, ProfileNext, AvatarNext, ConsoleNext
  <1>3. CASE UNCHANGED sessionVars /\ ~(Elsewhere /\ UNCHANGED scriptVars) /\ ~Notify
    BY <1>3 DEF PageNext, GateNext, TermsNext, BannerNext, ProfileNext, AvatarNext, ConsoleNext
  <1> QED BY <1>1, <1>2, <1>3 DEF PageNext

\* Of the whole page each script sees an execution of its own, so the executions in which
\* one script moves, which WebPages!Spec explores, are all there are for any of them.
THEOREM PageProjects ==
  PageSpec =>
    /\ SessionInit
    /\ GateInit    /\ [][GateNext]_<<sessionVars, gateVars>>
    /\ TermsInit   /\ [][TermsNext]_<<sessionVars, termsVars>>
    /\ BannerInit  /\ [][BannerNext]_<<sessionVars, bannerVars>>
    /\ ProfileInit /\ [][ProfileNext]_<<sessionVars, profileVars>>
    /\ AvatarInit  /\ [][AvatarNext]_<<sessionVars, avatarVars>>
    /\ ConsoleInit /\ [][ConsoleNext]_<<sessionVars, consoleVars>>
  <1>1. [PageNext]_<<sessionVars, scriptVars>> =>
          /\ [GateNext]_<<sessionVars, gateVars>>
          /\ [TermsNext]_<<sessionVars, termsVars>>
          /\ [BannerNext]_<<sessionVars, bannerVars>>
          /\ [ProfileNext]_<<sessionVars, profileVars>>
          /\ [AvatarNext]_<<sessionVars, avatarVars>>
          /\ [ConsoleNext]_<<sessionVars, consoleVars>>
    BY PageMoves DEF scriptVars
  <1>2. PageInit =>
          /\ SessionInit
          /\ GateInit /\ TermsInit /\ BannerInit /\ ProfileInit /\ AvatarInit /\ ConsoleInit
    BY DEF PageInit
  <1> QED BY <1>1, <1>2, PTL DEF PageSpec

\* The invariants of all scripts at once.
PageInv ==
  /\ SessionInv
  /\ GateInv /\ TermsInv /\ BannerInv /\ ProfileInv /\ AvatarInv /\ ConsoleInv

LEMMA PageNextInv == PageInv /\ [PageNext]_<<sessionVars, scriptVars>> => PageInv'
  <1> SUFFICES ASSUME PageInv, [PageNext]_<<sessionVars, scriptVars>> PROVE PageInv'
    OBVIOUS
  <1>1. CASE UNCHANGED <<sessionVars, scriptVars>>
    BY <1>1, SessionKept, SubjectKept DEF PageInv, scriptVars
  <1>2. CASE PageNext
    <2>1. SessionInv' BY <1>2, PageMoves, SessionStep, SessionKept DEF PageInv
    <2>2. GateInv' /\ TermsInv'
      BY <1>2, PageMoves, GateNextInv, TermsNextInv, SubjectKept DEF PageInv
    <2>3. BannerInv' /\ ProfileInv'
      BY <1>2, PageMoves, BannerNextInv, ProfileNextInv, SubjectKept DEF PageInv
    <2>4. AvatarInv' /\ ConsoleInv'
      BY <1>2, PageMoves, AvatarNextInv, ConsoleNextInv, SubjectKept DEF PageInv
    <2> QED BY <2>1, <2>2, <2>3, <2>4 DEF PageInv
  <1> QED BY <1>1, <1>2

\* On the whole page every script keeps its promise while the others keep theirs.
THEOREM PageSafe ==
  PageSpec => [](/\ GatesHonest /\ ScrollFree /\ ResendUsable
                 /\ OnlyOwnEdits /\ AvatarOwn /\ EditorHonest)
  <1>1. PageInit => PageInv
    BY SessionStart, GateStart, TermsStart, BannerStart, ProfileStart, AvatarStart, ConsoleStart
       DEF PageInit, PageInv
  <1>2. PageInv => /\ GatesHonest /\ ScrollFree /\ ResendUsable
                   /\ OnlyOwnEdits /\ AvatarOwn /\ EditorHonest
    BY GateInvFacts, ConsoleInvFacts
       DEF PageInv, GatesHonest, TermsInv, BannerInv, ProfileInv, AvatarInv
  <1> QED BY <1>1, <1>2, PageNextInv, PTL DEF PageSpec

---------------------------------------------------------------------------
(* Push registration                                                       *)

Phases == {"unminted", "here", "elsewhere", "dead"}

PageStates == [registered : BOOLEAN, listening : BOOLEAN, leaving : BOOLEAN,
          asking : BOOLEAN, minting : BOOLEAN, lastToken : MaybeToken]

\* A multicast under way: its results, once there, are one per token, and a token
\* they call dead is dead.
Under(s, n) ==
  /\ DOMAIN s = {"tokens", "results", "next"}
  /\ s.tokens \in [1 .. n -> Tokens]
  /\ s.next \in 1 .. n
  /\ s.results = <<>> \/ s.results \in [1 .. n -> Results]
  /\ s.results # <<>> =>
       \A i \in 1 .. n : s.results[i] = "dead" => fcm[s.tokens[i]] = "dead"

SendOK == send = NoSend \/ \E n \in 1 .. Cardinality(Tokens) : Under(send, n)

RegistryOK ==
  /\ owner \in [Tokens -> MaybeUser]
  /\ fcm \in [Tokens -> Phases]
  /\ posts \subseteq Requests /\ deletes \subseteq Requests

PushInv == RegistryOK /\ page \in PageStates /\ Listens /\ SendOK

LEMMA TokensFinite == Cardinality(Tokens) \in Nat
  BY TokenAssumption, FS_CardinalityType

LEMMA LenOfRange == ASSUME NEW n \in Nat, NEW S, NEW f \in [1 .. n -> S] PROVE Len(f) = n
  <1>1. f \in Seq(S) OBVIOUS
  <1>2. DOMAIN f = 1 .. n /\ DOMAIN f = 1 .. Len(f) /\ Len(f) \in Nat BY <1>1, LenProperties
  <1> QED BY <1>2

\* What a step leaves of a multicast when dead tokens stay dead.
LEMMA SendStays ==
  ASSUME SendOK, RegistryOK, UNCHANGED send,
         \A t \in Tokens : fcm[t] = "dead" => fcm'[t] = "dead"
  PROVE  SendOK'
  <1>1. CASE send = NoSend
    <2>1. send' = NoSend' BY <1>1 DEF NoSend
    <2> QED BY <2>1 DEF SendOK
  <1>2. ASSUME NEW n \in 1 .. Cardinality(Tokens), Under(send, n) PROVE SendOK'
    <2>1. Under(send, n)' BY <1>2 DEF Under
    <2> QED BY <2>1 DEF SendOK
  <1> QED BY <1>1, <1>2 DEF SendOK

LEMMA RequestTyped ==
  ASSUME NEW t PROVE Request(t) \subseteq Requests
  BY DEF Request, Requests

---------------------------------------------------------------------------
(* The client                                                              *)

\* A step of the client: the registry is left alone.
LEMMA ClientStep ==
  ASSUME PushInv, UNCHANGED <<owner, send>>, fcm' \in [Tokens -> Phases],
         posts' \subseteq Requests, deletes' \subseteq Requests,
         \A t \in Tokens : fcm[t] = "dead" => fcm'[t] = "dead",
         page' \in PageStates, page'.registered => page'.listening
  PROVE  PushInv'
  <1>1. RegistryOK' BY DEF PushInv, RegistryOK
  <1>2. SendOK' BY SendStays DEF PushInv
  <1> QED BY <1>1, <1>2 DEF PushInv, Listens, PageStates

LEMMA PushOnAuthStep == ASSUME PushInv, PushOnAuth PROVE PushInv'
  <1>0. page \in PageStates /\ posts \subseteq Requests /\ deletes \subseteq Requests
        /\ fcm \in [Tokens -> Phases] /\ (page.registered => page.listening)
    BY DEF PushInv, RegistryOK, Listens
  <1>1. deletes' \subseteq Requests BY <1>0, RequestTyped DEF PushOnAuth
  <1>2. page' \in PageStates /\ (page'.registered => page'.listening)
    <2>1. CASE page' = [page EXCEPT !.registered = TRUE, !.listening = TRUE, !.asking = TRUE]
      BY <1>0, <2>1 DEF PageStates
    <2>2. CASE page' = [page EXCEPT !.registered = FALSE, !.listening = FALSE, !.leaving = TRUE]
      BY <1>0, <2>2 DEF PageStates
    <2>3. CASE UNCHANGED page
      BY <1>0, <2>3
    <2> QED BY <2>1, <2>2, <2>3 DEF PushOnAuth
  <1> QED BY <1>0, <1>1, <1>2, ClientStep DEF PushOnAuth

LEMMA TokenEventFacts ==
  ASSUME PushInv, NEW t \in Tokens, TokenEvent(t)
  PROVE  /\ page' \in PageStates /\ (page'.registered => page'.listening)
         /\ posts' \subseteq Requests
  <1>0. page \in PageStates /\ posts \subseteq Requests /\ (page.registered => page.listening)
    BY DEF PushInv, RegistryOK, Listens
  <1>1. t \in MaybeToken BY DEF MaybeToken
  <1>2. CASE /\ page' = [page EXCEPT !.minting = FALSE, !.lastToken = t]
             /\ posts' = posts \cup Request(t)
    BY <1>0, <1>1, <1>2, RequestTyped DEF PageStates
  <1>3. CASE page' = [page EXCEPT !.minting = FALSE] /\ UNCHANGED posts
    BY <1>0, <1>3 DEF PageStates
  <1> QED BY <1>2, <1>3 DEF TokenEvent

LEMMA RegistrationStep == ASSUME PushInv, Registration PROVE PushInv'
  <1>0. fcm \in [Tokens -> Phases] /\ deletes \subseteq Requests BY DEF PushInv, RegistryOK
  <1>1. PICK t \in Tokens :
          /\ UNCHANGED fcm \/ (fcm[t] = "unminted" /\ fcm' = [fcm EXCEPT ![t] = "here"])
          /\ TokenEvent(t)
    BY DEF Registration
  <1>2. fcm' \in [Tokens -> Phases] /\ \A s \in Tokens : fcm[s] = "dead" => fcm'[s] = "dead"
    BY <1>0, <1>1 DEF Phases
  <1> QED BY <1>0, <1>1, <1>2, TokenEventFacts, ClientStep DEF Registration

LEMMA RotateStep == ASSUME PushInv, Rotate PROVE PushInv'
  <1>0. fcm \in [Tokens -> Phases] /\ deletes \subseteq Requests BY DEF PushInv, RegistryOK
  <1>1. PICK old \in Tokens, new \in Tokens :
          /\ fcm[new] = "unminted"
          /\ fcm' = [fcm EXCEPT ![old] = "dead", ![new] = "here"]
          /\ TokenEvent(new)
    BY DEF Rotate
  <1>2. fcm' \in [Tokens -> Phases] /\ \A s \in Tokens : fcm[s] = "dead" => fcm'[s] = "dead"
    BY <1>0, <1>1 DEF Phases
  <1> QED BY <1>0, <1>1, <1>2, TokenEventFacts, ClientStep DEF Rotate

LEMMA PageStep ==
  ASSUME PushInv, AnswerPermission \/ RegistrationError \/ Left
  PROVE  PushInv'
  <1>0. page \in PageStates /\ posts \subseteq Requests /\ deletes \subseteq Requests
        /\ fcm \in [Tokens -> Phases] /\ (page.registered => page.listening)
    BY DEF PushInv, RegistryOK, Listens
  <1>1. UNCHANGED <<owner, fcm, posts, deletes, send>>
    BY DEF AnswerPermission, RegistrationError, Left
  <1>2. page' \in PageStates /\ (page'.registered => page'.listening)
    <2>1. CASE AnswerPermission BY <1>0, <2>1 DEF AnswerPermission, PageStates
    <2>2. CASE RegistrationError BY <1>0, <2>2 DEF RegistrationError, PageStates
    <2>3. CASE Left BY <1>0, <2>3 DEF Left, PageStates, MaybeToken
    <2> QED BY <2>1, <2>2, <2>3
  <1> QED BY <1>0, <1>1, <1>2, ClientStep

LEMMA OtherDeviceStep ==
  ASSUME PushInv, NEW t \in Tokens, (\E u \in Users : OtherDevice(u, t)) \/ Uninstall(t)
  PROVE  PushInv'
  <1>0. page \in PageStates /\ posts \subseteq Requests /\ deletes \subseteq Requests
        /\ fcm \in [Tokens -> Phases] /\ (page.registered => page.listening)
    BY DEF PushInv, RegistryOK, Listens
  <1>1. UNCHANGED <<owner, page, send>> BY DEF OtherDevice, Uninstall
  <1>2. posts' \subseteq Requests /\ deletes' \subseteq Requests
    BY <1>0 DEF OtherDevice, Uninstall, Requests
  <1>3. fcm' \in [Tokens -> Phases] /\ \A s \in Tokens : fcm[s] = "dead" => fcm'[s] = "dead"
    BY <1>0 DEF OtherDevice, Uninstall, Phases
  <1> QED BY <1>0, <1>1, <1>2, <1>3, ClientStep

---------------------------------------------------------------------------
(* The registry and the sends                                              *)

\* A step of the server: the client and FCM are left alone.
LEMMA ServerStep ==
  ASSUME PushInv, UNCHANGED <<fcm, page>>, owner' \in [Tokens -> MaybeUser],
         posts' \subseteq Requests, deletes' \subseteq Requests, SendOK'
  PROVE  PushInv'
  BY DEF PushInv, RegistryOK, Listens, PageStates

LEMMA RegistryStep ==
  ASSUME PushInv, (\E q \in posts : Register(q)) \/ (\E q \in deletes : Deregister(q))
  PROVE  PushInv'
  <1>0. owner \in [Tokens -> MaybeUser] /\ posts \subseteq Requests /\ deletes \subseteq Requests
    BY DEF PushInv, RegistryOK
  <1>1. UNCHANGED <<fcm, page, send>> /\ posts' \subseteq posts /\ deletes' \subseteq deletes
    BY DEF Register, Deregister
  <1>2. owner' \in [Tokens -> MaybeUser]
    <2>1. ASSUME NEW q \in posts, Register(q) PROVE owner' \in [Tokens -> MaybeUser]
      BY <1>0, <2>1 DEF Register, Requests, MaybeUser
    <2>2. ASSUME NEW q \in deletes, Deregister(q) PROVE owner' \in [Tokens -> MaybeUser]
      <3>1. q.token \in Tokens BY <1>0 DEF Requests
      <3>2. NoUser \in MaybeUser BY DEF MaybeUser
      <3> QED BY <1>0, <2>2, <3>1, <3>2 DEF Deregister
    <2> QED BY <2>1, <2>2
  <1>3. SendOK' BY <1>1, SendStays DEF PushInv
  <1> QED BY <1>0, <1>1, <1>2, <1>3, ServerStep

LEMMA SendStep == ASSUME PushInv, NEW u \in Users, SendToUser(u) PROVE PushInv'
  <1> DEFINE held == {t \in Tokens : owner[t] = u}
  <1>1. Cardinality(held) \in Nat /\ Cardinality(held) <= Cardinality(Tokens)
    BY TokenAssumption, FS_Subset, FS_CardinalityType
  <1>2. held # {} BY DEF SendToUser
  <1>3. Cardinality(held) # 0 BY <1>2, TokenAssumption, FS_Subset, FS_EmptySet
  <1>4. PICK order \in [1 .. Cardinality(held) -> held] : send' = [NoSend EXCEPT !.tokens = order]
    BY DEF SendToUser
  <1>5. Cardinality(held) \in 1 .. Cardinality(Tokens) BY <1>1, <1>3, TokensFinite
  <1>6. PICK n \in 1 .. Cardinality(Tokens) : order \in [1 .. n -> Tokens] BY <1>4, <1>5
  <1>7. Under(send, n)'
    <2>1. /\ send'.tokens = order /\ send'.results = <<>> /\ send'.next = 1
          /\ DOMAIN send' = {"tokens", "results", "next"}
      BY <1>4 DEF NoSend
    <2> QED BY <1>5, <1>6, <2>1 DEF Under
  <1>8. SendOK' BY <1>5, <1>7 DEF SendOK
  <1> QED BY <1>8, ServerStep DEF SendToUser, PushInv, RegistryOK

LEMMA MulticastStep == ASSUME PushInv, Multicast PROVE PushInv'
  <1>1. CASE send' = NoSend
    <2>1. SendOK' BY <1>1 DEF SendOK, NoSend
    <2> QED BY <2>1, ServerStep DEF Multicast, PushInv, RegistryOK
  <1>2. ASSUME NEW results \in [DOMAIN send.tokens -> Results],
               \A i \in DOMAIN results : results[i] = "dead" => fcm[send.tokens[i]] = "dead",
               send' = [send EXCEPT !.results = results]
        PROVE  PushInv'
    <2>1. send # NoSend BY DEF Multicast, NoSend
    <2>2. PICK n \in 1 .. Cardinality(Tokens) : Under(send, n) BY <2>1 DEF PushInv, SendOK
    <2>3. DOMAIN send.tokens = 1 .. n BY <2>2 DEF Under
    <2>4. UNCHANGED fcm BY DEF Multicast
    <2>5. Under(send, n)'
      <3>1. /\ send'.tokens = send.tokens /\ send'.next = send.next /\ send'.results = results
            /\ DOMAIN send' = DOMAIN send
        BY <1>2, <2>2 DEF Under
      <3>2. results \in [1 .. n -> Results] BY <1>2, <2>3
      <3>3. \A i \in 1 .. n : results[i] = "dead" => fcm'[send.tokens[i]] = "dead"
        BY <1>2, <2>3, <2>4
      <3> QED BY <2>2, <3>1, <3>2, <3>3 DEF Under
    <2>6. SendOK' BY <2>5 DEF SendOK
    <2> QED BY <2>6, ServerStep DEF Multicast, PushInv, RegistryOK
  <1> QED BY <1>1, <1>2 DEF Multicast

\* The result the loop is at is about a token, dead if the result says so.
LEMMA PruneFacts ==
  ASSUME PushInv, Prune
  PROVE  \E n \in 1 .. Cardinality(Tokens) :
           /\ Under(send, n) /\ Len(send.tokens) = n
           /\ Blamed(send.next) \in Tokens
           /\ send.results[send.next] = "dead" => fcm[Blamed(send.next)] = "dead"
  <1>1. send # NoSend BY DEF Prune, NoSend
  <1>2. PICK n \in 1 .. Cardinality(Tokens) : Under(send, n) BY <1>1 DEF PushInv, SendOK
  <1>3. n \in Nat BY TokensFinite
  <1>4. Len(send.tokens) = n BY <1>2, <1>3, LenOfRange DEF Under
  <1>5. Blamed(send.next) \in Tokens BY <1>2 DEF Under, Blamed
  <1>6. send.results[send.next] = "dead" => fcm[Blamed(send.next)] = "dead"
    BY <1>2 DEF Under, Blamed, Prune
  <1> QED BY <1>2, <1>4, <1>5, <1>6

LEMMA PruneStep == ASSUME PushInv, Prune PROVE PushInv'
  <1>1. PICK n \in 1 .. Cardinality(Tokens) :
          Under(send, n) /\ Len(send.tokens) = n /\ Blamed(send.next) \in Tokens
    BY PruneFacts
  <1>2. owner' \in [Tokens -> MaybeUser]
    <2>1. owner \in [Tokens -> MaybeUser] /\ NoUser \in MaybeUser
      BY DEF PushInv, RegistryOK, MaybeUser
    <2> QED BY <1>1, <2>1 DEF Prune
  <1>3. SendOK'
    <2>1. CASE send.next = n
      <3>1. send' = NoSend BY <1>1, <2>1 DEF Prune
      <3> QED BY <3>1 DEF SendOK, NoSend
    <2>2. CASE send.next # n
      <3>1. send' = [send EXCEPT !.next = @ + 1] BY <1>1, <2>2 DEF Prune
      <3>2. send.next + 1 \in 1 .. n BY <1>1, <2>2, TokensFinite DEF Under
      <3>3. /\ send'.tokens = send.tokens /\ send'.results = send.results
            /\ send'.next = send.next + 1 /\ DOMAIN send' = DOMAIN send
        BY <1>1, <3>1 DEF Under
      <3>4. Under(send, n)' BY <1>1, <3>2, <3>3 DEF Under, Prune
      <3> QED BY <3>4 DEF SendOK
    <2> QED BY <2>1, <2>2
  <1> QED BY <1>2, <1>3, ServerStep DEF Prune, PushInv, RegistryOK

---------------------------------------------------------------------------

LEMMA PushStart == PushInit => PushInv
  <1> SUFFICES ASSUME PushInit PROVE PushInv
    OBVIOUS
  <1>1. RegistryOK BY DEF PushInit, RegistryOK, Phases
  <1>2. page \in PageStates /\ Listens BY DEF PushInit, PageStates, Listens, MaybeToken
  <1>3. SendOK BY DEF PushInit, SendOK
  <1> QED BY <1>1, <1>2, <1>3 DEF PushInv

LEMMA PushNextInv == PushInv /\ [PushNext]_<<sessionVars, pushVars>> => PushInv'
  <1> SUFFICES ASSUME PushInv, [PushNext]_<<sessionVars, pushVars>> PROVE PushInv'
    OBVIOUS
  <1>1. CASE UNCHANGED pushVars
    <2>1. UNCHANGED <<owner, fcm, page, posts, deletes, send>> BY <1>1 DEF pushVars
    <2>2. SendOK' BY <2>1, SendStays DEF PushInv
    <2> QED BY <2>1, <2>2, ServerStep DEF PushInv, RegistryOK
  <1>2. CASE PushOnAuth
    BY <1>2, PushOnAuthStep
  <1>3. CASE PushStep
    <2>1. CASE AnswerPermission \/ RegistrationError \/ Left BY <2>1, PageStep
    <2>2. CASE Registration BY <2>2, RegistrationStep
    <2>3. CASE Rotate BY <2>3, RotateStep
    <2>4. ASSUME NEW t \in Tokens, (\E u \in Users : OtherDevice(u, t)) \/ Uninstall(t)
          PROVE  PushInv'
      BY <2>4, OtherDeviceStep
    <2>5. CASE (\E q \in posts : Register(q)) \/ (\E q \in deletes : Deregister(q))
      BY <2>5, RegistryStep
    <2>6. ASSUME NEW u \in Users, SendToUser(u) PROVE PushInv'
      BY <2>6, SendStep
    <2>7. CASE Multicast BY <2>7, MulticastStep
    <2>8. CASE Prune BY <2>8, PruneStep
    <2> QED BY <1>3, <2>1, <2>2, <2>3, <2>4, <2>5, <2>6, <2>7, <2>8 DEF PushStep
  <1> QED BY <1>1, <1>2, <1>3 DEF PushNext

\* push-client.js has listeners for whoever is signed in: detachListeners clears its flag
\* in the turn of the sign-out, before the removal is awaited, so the next sign-in
\* attaches its own.
THEOREM ListensSafe == PushSpec => []Listens
  <1>1. PushInv => Listens BY DEF PushInv
  <1> QED BY <1>1, PushStart, PushNextInv, PTL DEF PushSpec

\* The row of a token that works goes by a DELETE of its owner only: deleteByTokenAndUserId
\* checks the owner, and pruneDeadTokens pairs each result with its own token.
THEOREM RowsSafe == PushSpec => RowsKept
  <1>1. PushInv /\ [PushNext]_<<sessionVars, pushVars>> =>
          [\A t \in Tokens :
             (owner[t] # NoUser /\ owner'[t] = NoUser /\ fcm[t] # "dead") =>
               [by |-> owner[t], token |-> t] \in deletes \ deletes']_<<sessionVars, pushVars>>
    <2> SUFFICES ASSUME PushInv, PushNext, NEW t \in Tokens,
                        owner[t] # NoUser, owner'[t] = NoUser, fcm[t] # "dead"
                 PROVE  [by |-> owner[t], token |-> t] \in deletes \ deletes'
      OBVIOUS
    <2>0. owner \in [Tokens -> MaybeUser] /\ posts \subseteq Requests /\ deletes \subseteq Requests
      BY DEF PushInv, RegistryOK
    <2>1. ~UNCHANGED owner OBVIOUS
    <2>2. (\E q \in posts : Register(q)) \/ (\E q \in deletes : Deregister(q)) \/ Prune
      BY <2>1 DEF PushNext, PushStep, pushVars, PushOnAuth, AnswerPermission, Registration,
         RegistrationError, Rotate, Left, OtherDevice, Uninstall, SendToUser, Multicast
    <2>3. ASSUME NEW q \in posts, Register(q) PROVE FALSE
      BY <2>0, <2>3, SessionAssumption DEF Register, Requests
    <2>4. ASSUME NEW q \in deletes, Deregister(q)
          PROVE  [by |-> owner[t], token |-> t] \in deletes \ deletes'
      <3>1. q.token = t /\ q.by = owner[t] BY <2>0, <2>1, <2>4 DEF Deregister
      <3>2. q = [by |-> owner[t], token |-> t] BY <2>0, <3>1 DEF Requests
      <3> QED BY <2>4, <3>2 DEF Deregister
    <2>5. CASE Prune
      <3>1. Blamed(send.next) = t /\ send.results[send.next] = "dead"
        BY <2>0, <2>1, <2>5, PruneFacts DEF Prune
      <3> QED BY <2>5, <3>1, PruneFacts
    <2> QED BY <2>2, <2>3, <2>4, <2>5
  <1> QED BY <1>1, PushStart, PushNextInv, PTL DEF PushSpec, RowsKept

\* The index of pruneDeadTokens never leaves the list the results are about, for any
\* number of tokens a user has.
LEMMA PushInvTypes == PushInv => PushTypeOK
  <1> SUFFICES ASSUME PushInv PROVE PushTypeOK
    OBVIOUS
  <1>1. /\ send.next \in 1 .. Cardinality(Tokens) + 1
        /\ Len(send.results) \in {0, Len(send.tokens)}
        /\ \A i \in DOMAIN send.tokens : send.tokens[i] \in Tokens
        /\ \A i \in DOMAIN send.results : send.results[i] \in Results
    <2>1. CASE send = NoSend
      <3>1. send.next = 1 /\ send.results = <<>> /\ send.tokens = <<>> BY <2>1 DEF NoSend
      <3>2. Len(<<>>) = 0 /\ DOMAIN <<>> = {} OBVIOUS
      <3> QED BY <3>1, <3>2, TokensFinite
    <2>2. ASSUME NEW n \in 1 .. Cardinality(Tokens), Under(send, n)
          PROVE  /\ send.next \in 1 .. Cardinality(Tokens) + 1
                 /\ Len(send.results) \in {0, Len(send.tokens)}
                 /\ \A i \in DOMAIN send.tokens : send.tokens[i] \in Tokens
                 /\ \A i \in DOMAIN send.results : send.results[i] \in Results
      <3>1. n \in Nat /\ Len(send.tokens) = n BY <2>2, TokensFinite, LenOfRange DEF Under
      <3>2. CASE send.results = <<>> BY <2>2, <3>1, <3>2, TokensFinite DEF Under
      <3>3. CASE send.results \in [1 .. n -> Results]
        <4>1. Len(send.results) = n BY <3>1, <3>3, LenOfRange
        <4> QED BY <2>2, <3>1, <3>3, <4>1, TokensFinite DEF Under
      <3> QED BY <2>2, <3>2, <3>3 DEF Under
    <2> QED BY <2>1, <2>2 DEF PushInv, SendOK
  <1> QED BY <1>1 DEF PushInv, RegistryOK, PageStates, Phases, PushTypeOK

\* The registry, the client's state and the requests stay well formed, and a result
\* always stands for a token, however many tokens a user has.
THEOREM PushTypeSafe == PushSpec => []PushTypeOK
  BY PushInvTypes, PushStart, PushNextInv, PTL DEF PushSpec

=============================================================================
