------------------------------- MODULE TermsGate -------------------------------
(***************************************************************************)
(* The terms gate (web/terms.js): on a sign-in it reads the version of the *)
(* terms the account has accepted, blocks the page when that is not the    *)
(* current one, and records the acceptance the user gives.                 *)
(*                                                                         *)
(* Nothing covers the page while the first answer is awaited, and a lookup *)
(* that fails reveals it.  Requests are as in CompletionGate.              *)
(***************************************************************************)
EXTENDS AuthSession

CONSTANTS Versions,   \* versions of the terms an account may have accepted
          Current,    \* config.termsVersion; "" is no version: the gate never blocks
          NoVersion

ASSUME TermsAssumption == NoVersion \notin Versions /\ Current \in Versions \cup {""}

VARIABLES accepted,     \* backend, per user: termsAcceptedVersion
          st,           \* the script's state
          wasIn,        \* its wasSignedIn
          lookups,      \* GET /me in flight
          accepts,      \* PATCH /me/lifecycle in flight
          ground        \* history: the ground of st.needs, as in CompletionGate

termsVars == <<accepted, st, wasIn, lookups, accepts, ground>>

MaybeVersion == Versions \cup {NoVersion}
TermsRequests == [by : MaybeUser, session : 1 .. MaxChanges + 1,
                  got : {"sent", "failed", "empty"} \cup MaybeVersion]

TermsTypeOK ==
  /\ accepted \in [Users -> MaybeVersion]
  /\ st \in [signedIn : BOOLEAN, needs : BOOLEAN, submitting : BOOLEAN, error : BOOLEAN]
  /\ wasIn \in BOOLEAN
  /\ lookups \subseteq TermsRequests /\ accepts \subseteq TermsRequests
  /\ ground \in {"none", "read", "accepted", "open", "foreign"}

Reset == [signedIn |-> FALSE, needs |-> FALSE, submitting |-> FALSE, error |-> FALSE]

TermsInit ==
  /\ accepted \in [Users -> MaybeVersion]
  /\ st = Reset /\ wasIn = FALSE
  /\ lookups = {} /\ accepts = {}
  /\ ground = "none"

NeedsTerms(version) == Current # "" /\ version # Current

\* computeTermsView: the gate is shown, and its button waits for an answer.
GateShown == st.signedIn /\ st.needs
AcceptDisabled == GateShown /\ st.submitting

Judge(request, why) ==
  ground' = IF request.session = session /\ request.by = user /\ ground # "foreign"
            THEN why ELSE "foreign"

---------------------------------------------------------------------------

TermsOnAuth ==
  /\ wasIn' = (user' # NoUser)
  /\ IF wasIn /\ wasIn'
     THEN /\ ground' = IF user' = user THEN ground ELSE "foreign"
          /\ UNCHANGED <<st, lookups>>
     ELSE /\ st' = [Reset EXCEPT !.signedIn = wasIn']
          /\ lookups' = IF wasIn'
                        THEN lookups \cup {[by |-> current, session |-> session', got |-> "sent"]}
                        ELSE lookups
          /\ ground' = "none"
  /\ UNCHANGED <<accepted, accepts>>

ServeLookup(q) ==
  /\ q.got = "sent"
  /\ \E a \in {"failed"} \cup {accepted[u] : u \in {q.by} \cap Users} :
       lookups' = (lookups \ {q}) \cup {[q EXCEPT !.got = a]}
  /\ UNCHANGED <<accepted, st, wasIn, accepts, ground>>

\* checkTerms: only a version that was read can block.
ApplyLookup(q) ==
  /\ q.got # "sent"
  /\ lookups' = lookups \ {q}
  /\ st' = [st EXCEPT !.needs = q.got # "failed" /\ NeedsTerms(q.got)]
  /\ Judge(q, IF q.got = "failed" THEN "open" ELSE "read")
  /\ UNCHANGED <<accepted, wasIn, accepts>>

\* A click on the button of the visible gate.
Accept ==
  /\ GateShown /\ ~AcceptDisabled
  /\ st' = [st EXCEPT !.submitting = TRUE, !.error = FALSE]
  /\ accepts' = accepts \cup {[by |-> Token, session |-> session, got |-> "sent"]}
  /\ UNCHANGED <<accepted, wasIn, lookups, ground>>

\* The server records the version; the answer echoes the account, has no readable
\* body, or is lost.
ServeAccept(q) ==
  /\ q.got = "sent"
  /\ \/ /\ q.by # NoUser
        /\ accepted' = [accepted EXCEPT ![q.by] = Current]
        /\ \E a \in {Current, "empty", "failed"} :
             accepts' = (accepts \ {q}) \cup {[q EXCEPT !.got = a]}
     \/ /\ accepts' = (accepts \ {q}) \cup {[q EXCEPT !.got = "failed"]}
        /\ UNCHANGED accepted
  /\ UNCHANGED <<st, wasIn, lookups, ground>>

\* A slip: an acceptance that failed dismisses the gate too.
ApplyAcceptAnyway(q) ==
  /\ q.got # "sent"
  /\ accepts' = accepts \ {q}
  /\ st' = [st EXCEPT !.submitting = FALSE, !.error = q.got = "failed", !.needs = FALSE]
  /\ Judge(q, "accepted")
  /\ UNCHANGED <<accepted, wasIn, lookups>>

ApplyAccept(q) ==
  /\ q.got # "sent"
  /\ accepts' = accepts \ {q}
  /\ IF q.got = "failed"
     THEN st' = [st EXCEPT !.submitting = FALSE, !.error = TRUE] /\ UNCHANGED ground
     ELSE /\ st' = [st EXCEPT !.submitting = FALSE, !.error = FALSE,
                              !.needs = q.got # "empty" /\ NeedsTerms(q.got)]
          /\ Judge(q, "accepted")
  /\ UNCHANGED <<accepted, wasIn, lookups>>

TermsStep ==
  \/ \E q \in lookups : ServeLookup(q) \/ ApplyLookup(q)
  \/ Accept
  \/ \E q \in accepts : ServeAccept(q) \/ ApplyAccept(q)

TermsNext ==
  \/ Elsewhere /\ UNCHANGED termsVars
  \/ Deliver /\ TermsOnAuth
  \/ TermsStep /\ UNCHANGED sessionVars

---------------------------------------------------------------------------

\* As long as every answer was to the present sign-in and about its user, a page the
\* gate leaves free after an answer belongs to a user who has accepted the current
\* terms, and the button of a shown gate waits for an answer that is on its way.
TermsHonest ==
  /\ (st.signedIn /\ ~st.needs /\ ground \in {"read", "accepted"}) =>
       ~NeedsTerms(accepted[user])
  /\ st.submitting => accepts # {}

=============================================================================
