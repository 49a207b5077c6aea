------------------------------ MODULE VerifyBanner ------------------------------
(***************************************************************************)
(* The verify-your-email banner (web/verify-email.js): shown to a          *)
(* signed-in user whose address is not verified, with a button that asks   *)
(* the backend for another link and one that re-reads the user.            *)
(*                                                                         *)
(* Time is the seconds of the running cooldown: the interval that counts   *)
(* them down is the only thing that enables the button again.              *)
(***************************************************************************)
EXTENDS AuthSession, FiniteSets

CONSTANTS DefaultCooldown,  \* after a 202, and for a 429 without Retry-After
          OutageCooldown,   \* for a 503 without Retry-After: 5 s
          RetryAfters,      \* values of Retry-After the server sends, 0 for none
          MaxResends        \* bound: resends in flight at once

ASSUME BannerAssumption ==
  /\ DefaultCooldown \in Nat \ {0} /\ OutageCooldown \in Nat \ {0}
  /\ RetryAfters \subseteq Nat
  /\ MaxResends \in Nat \ {0}

VARIABLES verified,          \* Firebase, per user: the address is verified
          seen,              \* user.emailVerified of the SDK's user object
          hidden,            \* banner.hidden
          resendDisabled, refreshDisabled,
          cooldown,          \* cooldownRemaining()
          interval,          \* intervalId is set
          resends,           \* POST resend-verification in flight
          refreshes          \* refresh() in flight: the user object it reloads

bannerVars ==
  <<verified, seen, hidden, resendDisabled, refreshDisabled, cooldown, interval, resends, refreshes>>

Waits == RetryAfters \cup {DefaultCooldown, OutageCooldown}
Cooldowns == UNION {0 .. n : n \in Waits}

\* What interpretResendResponse makes of an answer: the seconds of the cooldown it
\* starts, if any, and whether it hides the banner.
Outcome(wait, hide) == [wait |-> wait, hide |-> hide]
Retryable == Outcome(0, FALSE)                      \* no token, no answer, 401, other errors
WaitFor(s, default) == IF s = 0 THEN default ELSE s
Throttled == {Outcome(WaitFor(s, d), FALSE) :       \* 429 and 503
                s \in RetryAfters, d \in {DefaultCooldown, OutageCooldown}}
Outcomes(by) ==
  IF by = NoUser THEN {Retryable}
  ELSE {Retryable, Outcome(0, TRUE)} \cup Throttled   \* 422 has no address to verify
       \cup {IF verified[by] THEN Outcome(0, TRUE) ELSE Outcome(DefaultCooldown, FALSE)}

BannerTypeOK ==
  /\ verified \in [Users -> BOOLEAN] /\ seen \in [Users -> BOOLEAN]
  /\ hidden \in BOOLEAN /\ resendDisabled \in BOOLEAN /\ refreshDisabled \in BOOLEAN
  /\ cooldown \in Cooldowns /\ interval \in BOOLEAN
  /\ resends \subseteq [by : MaybeUser, session : 1 .. MaxChanges + 1]
  /\ refreshes \subseteq [of : MaybeUser, reloaded : BOOLEAN]

BannerInit ==
  /\ verified \in [Users -> BOOLEAN] /\ seen \in [Users -> BOOLEAN]
  /\ \A u \in Users : seen[u] => verified[u]
  /\ hidden = TRUE /\ resendDisabled = FALSE /\ refreshDisabled = FALSE
  /\ cooldown = 0 /\ interval = FALSE
  /\ resends = {} /\ refreshes = {}

---------------------------------------------------------------------------

\* computeVerifyView: anything but a confirmed address shows the banner.
Shown(u, flags) == sdk = "loaded" /\ u # NoUser /\ ~flags[u]

ClearCooldown == cooldown' = 0 /\ interval' = FALSE

\* render: hiding the banner also forgets its cooldown.
Render(u, flags) ==
  /\ hidden' = ~Shown(u, flags)
  /\ IF Shown(u, flags)
     THEN UNCHANGED <<cooldown, interval, resendDisabled>>
     ELSE ClearCooldown /\ resendDisabled' = FALSE

\* A slip: a second cooldown takes over the interval of the first and none is set.
StartCooldownOnce(seconds) ==
  /\ cooldown' = seconds
  /\ resendDisabled' = (seconds > 0)
  /\ interval' = (seconds > 0 /\ ~interval)

\* startCooldown and the syncCooldown it ends with.
StartCooldown(seconds) ==
  /\ cooldown' = seconds
  /\ resendDisabled' = (seconds > 0)
  /\ interval' = (seconds > 0)

\* The interval's callback, one second on.
SyncCooldown ==
  /\ interval
  /\ cooldown' = cooldown - 1
  /\ resendDisabled' = (cooldown' > 0)
  /\ interval' = (cooldown' > 0)
  /\ UNCHANGED <<verified, seen, hidden, refreshDisabled, resends, refreshes>>

\* A sign-in brings a user object of its own, as fresh as Firebase's answer or
\* as old as the stored session.
BannerOnAuth ==
  /\ seen' \in {seen} \cup {[seen EXCEPT ![u] = verified[u]] : u \in {user'} \ {user, NoUser}}
  /\ Render(user', seen')
  /\ refreshDisabled' = (refreshDisabled /\ Shown(user', seen'))
  /\ UNCHANGED <<verified, resends, refreshes>>

Resend ==
  /\ ~hidden /\ ~resendDisabled
  /\ Cardinality(resends) < MaxResends
  /\ resendDisabled' = TRUE
  /\ resends' = resends \cup {[by |-> Token, session |-> session]}
  /\ UNCHANGED <<verified, seen, hidden, refreshDisabled, cooldown, interval, refreshes>>

\* The answer arrives; nothing asks whether it is to the present user.
ApplyResend(q) ==
  /\ resends' = resends \ {q}
  /\ \E o \in Outcomes(q.by) :
       \/ /\ o.hide
          /\ hidden' = TRUE /\ ClearCooldown /\ resendDisabled' = FALSE
       \/ /\ ~o.hide /\ o.wait > 0
          /\ StartCooldown(o.wait) /\ UNCHANGED hidden
       \/ /\ ~o.hide /\ o.wait = 0
          /\ resendDisabled' = (resendDisabled /\ cooldown > 0)
          /\ UNCHANGED <<hidden, cooldown, interval>>
  /\ UNCHANGED <<verified, seen, refreshDisabled, refreshes>>

Refresh ==
  /\ ~hidden /\ ~refreshDisabled
  /\ refreshDisabled' = TRUE
  /\ refreshes' = refreshes \cup {[of |-> user, reloaded |-> FALSE]}
  /\ UNCHANGED <<verified, seen, hidden, resendDisabled, cooldown, interval, resends>>

\* user.reload() brings the flag of that user object up to date, or fails; the
\* code goes on either way to the new token and the render.
Reload(r) ==
  /\ ~r.reloaded
  /\ refreshes' = (refreshes \ {r}) \cup {[r EXCEPT !.reloaded = TRUE]}
  /\ \/ r.of # NoUser /\ seen' = [seen EXCEPT ![r.of] = verified[r.of]]
     \/ UNCHANGED seen
  /\ UNCHANGED <<verified, hidden, resendDisabled, refreshDisabled, cooldown, interval, resends>>

EndRefresh(r) ==
  /\ r.reloaded
  /\ refreshes' = refreshes \ {r}
  /\ Render(user, seen) /\ refreshDisabled' = FALSE
  /\ UNCHANGED <<verified, seen, resends>>

\* The user follows the link of the mail.
Verify(u) ==
  /\ ~verified[u]
  /\ verified' = [verified EXCEPT ![u] = TRUE]
  /\ UNCHANGED <<seen, hidden, resendDisabled, refreshDisabled, cooldown, interval,
                 resends, refreshes>>

BannerStep ==
  \/ SyncCooldown \/ Resend \/ Refresh
  \/ \E q \in resends : ApplyResend(q)
  \/ \E r \in refreshes : Reload(r) \/ EndRefresh(r)
  \/ \E u \in Users : Verify(u)

BannerNext ==
  \/ Elsewhere /\ UNCHANGED bannerVars
  \/ Deliver /\ BannerOnAuth
  \/ BannerStep /\ UNCHANGED sessionVars

---------------------------------------------------------------------------

\* The resend button is never left disabled for good: something that enables it, a
\* running interval or an answer on its way, is there whenever it is disabled, also
\* when answers of two sign-ins cross; and no cooldown runs beside an enabled button.
ResendUsable ==
  /\ resendDisabled => interval \/ resends # {}
  /\ interval <=> cooldown > 0
  /\ cooldown > 0 => resendDisabled

=============================================================================
