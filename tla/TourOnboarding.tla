----------------------------- MODULE TourOnboarding -----------------------------
(***************************************************************************)
(* The product tour (web/tour.js), the record of its completion            *)
(* (web/onboarding.js) and the pending deep link (web/deep-link.js): three *)
(* scripts that hand state from page to page, and from tab to tab, in      *)
(* localStorage, while each tab keeps a copy of its own.                   *)
(*                                                                         *)
(* A tab runs one handler at a time and localStorage is read and written   *)
(* at once.  A PATCH is answered and applied in one step.                  *)
(***************************************************************************)
EXTENDS Naturals, Sequences

CONSTANTS Users, NoUser,
          Tabs,
          WalkOrder,     \* WALK_ORDER: the pages, in the order of the walkthrough
          AuthPages,     \* the pages with auth.js
          RoutePage,     \* the page with deep-link.js
          NoPage,
          MaxSteps       \* bound: steps of a page with a visible target

Pages == {WalkOrder[i] : i \in DOMAIN WalkOrder}

ASSUME TourAssumption ==
  /\ NoUser \notin Users
  /\ AuthPages \subseteq Pages /\ RoutePage \in Pages /\ NoPage \notin Pages
  /\ \A i, j \in DOMAIN WalkOrder : WalkOrder[i] = WalkOrder[j] => i = j
  /\ MaxSteps \in Nat \ {0}

VARIABLES configured,   \* config.firebase has an apiKey
          completed,    \* backend, per user: onboardingCompleted
          signed,       \* the Firebase session of the browser
          firstRun,     \* localStorage osk.tour.firstrun.v1
          parked,       \* localStorage osk.tour.progress.v1
          pendingSync,  \* localStorage osk.onboarding.pendingsync.v1
          route,        \* localStorage osk.pushDeepLinkPendingRoute: a page
          tab,          \* per tab: the page, what its scripts wait for, the tour shown
          patches,      \* PATCH /me/lifecycle in flight
          autoStarts,   \* history: tours started unasked, up to 2
          ended,        \* history: a tour was finished
          left          \* history: a tab left its page while it waited

storage == <<firstRun, parked, pendingSync, route>>
vars == <<configured, completed, signed, storage, tab, patches, autoStarts, ended, left>>

MaybeUser == Users \cup {NoUser}
NoTour == [page |-> NoPage, step |-> 0, paused |-> FALSE]
Progress == [page : Pages, step : 0 .. MaxSteps - 1, paused : BOOLEAN]
Closed == [page |-> NoPage, awaits |-> "nothing", asked |-> NoUser, step |-> 0, total |-> 0]

TypeOK ==
  /\ configured \in BOOLEAN
  /\ completed \in [Users -> BOOLEAN] /\ signed \in MaybeUser
  /\ firstRun \in BOOLEAN /\ pendingSync \in BOOLEAN
  /\ parked \in Progress \cup {NoTour}
  /\ route \in Pages \cup {NoPage}
  /\ tab \in [Tabs -> [page : Pages \cup {NoPage},
                       awaits : {"load", "route", "token", "state", "nothing"},
                       asked : MaybeUser,                            \* whose GET /me
                       step : 0 .. MaxSteps - 1, total : 0 .. MaxSteps]]
  /\ \A t \in Tabs : tab[t].total > 0 => tab[t].step < tab[t].total
  /\ patches \subseteq [tab : Tabs, by : Users, for : {"finish", "flush"}]
  /\ autoStarts \in 0 .. 2
  /\ ended \in BOOLEAN /\ left \in BOOLEAN

Init ==
  /\ configured \in BOOLEAN
  /\ completed \in [Users -> BOOLEAN] /\ signed \in MaybeUser
  /\ firstRun = FALSE /\ pendingSync = FALSE
  /\ parked = NoTour /\ route = NoPage
  /\ tab = [t \in Tabs |-> Closed]
  /\ patches = {}
  /\ autoStarts = 0 /\ ended = FALSE /\ left = FALSE

\* This page can consult the backend, and drives the auto-start in tour.js's place.
Owns(page) == configured /\ page \in AuthPages

Token == IF configured THEN signed ELSE NoUser
Request(t, for) == [tab : {t}, by : {Token} \cap Users, for : {for}]

Waiting(t) == {q \in patches : q.tab = t}

---------------------------------------------------------------------------
(* What handlers do, by the tab they run in                                *)

\* A page is loaded in place of another: what the other waited for is gone, whether or
\* not the backend had taken it.
Load(t, page) ==
  /\ tab' = [tab EXCEPT ![t] = IF page = NoPage THEN Closed
                               ELSE [Closed EXCEPT !.page = page, !.awaits = "load"]]
  /\ patches' = patches \ Waiting(t)
  /\ \E taken \in SUBSET Waiting(t) :
       completed' = [u \in Users |-> completed[u] \/ \E q \in taken : q.by = u]
  /\ left' = (left \/ Waiting(t) # {})

\* renderStep: the tour shows a step of `total' and its place is saved.
Show(t, step, total, awaits) ==
  /\ tab' = [tab EXCEPT ![t].step = step, ![t].total = total, ![t].awaits = awaits]
  /\ parked' = [page |-> tab[t].page, step |-> step, paused |-> FALSE]

\* startTour: without a step to show there is no tour.
StartTour(t, awaits) ==
  \E total \in 0 .. MaxSteps :
    IF total = 0 THEN tab' = [tab EXCEPT ![t].awaits = awaits] /\ UNCHANGED parked
    ELSE Show(t, 0, total, awaits)

\* A slip: the saved step is shown as it is.
ResumeTourUnclamped(t, awaits) ==
  \E total \in 0 .. MaxSteps :
    IF total = 0 THEN tab' = [tab EXCEPT ![t].awaits = awaits] /\ parked' = NoTour
    ELSE Show(t, parked.step, total, awaits)

\* resumeTour: a step beyond those visible now is the last of them.
ResumeTour(t, awaits) ==
  \E total \in 0 .. MaxSteps :
    IF total = 0 THEN tab' = [tab EXCEPT ![t].awaits = awaits] /\ parked' = NoTour
    ELSE Show(t, IF parked.step < total THEN parked.step ELSE total - 1, total, awaits)

\* decideOnLoad, from what is stored now.
Decision(page) ==
  CASE parked.page = page /\ ~parked.paused -> "resume"
    [] parked.page = page /\ parked.paused  -> "idle"
    [] parked.page # page /\ ~firstRun      -> "autostart"
    [] OTHER                                -> "idle"

AutoStart(t, awaits) ==
  /\ firstRun' = TRUE
  /\ autoStarts' = IF autoStarts < 2 THEN autoStarts + 1 ELSE 2
  /\ StartTour(t, awaits)

\* finishTour and the listener of osk:tour:finished: the completion is sent, or
\* queued when there is nobody to send it as.
FinishTour(t) ==
  /\ tab' = [tab EXCEPT ![t].step = 0, ![t].total = 0]
  /\ parked' = NoTour /\ firstRun' = TRUE
  /\ ended' = TRUE
  /\ IF Owns(tab[t].page) /\ Token # NoUser
     THEN patches' = patches \cup Request(t, "finish") /\ UNCHANGED pendingSync
     ELSE pendingSync' = (pendingSync \/ configured) /\ UNCHANGED patches

---------------------------------------------------------------------------
(* The browser                                                             *)

\* A link, a reload, a new tab, or its end.
Open(t, page) ==
  /\ tab[t].page # NoPage \/ page # NoPage
  /\ Load(t, page)
  /\ UNCHANGED <<configured, signed, storage, autoStarts, ended>>

SignInOrOut(u) ==
  /\ configured /\ u # signed /\ signed' = u
  /\ UNCHANGED <<configured, completed, storage, tab, patches, autoStarts, ended, left>>

---------------------------------------------------------------------------
(* DOMContentLoaded, and the onboarding plan                               *)

\* Where it owns the start, onboarding.js goes on once the session is known.
AfterLoad(page) == IF Owns(page) THEN "token" ELSE "nothing"

\* boot: resume, start unasked, or wait for onboarding.js where it owns the start.
\* The listener of deep-link.js, whose script comes after, runs next.
Boot(t) ==
  LET page == tab[t].page
      next == IF page = RoutePage THEN "route" ELSE AfterLoad(page)
  IN /\ tab[t].awaits = "load"
     /\ \/ /\ Decision(page) = "resume"
           /\ ResumeTour(t, next) /\ UNCHANGED <<firstRun, autoStarts>>
        \/ /\ Decision(page) = "autostart" /\ ~Owns(page)
           /\ AutoStart(t, next)
        \/ /\ Decision(page) = "idle" \/ (Decision(page) = "autostart" /\ Owns(page))
           /\ tab' = [tab EXCEPT ![t].awaits = next]
           /\ UNCHANGED <<parked, firstRun, autoStarts>>
     /\ UNCHANGED <<configured, completed, signed, pendingSync, route, patches, ended, left>>

\* consumePendingRoute, in the same event: a route is cleared, then followed, also
\* away from a tour that boot has just shown, unless it is this page.
ConsumeRoute(t) ==
  LET page == tab[t].page
  IN /\ tab[t].awaits = "route"
     /\ route' = NoPage
     /\ IF route \in {NoPage, page}
        THEN tab' = [tab EXCEPT ![t].awaits = AfterLoad(page)] /\ UNCHANGED <<patches, completed, left>>
        ELSE Load(t, route)
     /\ UNCHANGED <<configured, signed, firstRun, parked, pendingSync, autoStarts, ended>>

\* handleTapRoute: a tap while the page loads is kept for its end.
Tap(t, page) ==
  /\ tab[t].page = RoutePage /\ tab[t].awaits # "route"
  /\ IF tab[t].awaits = "load" THEN route' = page /\ UNCHANGED <<tab, patches, completed, left>>
     ELSE page # RoutePage /\ Load(t, page) /\ UNCHANGED route
  /\ UNCHANGED <<configured, signed, firstRun, parked, pendingSync, autoStarts, ended>>

\* runPlan, for what the backend said: whether the user has completed, or "unknown".
\* The stored state is read now, not when the question was asked.
RunPlan(t, decision, said) ==
  \/ /\ said = "unknown" /\ decision = "autostart"
     /\ AutoStart(t, "nothing") /\ UNCHANGED patches
  \/ /\ said # "unknown" /\ pendingSync
     /\ patches' = patches \cup Request(t, "flush")
     /\ firstRun' = TRUE /\ tab' = [tab EXCEPT ![t].awaits = "nothing"]
     /\ UNCHANGED <<parked, autoStarts>>
  \/ /\ said = "completed" /\ ~pendingSync
     /\ firstRun' = TRUE /\ tab' = [tab EXCEPT ![t].awaits = "nothing"]
     /\ UNCHANGED <<parked, patches, autoStarts>>
  \/ /\ said = "not completed" /\ ~pendingSync /\ decision = "autostart"
     /\ AutoStart(t, "nothing") /\ UNCHANGED patches
  \/ /\ decision # "autostart"
     /\ said = "unknown" \/ (said = "not completed" /\ ~pendingSync)
     /\ tab' = [tab EXCEPT ![t].awaits = "nothing"]
     /\ UNCHANGED <<firstRun, parked, patches, autoStarts>>

\* run: nobody signed in, or the question is asked.
ReadToken(t) ==
  /\ tab[t].awaits = "token"
  /\ \/ /\ Token # NoUser
        /\ tab' = [tab EXCEPT ![t].awaits = "state", ![t].asked = Token]
        /\ UNCHANGED <<firstRun, parked, patches, autoStarts>>
     \/ /\ Token = NoUser
        /\ RunPlan(t, Decision(tab[t].page), "unknown")
  /\ UNCHANGED <<configured, completed, signed, pendingSync, route, ended, left>>

\* A slip: the decision is taken with the question and kept for the answer.
AnswerStateStale(t) ==
  /\ tab[t].awaits = "state"
  /\ \E said \in {"unknown", IF completed[tab[t].asked] THEN "completed" ELSE "not completed"},
        decision \in {Decision(tab[t].page), "autostart"} :
       RunPlan(t, decision, said)
  /\ UNCHANGED <<configured, completed, signed, pendingSync, route, ended, left>>

AnswerState(t) ==
  /\ tab[t].awaits = "state"
  /\ \E said \in {"unknown", IF completed[tab[t].asked] THEN "completed" ELSE "not completed"} :
       RunPlan(t, Decision(tab[t].page), said)
  /\ UNCHANGED <<configured, completed, signed, pendingSync, route, ended, left>>

---------------------------------------------------------------------------
(* The tour                                                                *)

\* A tour is on the page, and no handler of the page's load is still to run.
Showing(t) == tab[t].total > 0 /\ tab[t].awaits # "route"

\* The "?" launcher.
Launch(t) ==
  /\ tab[t].page # NoPage /\ tab[t].awaits \notin {"load", "route"}
  /\ IF parked.page = tab[t].page /\ parked.paused
     THEN ResumeTour(t, tab[t].awaits) ELSE StartTour(t, tab[t].awaits)
  /\ UNCHANGED <<configured, completed, signed, firstRun, pendingSync, route, patches,
                 autoStarts, ended, left>>

\* goNext and goBack within the page, and a target that is gone when the page reflows.
Move(t, step) ==
  /\ Showing(t) /\ step \in 0 .. tab[t].total - 1
  /\ Show(t, step, tab[t].total, tab[t].awaits)
  /\ UNCHANGED <<configured, completed, signed, firstRun, pendingSync, route, patches,
                 autoStarts, ended, left>>

Following(page) ==
  {WalkOrder[i + 1] : i \in {j \in 1 .. Len(WalkOrder) - 1 : WalkOrder[j] = page}}

\* goNext on the last step of a page that is not the last: the next page is parked,
\* then opened.
NextPage(t, page) ==
  /\ Showing(t) /\ tab[t].step = tab[t].total - 1
  /\ page \in Following(tab[t].page)
  /\ parked' = [page |-> page, step |-> 0, paused |-> FALSE]
  /\ Load(t, page)
  /\ UNCHANGED <<configured, signed, firstRun, pendingSync, route, autoStarts, ended>>

\* goNext on the last page, or no target of the page is visible any more.
Finish(t) ==
  /\ Showing(t)
  /\ FinishTour(t)
  /\ UNCHANGED <<configured, completed, signed, route, autoStarts, left>>

Pause(t) ==
  /\ Showing(t)
  /\ parked' = [page |-> tab[t].page, step |-> tab[t].step, paused |-> TRUE]
  /\ tab' = [tab EXCEPT ![t].step = 0, ![t].total = 0]
  /\ UNCHANGED <<configured, completed, signed, firstRun, pendingSync, route, patches,
                 autoStarts, ended, left>>

---------------------------------------------------------------------------
(* The record                                                              *)

\* A slip: any answer clears the marker.
AnswerPatchUnqueued(q) ==
  /\ patches' = patches \ {q}
  /\ \/ completed' = [completed EXCEPT ![q.by] = TRUE] /\ pendingSync' = FALSE
     \/ pendingSync' = FALSE /\ UNCHANGED completed
  /\ UNCHANGED <<configured, signed, firstRun, parked, route, tab, autoStarts, ended, left>>

\* A success clears the marker; a failure queues what was finished and keeps what
\* was queued, also when only its answer was lost.
AnswerPatch(q) ==
  /\ patches' = patches \ {q}
  /\ \/ completed' = [completed EXCEPT ![q.by] = TRUE] /\ pendingSync' = FALSE
     \/ /\ completed' \in {completed, [completed EXCEPT ![q.by] = TRUE]}
        /\ pendingSync' = (pendingSync \/ q.for = "finish")
  /\ UNCHANGED <<configured, signed, firstRun, parked, route, tab, autoStarts, ended, left>>

TabStep(t) ==
  \/ \E page \in Pages \cup {NoPage} : Open(t, page)
  \/ \E page \in Pages : Tap(t, page) \/ NextPage(t, page)
  \/ Boot(t) \/ ConsumeRoute(t) \/ ReadToken(t) \/ AnswerState(t)
  \/ Launch(t) \/ Finish(t) \/ Pause(t)
  \/ \E step \in 0 .. MaxSteps - 1 : Move(t, step)

Next ==
  \/ \E t \in Tabs : TabStep(t)
  \/ \E u \in MaybeUser : SignInOrOut(u)
  \/ \E q \in patches : AnswerPatch(q)

Spec == Init /\ [][Next]_vars

---------------------------------------------------------------------------

\* "Auto-start ONCE": in a browser the tour starts unasked at most once, whichever
\* script starts it, however many tabs wait for an answer meanwhile.
AutoStartOnce == autoStarts <= 1

\* A completion is recorded, queued or on its way, whatever fails and in whatever
\* order the tabs' requests are answered, unless a tab was left while it waited.
HandedOver ==
  (configured /\ ended /\ ~left) =>
    pendingSync \/ patches # {} \/ \E u \in Users : completed[u]

=============================================================================
