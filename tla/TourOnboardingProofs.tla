-------------------------- MODULE TourOnboardingProofs --------------------------
(***************************************************************************)
(* For any pages, users, tabs and numbers of steps: the tour starts        *)
(* unasked once, a completion is not lost while no tab is left, and the    *)
(* step a tour shows is one of those that are visible.                     *)
(***************************************************************************)
EXTENDS TourOnboarding, TLAPS

---------------------------------------------------------------------------
(* Auto-start                                                              *)

\* Whoever starts the tour unasked has seen the flag unset, and sets it in the same
\* step; nothing unsets it.
StartInv == autoStarts = 0 \/ (autoStarts = 1 /\ firstRun)

LEMMA DecidesUnset == ASSUME NEW page, Decision(page) = "autostart" PROVE ~firstRun
  BY DEF Decision

LEMMA AutoStartStep ==
  ASSUME StartInv, NEW t, NEW awaits, ~firstRun, AutoStart(t, awaits)
  PROVE  StartInv'
  BY DEF StartInv, AutoStart

LEMMA StartQuiet ==
  ASSUME StartInv, UNCHANGED autoStarts, firstRun => firstRun'
  PROVE  StartInv'
  BY DEF StartInv

LEMMA RunPlanStarts ==
  ASSUME StartInv, NEW t, NEW said, RunPlan(t, Decision(tab[t].page), said)
  PROVE  StartInv'
  <1> DEFINE decision == Decision(tab[t].page)
  <1>1. CASE said = "unknown" /\ decision = "autostart" /\ AutoStart(t, "nothing")
    BY <1>1, DecidesUnset, AutoStartStep
  <1>2. CASE said = "not completed" /\ decision = "autostart" /\ AutoStart(t, "nothing")
    BY <1>2, DecidesUnset, AutoStartStep
  <1>3. CASE firstRun' = TRUE /\ UNCHANGED autoStarts
    BY <1>3, StartQuiet
  <1>4. CASE UNCHANGED <<firstRun, autoStarts>>
    BY <1>4, StartQuiet
  <1> QED BY <1>1, <1>2, <1>3, <1>4 DEF RunPlan

LEMMA BootStarts == ASSUME StartInv, NEW t, Boot(t) PROVE StartInv'
  <1> DEFINE page == tab[t].page
             next == IF page = RoutePage THEN "route" ELSE AfterLoad(page)
  <1>1. CASE Decision(page) = "autostart" /\ AutoStart(t, next)
    BY <1>1, DecidesUnset, AutoStartStep
  <1>2. CASE UNCHANGED <<firstRun, autoStarts>>
    BY <1>2, StartQuiet
  <1> QED BY <1>1, <1>2 DEF Boot

LEMMA TabStarts == ASSUME StartInv, NEW t, TabStep(t) PROVE StartInv'
  <1>1. CASE Boot(t)
    BY <1>1, BootStarts
  <1>2. CASE ReadToken(t)
    <2>1. CASE UNCHANGED <<firstRun, autoStarts>>
      BY <2>1, StartQuiet
    <2>2. CASE RunPlan(t, Decision(tab[t].page), "unknown")
      BY <2>2, RunPlanStarts
    <2> QED BY <1>2, <2>1, <2>2 DEF ReadToken
  <1>3. CASE AnswerState(t)
    BY <1>3, RunPlanStarts DEF AnswerState
  <1>4. CASE Finish(t)
    <2>1. firstRun' = TRUE /\ UNCHANGED autoStarts BY <1>4 DEF Finish, FinishTour
    <2> QED BY <2>1, StartQuiet
  <1>5. ASSUME NEW page, Open(t, page) \/ Tap(t, page) \/ NextPage(t, page)
        PROVE  StartInv'
    <2>1. UNCHANGED <<firstRun, autoStarts>> BY <1>5 DEF Open, Tap, NextPage, storage
    <2> QED BY <2>1, StartQuiet
  <1>6. ASSUME ConsumeRoute(t) \/ Launch(t) \/ Pause(t) \/ \E step \in 0 .. MaxSteps - 1 : Move(t, step)
        PROVE  StartInv'
    <2>1. UNCHANGED <<firstRun, autoStarts>> BY <1>6 DEF ConsumeRoute, Launch, Pause, Move
    <2> QED BY <2>1, StartQuiet
  <1> QED BY <1>1, <1>2, <1>3, <1>4, <1>5, <1>6 DEF TabStep

\* In a browser the tour starts unasked at most once, for any number of tabs, pages
\* and users: decideOnLoad is asked again when an answer is there, and the flag is
\* set in the turn that starts the tour.
THEOREM AutoStartSafe == Spec => []AutoStartOnce
  <1>1. Init => StartInv BY DEF Init, StartInv
  <1>2. StartInv /\ [Next]_vars => StartInv'
    <2> SUFFICES ASSUME StartInv, [Next]_vars PROVE StartInv'
      OBVIOUS
    <2>1. ASSUME NEW t \in Tabs, TabStep(t) PROVE StartInv'
      BY <2>1, TabStarts
    <2>2. ASSUME NEW u \in MaybeUser, SignInOrOut(u) PROVE StartInv'
      <3>1. UNCHANGED <<firstRun, autoStarts>> BY <2>2 DEF SignInOrOut, storage
      <3> QED BY <3>1, StartQuiet
    <2>3. ASSUME NEW q \in patches, AnswerPatch(q) PROVE StartInv'
      <3>1. UNCHANGED <<firstRun, autoStarts>> BY <2>3 DEF AnswerPatch
      <3> QED BY <3>1, StartQuiet
    <2>4. CASE UNCHANGED vars
      <3>1. UNCHANGED <<firstRun, autoStarts>> BY <2>4 DEF vars, storage
      <3> QED BY <3>1, StartQuiet
    <2> QED BY <2>1, <2>2, <2>3, <2>4 DEF Next
  <1>3. StartInv => AutoStartOnce BY DEF StartInv, AutoStartOnce
  <1> QED BY <1>1, <1>2, <1>3, PTL DEF Spec

---------------------------------------------------------------------------
(* The completion                                                          *)

Patches == [tab : Tabs, by : Users, for : {"finish", "flush"}]
Recorded == \E u \in Users : completed[u]

\* What was queued is sent again while the mark is set, and the mark goes when a
\* completion is recorded.
Backed == \A q \in patches : q.for = "flush" => pendingSync \/ Recorded

HandInv ==
  /\ completed \in [Users -> BOOLEAN] /\ signed \in MaybeUser
  /\ patches \subseteq Patches
  /\ Backed /\ HandedOver

\* A step that neither ends a tour nor answers a request.
LEMMA HandQuiet ==
  ASSUME HandInv, UNCHANGED <<configured, pendingSync, ended>>,
         completed' \in [Users -> BOOLEAN], Recorded => Recorded',
         signed' \in MaybeUser, patches' \subseteq Patches,
         \A q \in patches' \ patches : q.for = "flush" => pendingSync,
         left => left', left' \/ patches \subseteq patches'
  PROVE  HandInv'
  <1>1. Backed' BY DEF HandInv, Backed, Recorded
  <1>2. HandedOver' BY DEF HandInv, HandedOver, Recorded
  <1> QED BY <1>1, <1>2 DEF HandInv

LEMMA LoadHands ==
  ASSUME HandInv, NEW t, NEW page, Load(t, page)
  PROVE  /\ patches' \subseteq patches
         /\ left => left'
         /\ left' \/ patches \subseteq patches'
         /\ completed' \in [Users -> BOOLEAN] /\ (Recorded => Recorded')
  <1>1. PICK taken \in SUBSET Waiting(t) :
          completed' = [u \in Users |-> completed[u] \/ \E q \in taken : q.by = u]
    BY DEF Load
  <1>2. completed' \in [Users -> BOOLEAN]
    <2>1. \A u \in Users : completed'[u] \in BOOLEAN BY <1>1
    <2> QED BY <1>1, <2>1
  <1>3. \A u \in Users : completed[u] => completed'[u] BY <1>1
  <1> QED BY <1>2, <1>3 DEF Load, Recorded

LEMMA RequestType ==
  ASSUME HandInv, NEW t \in Tabs, NEW for \in {"finish", "flush"}
  PROVE  /\ Request(t, for) \subseteq Patches
         /\ \A q \in Request(t, for) : q.for = for
         /\ Token # NoUser => Request(t, for) # {}
  <1>1. Token # NoUser => Token \in Users BY DEF Token, HandInv, MaybeUser
  <1>2. ASSUME Token # NoUser PROVE Request(t, for) # {}
    <2>1. [tab |-> t, by |-> Token, for |-> for] \in Request(t, for) BY <1>1, <1>2 DEF Request
    <2> QED BY <2>1
  <1> QED BY <1>2 DEF Request, Patches

LEMMA RunPlanHands ==
  ASSUME HandInv, NEW t \in Tabs, NEW decision, NEW said, RunPlan(t, decision, said)
  PROVE  /\ patches \subseteq patches' /\ patches' \subseteq Patches
         /\ \A q \in patches' \ patches : q.for = "flush" => pendingSync
  <1>1. CASE pendingSync /\ patches' = patches \cup Request(t, "flush")
    BY <1>1, RequestType DEF HandInv
  <1>2. CASE UNCHANGED patches
    BY <1>2 DEF HandInv
  <1> QED BY <1>1, <1>2 DEF RunPlan

LEMMA FinishHands == ASSUME HandInv, NEW t \in Tabs, Finish(t) PROVE HandInv'
  <1>1. UNCHANGED <<configured, completed, signed, left>> BY DEF Finish
  <1>2. CASE Token # NoUser /\ patches' = patches \cup Request(t, "finish") /\ UNCHANGED pendingSync
    <2>1. patches' \subseteq Patches /\ patches' # {} BY <1>2, RequestType DEF HandInv
    <2>2. Backed' BY <1>1, <1>2, RequestType DEF HandInv, Backed, Recorded
    <2>3. HandedOver' BY <2>1 DEF HandedOver
    <2> QED BY <1>1, <2>1, <2>2, <2>3 DEF HandInv
  <1>3. CASE pendingSync' = (pendingSync \/ configured) /\ UNCHANGED patches
    <2>1. Backed' BY <1>1, <1>3 DEF HandInv, Backed, Recorded
    <2>2. HandedOver' BY <1>1, <1>3 DEF HandedOver
    <2> QED BY <1>1, <1>3, <2>1, <2>2 DEF HandInv
  <1> QED BY <1>2, <1>3 DEF Finish, FinishTour

LEMMA TabHands == ASSUME HandInv, NEW t \in Tabs, TabStep(t) PROVE HandInv'
  <1>0. patches \subseteq Patches /\ signed \in MaybeUser BY DEF HandInv
  <1>1. CASE Finish(t)
    BY <1>1, FinishHands
  <1>2. CASE ReadToken(t) \/ AnswerState(t)
    <2>1. UNCHANGED <<configured, completed, signed, pendingSync, ended, left>>
      BY <1>2 DEF ReadToken, AnswerState
    <2>2. /\ patches \subseteq patches' /\ patches' \subseteq Patches
          /\ \A q \in patches' \ patches : q.for = "flush" => pendingSync
      BY <1>0, <1>2, RunPlanHands DEF ReadToken, AnswerState
    <2> QED BY <1>0, <2>1, <2>2, HandQuiet DEF HandInv, Recorded
  <1>3. ASSUME NEW page, Open(t, page) \/ Tap(t, page) \/ NextPage(t, page)
        PROVE  HandInv'
    <2>1. UNCHANGED <<configured, signed, pendingSync, ended>>
      BY <1>3 DEF Open, Tap, NextPage, storage
    <2>2. (\E p \in {page} : Load(t, p)) \/ UNCHANGED <<patches, completed, left>>
      BY <1>3 DEF Open, Tap, NextPage
    <2>3. /\ patches' \subseteq patches /\ (left => left') /\ (left' \/ patches \subseteq patches')
          /\ completed' \in [Users -> BOOLEAN] /\ (Recorded => Recorded')
      BY <2>2, LoadHands DEF HandInv, Recorded
    <2> QED BY <1>0, <2>1, <2>3, HandQuiet
  <1>4. CASE ConsumeRoute(t)
    <2>1. UNCHANGED <<configured, signed, pendingSync, ended>>
      BY <1>4 DEF ConsumeRoute
    <2>2. (\E p \in {route} : Load(t, p)) \/ UNCHANGED <<patches, completed, left>>
      BY <1>4 DEF ConsumeRoute
    <2>3. /\ patches' \subseteq patches /\ (left => left') /\ (left' \/ patches \subseteq patches')
          /\ completed' \in [Users -> BOOLEAN] /\ (Recorded => Recorded')
      BY <2>2, LoadHands DEF HandInv, Recorded
    <2> QED BY <1>0, <2>1, <2>3, HandQuiet
  <1>5. CASE Boot(t) \/ Launch(t) \/ Pause(t) \/ \E step \in 0 .. MaxSteps - 1 : Move(t, step)
    <2>1. UNCHANGED <<configured, completed, signed, pendingSync, patches, ended, left>>
      BY <1>5 DEF Boot, Launch, Pause, Move
    <2> QED BY <1>0, <2>1, HandQuiet DEF HandInv, Recorded
  <1> QED BY <1>1, <1>2, <1>3, <1>4, <1>5 DEF TabStep

LEMMA PatchHands == ASSUME HandInv, NEW q \in patches, AnswerPatch(q) PROVE HandInv'
  <1>1. q \in Patches /\ q.by \in Users /\ completed \in [Users -> BOOLEAN]
    BY DEF HandInv, Patches
  <1>2. UNCHANGED <<configured, signed, ended, left>> /\ patches' \subseteq patches
    BY DEF AnswerPatch
  <1>3. completed' \in [Users -> BOOLEAN] /\ (Recorded => Recorded')
    BY <1>1 DEF AnswerPatch, Recorded
  <1>4. Recorded' \/ pendingSync' \/ (q.for = "flush" /\ ~pendingSync)
    <2>1. CASE completed' = [completed EXCEPT ![q.by] = TRUE]
      <3>1. completed'[q.by] BY <1>1, <2>1
      <3> QED BY <1>1, <3>1 DEF Recorded
    <2>2. CASE UNCHANGED completed /\ pendingSync' = (pendingSync \/ q.for = "finish")
      <3>1. q.for \in {"finish", "flush"} BY <1>1 DEF Patches
      <3> QED BY <2>2, <3>1
    <2> QED BY <2>1, <2>2 DEF AnswerPatch
  <1>5. CASE Recorded' \/ pendingSync'
    <2>1. Backed' /\ HandedOver' BY <1>5 DEF Backed, HandedOver, Recorded
    <2> QED BY <1>2, <1>3, <2>1 DEF HandInv
  <1>6. CASE q.for = "flush" /\ ~pendingSync
    <2>1. Recorded BY <1>6 DEF HandInv, Backed
    <2> QED BY <1>3, <1>5, <2>1
  <1> QED BY <1>4, <1>5, <1>6

\* A completion is recorded, queued or on its way, in whatever order the tabs' requests
\* are answered and whichever fail, unless a tab was left while it waited: onboarding.js
\* takes the mark down for a success only, and puts it up in the turn of a failure.
THEOREM HandOverSafe == Spec => []HandedOver
  <1>1. Init => HandInv BY DEF Init, HandInv, Backed, HandedOver, Patches
  <1>2. HandInv /\ [Next]_vars => HandInv'
    <2> SUFFICES ASSUME HandInv, [Next]_vars PROVE HandInv'
      OBVIOUS
    <2>0. patches \subseteq Patches /\ signed \in MaybeUser BY DEF HandInv
    <2>1. ASSUME NEW t \in Tabs, TabStep(t) PROVE HandInv'
      BY <2>1, TabHands
    <2>2. ASSUME NEW u \in MaybeUser, SignInOrOut(u) PROVE HandInv'
      <3>1. UNCHANGED <<configured, completed, pendingSync, patches, ended, left>> /\ signed' = u
        BY <2>2 DEF SignInOrOut, storage
      <3> QED BY <2>0, <3>1, HandQuiet DEF HandInv, Recorded
    <2>3. ASSUME NEW q \in patches, AnswerPatch(q) PROVE HandInv'
      BY <2>3, PatchHands
    <2>4. CASE UNCHANGED vars
      <3>1. UNCHANGED <<configured, completed, signed, pendingSync, patches, ended, left>>
        BY <2>4 DEF vars, storage
      <3> QED BY <2>0, <3>1, HandQuiet DEF HandInv, Recorded
    <2> QED BY <2>1, <2>2, <2>3, <2>4 DEF Next
  <1>3. HandInv => HandedOver BY DEF HandInv
  <1> QED BY <1>1, <1>2, <1>3, PTL DEF Spec

---------------------------------------------------------------------------
(* Types                                                                   *)

Waits == {"load", "route", "token", "state", "nothing"}
TabStates == [page : Pages \cup {NoPage}, awaits : Waits, asked : MaybeUser,
              step : 0 .. MaxSteps - 1, total : 0 .. MaxSteps]

\* A tab without a page waits for nothing and shows nothing.
TabOK(r) ==
  /\ r \in TabStates
  /\ r.total > 0 => r.step < r.total
  /\ r.page = NoPage => r.awaits = "nothing" /\ r.total = 0

TabsOK == tab = [t \in Tabs |-> tab[t]] /\ \A t \in Tabs : TabOK(tab[t])
StorageOK ==
  /\ firstRun \in BOOLEAN /\ pendingSync \in BOOLEAN
  /\ parked \in Progress \cup {NoTour}
  /\ route \in Pages \cup {NoPage}
RestOK ==
  /\ configured \in BOOLEAN
  /\ completed \in [Users -> BOOLEAN] /\ signed \in MaybeUser
  /\ patches \subseteq Patches
  /\ autoStarts \in 0 .. 2
  /\ ended \in BOOLEAN /\ left \in BOOLEAN

TypeInv == TabsOK /\ StorageOK /\ RestOK

LEMMA TypeInvTypes == TypeInv => TypeOK
  <1> SUFFICES ASSUME TypeInv PROVE TypeOK
    OBVIOUS
  <1>1. tab \in [Tabs -> TabStates] BY DEF TypeInv, TabsOK, TabOK
  <1>2. \A t \in Tabs : tab[t].total > 0 => tab[t].step < tab[t].total
    BY DEF TypeInv, TabsOK, TabOK
  <1> QED BY <1>1, <1>2 DEF TypeInv, StorageOK, RestOK, TypeOK, TabStates, Waits, Patches

\* What becomes of the tabs when one of them is given another state.
LEMMA PutTab ==
  ASSUME TabsOK, NEW t \in Tabs, NEW r, TabOK(r), tab' = [tab EXCEPT ![t] = r]
  PROVE  TabsOK'
  <1>1. \A s \in Tabs : tab'[s] = IF s = t THEN r ELSE tab[s] BY DEF TabsOK
  <1>2. \A s \in Tabs : TabOK(tab'[s]) BY <1>1 DEF TabsOK
  <1>3. tab' = [s \in Tabs |-> tab'[s]] BY DEF TabsOK
  <1> QED BY <1>2, <1>3 DEF TabsOK, TabOK

LEMMA AwaitType ==
  ASSUME TabsOK, NEW t \in Tabs, NEW awaits \in Waits, tab[t].page # NoPage,
         tab' = [tab EXCEPT ![t].awaits = awaits]
  PROVE  TabsOK'
  <1> DEFINE r == [tab[t] EXCEPT !.awaits = awaits]
  <1>1. TabOK(r) BY DEF TabsOK, TabOK, TabStates
  <1>2. tab' = [tab EXCEPT ![t] = r] OBVIOUS
  <1> HIDE DEF r
  <1> QED BY <1>1, <1>2, PutTab

LEMMA EndType ==
  ASSUME TabsOK, NEW t \in Tabs, tab' = [tab EXCEPT ![t].step = 0, ![t].total = 0]
  PROVE  TabsOK'
  <1> DEFINE r == [tab[t] EXCEPT !.step = 0, !.total = 0]
  <1>1. TabOK(r) BY TourAssumption DEF TabsOK, TabOK, TabStates
  <1>2. tab' = [tab EXCEPT ![t] = r] BY DEF TabsOK
  <1> HIDE DEF r
  <1> QED BY <1>1, <1>2, PutTab

LEMMA LoadType ==
  ASSUME TabsOK, RestOK, NEW t \in Tabs, NEW page \in Pages \cup {NoPage}, Load(t, page)
  PROVE  /\ TabsOK' /\ patches' \subseteq Patches /\ left' \in BOOLEAN
         /\ completed' \in [Users -> BOOLEAN]
  <1> DEFINE r == IF page = NoPage THEN Closed ELSE [Closed EXCEPT !.page = page, !.awaits = "load"]
  <1>0. 0 \in 0 .. MaxSteps - 1 /\ 0 \in 0 .. MaxSteps BY TourAssumption
  <1>1. TabOK(r)
    <2>1. CASE page = NoPage BY <1>0, <2>1 DEF TabOK, TabStates, Closed, Waits, MaybeUser
    <2>2. CASE page \in Pages /\ page # NoPage
      BY <1>0, <2>2 DEF TabOK, TabStates, Closed, Waits, MaybeUser
    <2> QED BY <2>1, <2>2
  <1>2. tab' = [tab EXCEPT ![t] = r] BY DEF Load
  <1> HIDE DEF r
  <1>3. TabsOK' BY <1>1, <1>2, PutTab
  <1>4. PICK taken \in SUBSET Waiting(t) :
          completed' = [u \in Users |-> completed[u] \/ \E q \in taken : q.by = u]
    BY DEF Load
  <1>5. \A u \in Users : completed'[u] \in BOOLEAN BY <1>4 DEF RestOK
  <1>6. completed' \in [Users -> BOOLEAN] BY <1>4, <1>5
  <1> QED BY <1>3, <1>6 DEF Load, RestOK

LEMMA ShowType ==
  ASSUME TabsOK, NEW t \in Tabs, NEW step \in Nat, NEW total \in 1 .. MaxSteps, step < total,
         NEW awaits \in Waits, tab[t].page # NoPage, Show(t, step, total, awaits)
  PROVE  TabsOK' /\ parked' \in Progress \cup {NoTour}
  <1> DEFINE r == [tab[t] EXCEPT !.step = step, !.total = total, !.awaits = awaits]
  <1>0. step \in 0 .. MaxSteps - 1 BY TourAssumption
  <1>1. TabOK(r)
    <2>1. tab[t] \in TabStates BY DEF TabsOK, TabOK
    <2>2. r \in TabStates
      <3>1. total \in 0 .. MaxSteps BY TourAssumption
      <3> QED BY <1>0, <2>1, <3>1 DEF TabStates
    <2>3. r.total = total /\ r.step = step /\ r.page = tab[t].page BY <2>1 DEF TabStates
    <2> HIDE DEF r
    <2> QED BY <2>2, <2>3 DEF TabOK
  <1>2. tab' = [tab EXCEPT ![t] = r] BY DEF Show, TabsOK
  <1>3. tab[t].page \in Pages BY DEF TabsOK, TabOK, TabStates
  <1>4. parked' \in Progress BY <1>0, <1>3 DEF Show, Progress
  <1> HIDE DEF r
  <1> QED BY <1>1, <1>2, <1>4, PutTab

LEMMA StartType ==
  ASSUME TabsOK, StorageOK, NEW t \in Tabs, NEW awaits \in Waits, tab[t].page # NoPage,
         StartTour(t, awaits)
  PROVE  TabsOK' /\ parked' \in Progress \cup {NoTour}
  <1>1. PICK total \in 0 .. MaxSteps :
          IF total = 0 THEN tab' = [tab EXCEPT ![t].awaits = awaits] /\ UNCHANGED parked
          ELSE Show(t, 0, total, awaits)
    BY DEF StartTour
  <1>2. CASE total = 0 BY <1>1, <1>2, AwaitType DEF StorageOK
  <1>3. CASE total # 0
    <2>1. total \in 1 .. MaxSteps /\ 0 \in Nat /\ 0 < total BY <1>3, TourAssumption
    <2>2. Show(t, 0, total, awaits) BY <1>1, <1>3
    <2> QED BY <2>1, <2>2, ShowType
  <1> QED BY <1>2, <1>3

\* A step saved when more was visible is brought back into range.
LEMMA ResumeType ==
  ASSUME TabsOK, StorageOK, NEW t \in Tabs, NEW awaits \in Waits, tab[t].page # NoPage,
         parked.page = tab[t].page, ResumeTour(t, awaits)
  PROVE  TabsOK' /\ parked' \in Progress \cup {NoTour}
  <1>1. PICK total \in 0 .. MaxSteps :
          IF total = 0 THEN tab' = [tab EXCEPT ![t].awaits = awaits] /\ parked' = NoTour
          ELSE Show(t, IF parked.step < total THEN parked.step ELSE total - 1, total, awaits)
    BY DEF ResumeTour
  <1>2. CASE total = 0 BY <1>1, <1>2, AwaitType
  <1>3. CASE total # 0
    <2> DEFINE step == IF parked.step < total THEN parked.step ELSE total - 1
    <2>1. total \in 1 .. MaxSteps BY <1>3, TourAssumption
    <2>2. parked.step \in Nat BY TourAssumption DEF StorageOK, Progress, NoTour
    <2>3. step \in Nat /\ step < total BY <2>1, <2>2
    <2>4. Show(t, step, total, awaits) BY <1>1, <1>3
    <2> HIDE DEF step
    <2> QED BY <2>1, <2>3, <2>4, ShowType
  <1> QED BY <1>2, <1>3

LEMMA AutoStartType ==
  ASSUME TypeInv, NEW t \in Tabs, NEW awaits \in Waits, tab[t].page # NoPage,
         AutoStart(t, awaits)
  PROVE  /\ TabsOK' /\ parked' \in Progress \cup {NoTour}
         /\ firstRun' \in BOOLEAN /\ autoStarts' \in 0 .. 2
  <1>1. TabsOK' /\ parked' \in Progress \cup {NoTour} BY StartType DEF TypeInv, AutoStart
  <1>2. autoStarts' \in 0 .. 2 BY DEF AutoStart, TypeInv, RestOK
  <1> QED BY <1>1, <1>2 DEF AutoStart

LEMMA RequestsTyped ==
  ASSUME RestOK, NEW t \in Tabs, NEW for \in {"finish", "flush"}
  PROVE  Request(t, for) \subseteq Patches
  BY DEF Request, Patches

LEMMA RunPlanType ==
  ASSUME TypeInv, NEW t \in Tabs, tab[t].page # NoPage, NEW decision, NEW said,
         RunPlan(t, decision, said)
  PROVE  /\ TabsOK' /\ parked' \in Progress \cup {NoTour}
         /\ firstRun' \in BOOLEAN /\ autoStarts' \in 0 .. 2 /\ patches' \subseteq Patches
  <1>0. "nothing" \in Waits BY DEF Waits
  <1>1. CASE AutoStart(t, "nothing") /\ UNCHANGED patches
    BY <1>0, <1>1, AutoStartType DEF TypeInv, RestOK
  <1>2. CASE /\ patches' \in {patches, patches \cup Request(t, "flush")}
             /\ firstRun' \in {firstRun, TRUE} /\ UNCHANGED <<parked, autoStarts>>
             /\ tab' = [tab EXCEPT ![t].awaits = "nothing"]
    <2>1. TabsOK' BY <1>0, <1>2, AwaitType DEF TypeInv
    <2>2. patches' \subseteq Patches BY <1>2, RequestsTyped DEF TypeInv, RestOK
    <2> QED BY <1>2, <2>1, <2>2 DEF TypeInv, StorageOK, RestOK
  <1> QED BY <1>1, <1>2 DEF RunPlan

LEMMA ReadTokenType == ASSUME TypeInv, NEW t \in Tabs, ReadToken(t) PROVE TypeInv'
  <1>1. tab[t].page # NoPage BY DEF ReadToken, TypeInv, TabsOK, TabOK
  <1>2. CASE /\ tab' = [tab EXCEPT ![t].awaits = "state", ![t].asked = Token]
             /\ UNCHANGED <<firstRun, parked, patches, autoStarts>>
    <2> DEFINE r == [tab[t] EXCEPT !.awaits = "state", !.asked = Token]
    <2>1. tab[t] \in TabStates /\ TabOK(tab[t]) BY DEF TypeInv, TabsOK, TabOK
    <2>2. Token \in MaybeUser BY DEF Token, TypeInv, RestOK, MaybeUser
    <2>3. r \in TabStates BY <2>1, <2>2 DEF TabStates, Waits
    <2>4. r.page = tab[t].page /\ r.step = tab[t].step /\ r.total = tab[t].total
      BY <2>1 DEF TabStates
    <2>5. tab' = [tab EXCEPT ![t] = r] BY <1>2 DEF TypeInv, TabsOK
    <2> HIDE DEF r
    <2>6. TabOK(r) BY <1>1, <2>1, <2>3, <2>4 DEF TabOK
    <2>7. TabsOK' BY <2>5, <2>6, PutTab DEF TypeInv
    <2> QED BY <1>2, <2>7 DEF ReadToken, TypeInv, StorageOK, RestOK
  <1>3. CASE RunPlan(t, Decision(tab[t].page), "unknown")
    BY <1>1, <1>3, RunPlanType DEF ReadToken, TypeInv, StorageOK, RestOK
  <1> QED BY <1>2, <1>3 DEF ReadToken

LEMMA AnswerStateType == ASSUME TypeInv, NEW t \in Tabs, AnswerState(t) PROVE TypeInv'
  <1>1. tab[t].page # NoPage BY DEF AnswerState, TypeInv, TabsOK, TabOK
  <1>2. PICK said : RunPlan(t, Decision(tab[t].page), said) BY DEF AnswerState
  <1> QED BY <1>1, <1>2, RunPlanType DEF AnswerState, TypeInv, StorageOK, RestOK

LEMMA BootType == ASSUME TypeInv, NEW t \in Tabs, Boot(t) PROVE TypeInv'
  <1> DEFINE page == tab[t].page
             next == IF page = RoutePage THEN "route" ELSE AfterLoad(page)
  <1>1. page # NoPage BY DEF Boot, TypeInv, TabsOK, TabOK
  <1>2. next \in Waits BY DEF Waits, AfterLoad
  <1>3. UNCHANGED <<configured, completed, signed, pendingSync, route, patches, ended, left>>
    BY DEF Boot
  <1>4. CASE Decision(page) = "resume" /\ ResumeTour(t, next) /\ UNCHANGED <<firstRun, autoStarts>>
    <2>1. parked.page = page BY <1>4 DEF Decision
    <2>2. ResumeTour(t, next) BY <1>4
    <2> HIDE DEF next
    <2>3. TabsOK' /\ parked' \in Progress \cup {NoTour}
      BY <1>1, <1>2, <2>1, <2>2, ResumeType DEF TypeInv
    <2> QED BY <1>3, <1>4, <2>3 DEF TypeInv, StorageOK, RestOK
  <1>5. CASE AutoStart(t, next)
    <2> HIDE DEF next
    <2> QED BY <1>1, <1>2, <1>3, <1>5, AutoStartType DEF TypeInv, StorageOK, RestOK
  <1>6. CASE tab' = [tab EXCEPT ![t].awaits = next] /\ UNCHANGED <<parked, firstRun, autoStarts>>
    <2> HIDE DEF next
    <2>1. TabsOK' BY <1>1, <1>2, <1>6, AwaitType DEF TypeInv
    <2> QED BY <1>3, <1>6, <2>1 DEF TypeInv, StorageOK, RestOK
  <1> QED BY <1>4, <1>5, <1>6 DEF Boot

\* A page is loaded: the link, a route that was kept, a tap, the next page of the tour.
LEMMA NavigateType ==
  ASSUME TypeInv, NEW t \in Tabs, NEW page \in Pages \cup {NoPage}, Load(t, page),
         UNCHANGED <<configured, signed, firstRun, pendingSync, autoStarts, ended>>,
         parked' \in Progress \cup {NoTour}, route' \in Pages \cup {NoPage}
  PROVE  TypeInv'
  BY LoadType DEF TypeInv, StorageOK, RestOK

LEMMA OpenType == ASSUME TypeInv, NEW t \in Tabs, NEW page \in Pages \cup {NoPage}, Open(t, page) PROVE TypeInv'
  BY NavigateType DEF Open, storage, TypeInv, StorageOK

LEMMA ConsumeType == ASSUME TypeInv, NEW t \in Tabs, ConsumeRoute(t) PROVE TypeInv'
  <1>1. CASE Load(t, route)
    BY <1>1, NavigateType DEF ConsumeRoute, TypeInv, StorageOK
  <1>2. CASE /\ tab' = [tab EXCEPT ![t].awaits = AfterLoad(tab[t].page)]
             /\ UNCHANGED <<patches, completed, left>>
    <2>1. tab[t].page # NoPage BY DEF ConsumeRoute, TypeInv, TabsOK, TabOK
    <2>2. AfterLoad(tab[t].page) \in Waits BY DEF AfterLoad, Waits
    <2>3. TabsOK' BY <1>2, <2>1, <2>2, AwaitType DEF TypeInv
    <2> QED BY <1>2, <2>3 DEF ConsumeRoute, TypeInv, StorageOK, RestOK
  <1> QED BY <1>1, <1>2 DEF ConsumeRoute

LEMMA TapType == ASSUME TypeInv, NEW t \in Tabs, NEW page \in Pages, Tap(t, page) PROVE TypeInv'
  <1>1. CASE Load(t, page) /\ UNCHANGED route
    BY <1>1, NavigateType DEF Tap, TypeInv, StorageOK
  <1>2. CASE route' = page /\ UNCHANGED <<tab, patches, completed, left>>
    BY <1>2 DEF Tap, TypeInv, TabsOK, TabOK, StorageOK, RestOK
  <1> QED BY <1>1, <1>2 DEF Tap

LEMMA NextPageType ==
  ASSUME TypeInv, NEW t \in Tabs, NEW page \in Pages, NextPage(t, page)
  PROVE  TypeInv'
  <1>1. 0 \in 0 .. MaxSteps - 1 BY TourAssumption
  <1>2. parked' \in Progress BY <1>1 DEF NextPage, Progress
  <1> QED BY <1>2, NavigateType DEF NextPage, TypeInv, StorageOK

\* The tour moves within its page.
LEMMA LaunchType == ASSUME TypeInv, NEW t \in Tabs, Launch(t) PROVE TypeInv'
  <1>1. tab[t].page # NoPage /\ tab[t].awaits \in Waits
    BY DEF Launch, TypeInv, TabsOK, TabOK, TabStates
  <1>2. TabsOK' /\ parked' \in Progress \cup {NoTour}
    <2>1. CASE parked.page = tab[t].page /\ ResumeTour(t, tab[t].awaits)
      BY <1>1, <2>1, ResumeType DEF TypeInv
    <2>2. CASE StartTour(t, tab[t].awaits)
      BY <1>1, <2>2, StartType DEF TypeInv
    <2> QED BY <2>1, <2>2 DEF Launch
  <1> QED BY <1>2 DEF Launch, TypeInv, StorageOK, RestOK

LEMMA ShowingFacts ==
  ASSUME TypeInv, NEW t \in Tabs, Showing(t)
  PROVE  /\ tab[t].page \in Pages /\ tab[t].page # NoPage /\ tab[t].awaits \in Waits
         /\ tab[t].total \in 1 .. MaxSteps
         /\ tab[t].step \in 0 .. MaxSteps - 1
  <1>1. tab[t] \in TabStates /\ TabOK(tab[t]) BY DEF TypeInv, TabsOK, TabOK
  <1>2. tab[t].total \in 0 .. MaxSteps BY <1>1 DEF TabStates
  <1>3. tab[t].total \in 1 .. MaxSteps BY <1>2, TourAssumption DEF Showing
  <1>4. tab[t].page # NoPage BY <1>1, <1>3 DEF TabOK
  <1> QED BY <1>1, <1>3, <1>4 DEF TabStates

LEMMA MoveType == ASSUME TypeInv, NEW t \in Tabs, NEW step, Move(t, step) PROVE TypeInv'
  <1>1. Showing(t) /\ step \in 0 .. tab[t].total - 1 BY DEF Move
  <1>2. step \in Nat /\ step < tab[t].total BY <1>1, ShowingFacts, TourAssumption
  <1>3. TabsOK' /\ parked' \in Progress \cup {NoTour}
    BY <1>1, <1>2, ShowingFacts, ShowType DEF Move, TypeInv
  <1> QED BY <1>3 DEF Move, TypeInv, StorageOK, RestOK

LEMMA PauseType == ASSUME TypeInv, NEW t \in Tabs, Pause(t) PROVE TypeInv'
  <1>1. Showing(t) BY DEF Pause
  <1>2. parked' \in Progress BY <1>1, ShowingFacts DEF Pause, Progress
  <1>3. TabsOK' BY EndType DEF Pause, TypeInv
  <1> QED BY <1>2, <1>3 DEF Pause, TypeInv, StorageOK, RestOK

LEMMA FinishType == ASSUME TypeInv, NEW t \in Tabs, Finish(t) PROVE TypeInv'
  <1>1. TabsOK' BY EndType DEF Finish, FinishTour, TypeInv
  <1>2. patches' \subseteq Patches /\ pendingSync' \in BOOLEAN
    BY RequestsTyped DEF Finish, FinishTour, TypeInv, StorageOK, RestOK
  <1> QED BY <1>1, <1>2 DEF Finish, FinishTour, TypeInv, StorageOK, RestOK

LEMMA AnswerPatchType == ASSUME TypeInv, NEW q \in patches, AnswerPatch(q) PROVE TypeInv'
  <1>1. patches' \subseteq Patches BY DEF AnswerPatch, TypeInv, RestOK
  <1>2. completed' \in [Users -> BOOLEAN] BY DEF AnswerPatch, TypeInv, RestOK
  <1>3. pendingSync' \in BOOLEAN BY DEF AnswerPatch, TypeInv, StorageOK
  <1> QED BY <1>1, <1>2, <1>3 DEF AnswerPatch, TypeInv, TabsOK, TabOK, StorageOK, RestOK

\* Whatever number of steps is visible when a tour is resumed, started or moved, on any
\* pages and tabs, the step shown is one of them; and every handler leaves what is
\* stored well formed.
THEOREM TypeSafe == Spec => []TypeOK
  <1>1. Init => TypeInv
    <2> SUFFICES ASSUME Init PROVE TypeInv
      OBVIOUS
    <2>1. 0 \in 0 .. MaxSteps - 1 /\ 0 \in 0 .. MaxSteps BY TourAssumption
    <2>2. TabOK(Closed) BY <2>1 DEF TabOK, TabStates, Closed, Waits, MaybeUser
    <2>3. TabsOK BY <2>2 DEF Init, TabsOK
    <2>4. StorageOK BY DEF Init, StorageOK
    <2>5. RestOK
      <3>1. autoStarts \in 0 .. 2 /\ patches \subseteq Patches BY DEF Init
      <3>2. ended \in BOOLEAN /\ left \in BOOLEAN BY DEF Init
      <3>3. /\ configured \in BOOLEAN /\ completed \in [Users -> BOOLEAN]
            /\ signed \in MaybeUser
        BY DEF Init
      <3> QED BY <3>1, <3>2, <3>3 DEF RestOK
    <2> QED BY <2>3, <2>4, <2>5 DEF TypeInv
  <1>2. TypeInv /\ [Next]_vars => TypeInv'
    <2> SUFFICES ASSUME TypeInv, [Next]_vars PROVE TypeInv'
      OBVIOUS
    <2>1. ASSUME NEW t \in Tabs, TabStep(t) PROVE TypeInv'
      BY <2>1, OpenType, TapType, NextPageType, BootType, ConsumeType, ReadTokenType,
         AnswerStateType, LaunchType, FinishType, PauseType, MoveType DEF TabStep
    <2>2. ASSUME NEW u \in MaybeUser, SignInOrOut(u) PROVE TypeInv'
      BY <2>2 DEF SignInOrOut, storage, TypeInv, TabsOK, TabOK, StorageOK, RestOK
    <2>3. ASSUME NEW q \in patches, AnswerPatch(q) PROVE TypeInv'
      BY <2>3, AnswerPatchType
    <2>4. CASE UNCHANGED vars
      BY <2>4 DEF vars, storage, TypeInv, TabsOK, TabOK, StorageOK, RestOK
    <2> QED BY <2>1, <2>2, <2>3, <2>4 DEF Next
  <1> QED BY <1>1, <1>2, TypeInvTypes, PTL DEF Spec

=============================================================================
