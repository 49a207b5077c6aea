-------------------------------- MODULE WebPages --------------------------------
(***************************************************************************)
(* The scripts of the signed-in pages (web/*.html) beside each other: all  *)
(* hear of the user from one OSKAuth, in the same callback, and share      *)
(* nothing else.  A step of one script changes nothing the others see, so  *)
(* an execution of a page is, for each of its scripts, one in which only   *)
(* that script moves: subject names it, and every one is explored.         *)
(*                                                                         *)
(* PageSpec is the page in which all of them move, and WebProofs shows     *)
(* that each script does there what it does alone.  The real pages load    *)
(* fewer: app.html the gates and the banner, profile.html the form and the *)
(* panel, admin.html the console.                                          *)
(***************************************************************************)
EXTENDS CompletionGate, TermsGate, VerifyBanner, ProfileForm, AvatarPanel, AdminConsole

VARIABLE subject

scriptVars ==
  <<gateVars, termsVars, bannerVars, profileVars, avatarVars, consoleVars>>

vars == <<subject, sessionVars, scriptVars>>

Scripts == {"completion-gate", "terms", "verify-email", "profile", "avatar", "admin"}

TypeOK ==
  /\ subject \in Scripts
  /\ SessionTypeOK /\ GateTypeOK /\ TermsTypeOK /\ BannerTypeOK
  /\ ProfileTypeOK /\ AvatarTypeOK /\ ConsoleTypeOK

\* What the other scripts find at first does not matter and is left at one value.
Init ==
  /\ subject \in Scripts
  /\ SessionInit
  /\ GateInit /\ (subject = "completion-gate" \/ profile = [u \in Users |-> {}])
  /\ TermsInit /\ (subject = "terms" \/ accepted = [u \in Users |-> NoVersion])
  /\ BannerInit /\ (subject = "verify-email" \/ verified = [u \in Users |-> FALSE])
  /\ ProfileInit
  /\ AvatarInit /\ (subject = "avatar" \/ photo = [u \in Users |-> NoUser])
  /\ ConsoleInit

Next ==
  /\ UNCHANGED subject
  /\ \/ /\ subject = "completion-gate" /\ GateNext
        /\ UNCHANGED <<termsVars, bannerVars, profileVars, avatarVars, consoleVars>>
     \/ /\ subject = "terms" /\ TermsNext
        /\ UNCHANGED <<gateVars, bannerVars, profileVars, avatarVars, consoleVars>>
     \/ /\ subject = "verify-email" /\ BannerNext
        /\ UNCHANGED <<gateVars, termsVars, profileVars, avatarVars, consoleVars>>
     \/ /\ subject = "profile" /\ ProfileNext
        /\ UNCHANGED <<gateVars, termsVars, bannerVars, avatarVars, consoleVars>>
     \/ /\ subject = "avatar" /\ AvatarNext
        /\ UNCHANGED <<gateVars, termsVars, bannerVars, profileVars, consoleVars>>
     \/ /\ subject = "admin" /\ ConsoleNext
        /\ UNCHANGED <<gateVars, termsVars, bannerVars, profileVars, avatarVars>>

Spec == Init /\ [][Next]_vars /\ GateFairness

---------------------------------------------------------------------------
(* The whole page: one callback runs the handlers of all scripts in one turn, and any  *)
(* other step is of one script.                                                        *)

PageInit ==
  /\ SessionInit
  /\ GateInit /\ TermsInit /\ BannerInit /\ ProfileInit /\ AvatarInit /\ ConsoleInit

Notify ==
  /\ Deliver
  /\ GateOnAuth /\ TermsOnAuth /\ BannerOnAuth /\ ProfileOnAuth /\ AvatarOnAuth /\ ConsoleOnAuth

PageNext ==
  \/ Elsewhere /\ UNCHANGED scriptVars
  \/ Notify
  \/ /\ UNCHANGED sessionVars
     /\ \/ /\ GateStep
           /\ UNCHANGED <<termsVars, bannerVars, profileVars, avatarVars, consoleVars>>
        \/ /\ TermsStep
           /\ UNCHANGED <<gateVars, bannerVars, profileVars, avatarVars, consoleVars>>
        \/ /\ BannerStep
           /\ UNCHANGED <<gateVars, termsVars, profileVars, avatarVars, consoleVars>>
        \/ /\ ProfileStep
           /\ UNCHANGED <<gateVars, termsVars, bannerVars, avatarVars, consoleVars>>
        \/ /\ AvatarStep
           /\ UNCHANGED <<gateVars, termsVars, bannerVars, profileVars, consoleVars>>
        \/ /\ ConsoleStep
           /\ UNCHANGED <<gateVars, termsVars, bannerVars, profileVars, avatarVars>>

PageSpec == PageInit /\ [][PageNext]_<<sessionVars, scriptVars>>

---------------------------------------------------------------------------

\* Each of the three gates shows or hides the page for the user who is there, whatever
\* other users were there before, as long as no answer about an earlier callback or
\* another user was taken for one about the present (see the module of each).
GatesHonest == GateHonest /\ TermsHonest /\ ConsoleHonest

=============================================================================
