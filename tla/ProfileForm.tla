------------------------------ MODULE ProfileForm ------------------------------
(***************************************************************************)
(* The profile editor (web/profile.js, the profile controller and the      *)
(* page's render loop): on a sign-in the profile is loaded into the form;  *)
(* a save sends the fields that differ from the profile last seen.         *)
(*                                                                         *)
(* A value is a user (what that account held at first), Typed or Blank.    *)
(* A load is answered and applied in one step: until then the form is      *)
(* hidden.  A save is served and its answer applied in two.  Accounts      *)
(* change through this form alone.                                         *)
(***************************************************************************)
EXTENDS AuthSession

CONSTANTS ProfileFields,
          Clearable,      \* text fields: a number or a choice is never sent blank
          Typed, Blank,
          MaxEdits        \* bound: values typed

ASSUME ProfileAssumption == Clearable \subseteq ProfileFields /\ MaxEdits \in Nat

VARIABLES account,     \* backend, per user and field
          original,    \* the profile last loaded or saved
          form,        \* the inputs
          author,      \* history, per field: who typed what the form holds, if anyone
          formHidden,
          wasOn,       \* wasSignedIn
          loads,       \* GET /me in flight
          sending,     \* the PATCH /me in flight, if any: the save button is disabled
          mixed,       \* history: a user was replaced by another since the last load
          edits        \* bound: values typed so far

profileVars ==
  <<account, original, form, author, formHidden, wasOn, loads, sending, mixed, edits>>

Values == Users \cup {Typed, Blank}
Profiles == [ProfileFields -> Values]
Empty == [f \in ProfileFields |-> Blank]
Answer == [is : {"sent", "failed", "ok", "empty"}, profile : Profiles]
Asked == [is |-> "sent", profile |-> Empty]
Refused == [is |-> "failed", profile |-> Empty]
Got(p) == [is |-> "ok", profile |-> p]
NoSave == [by |-> NoUser, asked |-> NoUser, sends |-> {}, patch |-> Empty,
           authors |-> {}, mixed |-> FALSE, got |-> Refused]

ProfileTypeOK ==
  /\ account \in [Users -> Profiles]
  /\ original \in Profiles /\ form \in Profiles
  /\ author \in [ProfileFields -> MaybeUser]
  /\ formHidden \in BOOLEAN /\ wasOn \in BOOLEAN /\ mixed \in BOOLEAN
  /\ edits \in 0 .. MaxEdits
  /\ loads \subseteq [by : MaybeUser, session : 1 .. MaxChanges + 1]
  /\ sending \in [by : MaybeUser, asked : MaybeUser, sends : SUBSET ProfileFields, patch : Profiles,
               authors : SUBSET MaybeUser, mixed : BOOLEAN, got : Answer]

ProfileInit ==
  /\ account = [u \in Users |-> [f \in ProfileFields |-> u]]
  /\ original = Empty /\ form = Empty
  /\ author = [f \in ProfileFields |-> NoUser]
  /\ formHidden = TRUE /\ wasOn = FALSE
  /\ loads = {} /\ sending = NoSave
  /\ mixed = FALSE /\ edits = 0

\* applyValues: the inputs show a profile and nothing typed is left.
Fill(p) ==
  /\ original' = p /\ form' = p
  /\ author' = [f \in ProfileFields |-> NoUser]

---------------------------------------------------------------------------
(* loadProfile                                                             *)

\* render: a transition into signed-in loads the profile and hides the form.
ProfileOnAuth ==
  /\ wasOn' = (user' # NoUser)
  /\ IF wasOn' /\ ~wasOn
     THEN /\ formHidden' = TRUE
          /\ loads' = loads \cup {[by |-> current, session |-> session']}
          /\ mixed' = FALSE
     ELSE /\ mixed' = (mixed \/ (wasOn /\ wasOn' /\ user' # user))
          /\ UNCHANGED <<formHidden, loads>>
  /\ UNCHANGED <<account, original, form, author, sending, edits>>

\* Whoever it was sent for, the answer fills the form and shows it.
AnswerLoad(q) ==
  /\ loads' = loads \ {q}
  /\ \/ UNCHANGED <<original, form, author, formHidden>>   \* any error
     \/ q.by # NoUser /\ Fill(account[q.by]) /\ formHidden' = FALSE
  /\ UNCHANGED <<account, wasOn, sending, mixed, edits>>

---------------------------------------------------------------------------
(* save                                                                    *)

FormShown == ~formHidden /\ user # NoUser

Type(f) ==
  /\ FormShown
  /\ \E v \in {Typed, Blank} :
       /\ form[f] # v
       /\ form' = [form EXCEPT ![f] = v]
  /\ author' = [author EXCEPT ![f] = user]
  /\ edits < MaxEdits /\ edits' = edits + 1
  /\ UNCHANGED <<account, original, formHidden, wasOn, loads, sending, mixed>>

\* A slip: the whole form is sent.
AllFields == {f \in ProfileFields : form[f] = Blank => f \in Clearable}

\* buildPatch: the fields to send.
Changed == {f \in ProfileFields : form[f] # original[f] /\ (form[f] = Blank => f \in Clearable)}

Save ==
  /\ FormShown /\ sending = NoSave
  /\ Changed # {}
  /\ sending' = [by |-> Token, asked |-> user, sends |-> Changed,
              patch |-> [f \in ProfileFields |-> IF f \in Changed THEN form[f] ELSE Blank],
              authors |-> {author[f] : f \in Changed}, mixed |-> mixed, got |-> Asked]
  /\ UNCHANGED <<account, original, form, author, formHidden, wasOn, loads, mixed, edits>>

\* Taken and echoed, taken and answered without a readable body, taken and the
\* answer lost; or refused.
ServeEdit ==
  /\ sending # NoSave /\ sending.got = Asked
  /\ \/ /\ sending.by # NoUser
        /\ account' = [account EXCEPT ![sending.by] =
                         [f \in ProfileFields |-> IF f \in sending.sends THEN sending.patch[f] ELSE @[f]]]
        /\ \E a \in {Got(account'[sending.by]), [Asked EXCEPT !.is = "empty"], Refused} :
             sending' = [sending EXCEPT !.got = a]
     \/ sending' = [sending EXCEPT !.got = Refused] /\ UNCHANGED account
  /\ UNCHANGED <<original, form, author, formHidden, wasOn, loads, mixed, edits>>

ApplyEdit ==
  /\ sending # NoSave /\ sending.got # Asked
  /\ sending' = NoSave
  /\ IF sending.got.is = "ok"
     THEN Fill(sending.got.profile)
     ELSE UNCHANGED <<original, form, author>>
  /\ UNCHANGED <<account, formHidden, wasOn, loads, mixed, edits>>

ProfileStep ==
  \/ \E q \in loads : AnswerLoad(q)
  \/ \E f \in ProfileFields : Type(f)
  \/ Save \/ ServeEdit \/ ApplyEdit

ProfileNext ==
  \/ Elsewhere /\ UNCHANGED profileVars
  \/ Deliver /\ ProfileOnAuth
  \/ ProfileStep /\ UNCHANGED sessionVars

---------------------------------------------------------------------------

\* Whatever answers cross, an account only gets values its own user typed: a form
\* showing another account's profile still sends nothing of it.  (Not so when the
\* SDK has changed the user and the page has not been told, or was told of one user
\* after another without a sign-out between: then nothing is loaded.)
OnlyOwnEdits ==
  (sending # NoSave /\ sending.by = sending.asked /\ ~sending.mixed) => sending.authors = {sending.by}

=============================================================================
