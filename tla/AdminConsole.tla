------------------------------ MODULE AdminConsole ------------------------------
(***************************************************************************)
(* The admin console (web/admin.js): it asks for the role of whoever signs *)
(* in, lists the accounts for an admin, changes their role and status, and *)
(* edits their profile in one editor.                                      *)
(*                                                                         *)
(* A profile is told apart by the account whose values it holds.  Accounts *)
(* are edited through this console alone, and the roles of its users stay. *)
(* A request is answered and applied in one step, a save of the editor in  *)
(* two; two requests of one kind, caller and account are one.              *)
(***************************************************************************)
EXTENDS AuthSession, FiniteSets

CONSTANTS Accounts, NoAccount,
          Admins,    \* backend: the users whose role is ADMIN
          MaxCalls   \* bound: requests in flight when the admin starts another

ASSUME ConsoleAssumption ==
  /\ NoAccount \notin Accounts
  /\ Admins \subseteq Users
  /\ MaxCalls \in Nat \ {0}

VARIABLES stored,      \* backend, per account: whose values its profile holds
          access,      \* access.meStatus and access.role
          basis,       \* history: access comes from an answer to this callback and user
          rows,        \* list.items: per account, a summary or the full profile
          calls,       \* requests in flight, but for a save of the editor
          editor,      \* editor.id
          inputs,      \* the editor's form: whose values; is the preference known
          pending      \* the PATCH profile in flight: the save button is disabled

consoleVars == <<stored, access, basis, rows, calls, editor, inputs, pending>>

Inputs == [of : Accounts \cup {NoAccount}, known : BOOLEAN]
Blanks == [of |-> NoAccount, known |-> FALSE]
Statuses == {"idle", "loading", "ok", "unauthorized", "forbidden", "error"}
Kinds == {"me", "page", "row", "detail"}
NoPending == [by |-> NoUser, account |-> NoAccount, sends |-> Blanks, got |-> "none"]

ConsoleTypeOK ==
  /\ stored \in [Accounts -> Accounts]
  /\ access \in [meStatus : Statuses, admin : BOOLEAN]
  /\ basis \in BOOLEAN
  /\ rows \in [Accounts -> {"none", "summary", "full"}]
  /\ calls \subseteq [kind : Kinds, by : MaybeUser, about : Accounts \cup {NoAccount}]
  /\ editor \in Accounts \cup {NoAccount}
  /\ inputs \in Inputs
  /\ pending \in [by : MaybeUser, account : Accounts \cup {NoAccount}, sends : Inputs,
                  got : {"none", "sent", "ok", "unauthorized", "forbidden", "error"}]

ConsoleInit ==
  /\ stored = [a \in Accounts |-> a]
  /\ access = [meStatus |-> "idle", admin |-> FALSE] /\ basis = TRUE
  /\ rows = [a \in Accounts |-> "none"]
  /\ calls = {}
  /\ editor = NoAccount /\ inputs = Blanks /\ pending = NoPending

\* computeAdminView shows the console to an admin whose role was read.
ConsoleShown == GuardMode = "signed-in" /\ access.meStatus = "ok" /\ access.admin

\* request: without a token nothing is sent; the backend answers, refuses or fails.
Replies(by) ==
  CASE by = NoUser   -> {"unauthorized"}
    [] by \in Admins   -> {"ok", "unauthorized", "error"}
    [] OTHER         -> {"forbidden", "unauthorized", "error"}

Call(kind, by, a) == [kind |-> kind, by |-> by, about |-> a]
CallMe(by) == Call("me", by, NoAccount)

\* What the admin starts is bounded, unlike what answers start.
MayStart ==
  ConsoleShown /\ Cardinality(calls) + (IF pending = NoPending THEN 0 ELSE 1) < MaxCalls

Start(kind, a) ==
  /\ MayStart
  /\ calls' = calls \cup {Call(kind, Token, a)}

Unauthorized == access' = [access EXCEPT !.meStatus = "unauthorized"]

\* verifyAdmin, while `left' are the other requests in flight.
VerifyAdmin(left) ==
  IF user = NoUser THEN calls' = left /\ UNCHANGED access
  ELSE /\ access' = [access EXCEPT !.meStatus = "loading"]
       /\ calls' = left \cup {CallMe(Token)}

\* What an answer that is no success does to the access of the page.
Regate(reply, left) ==
  CASE reply = "unauthorized" -> Unauthorized /\ calls' = left
    [] reply = "forbidden"    -> VerifyAdmin(left)
    [] OTHER                  -> UNCHANGED access /\ calls' = left

CloseEditor == editor' = NoAccount

---------------------------------------------------------------------------
(* Access                                                                  *)

\* onAuth for another user than the last.
NewUser ==
  IF user' # NoUser
  THEN /\ access' = [meStatus |-> "loading", admin |-> FALSE]
       /\ calls' = calls \cup {CallMe(current)}
       /\ UNCHANGED <<rows, editor>>
  ELSE /\ access' = [meStatus |-> "idle", admin |-> FALSE]
       /\ rows' = [a \in Accounts |-> "none"]
       /\ CloseEditor
       /\ UNCHANGED calls

\* A slip: only a sign-in or sign-out counts, as in the other scripts.
ConsoleOnEdges ==
  /\ IF (user' = NoUser) # (user = NoUser) THEN NewUser /\ basis' = TRUE
     ELSE UNCHANGED <<access, calls, rows, editor, basis>>
  /\ UNCHANGED <<stored, inputs, pending>>

\* One user after another is verified anew, without a sign-out between.
ConsoleOnAuth ==
  /\ IF user' # user THEN NewUser /\ basis' = TRUE
     ELSE UNCHANGED <<access, calls, rows, editor, basis>>
  /\ UNCHANGED <<stored, inputs, pending>>

\* verifyAdmin's answer: ignored when nobody is signed in, whoever it is about.
AnswerMe(q) ==
  /\ q.kind = "me"
  /\ IF user = NoUser THEN calls' = calls \ {q} /\ UNCHANGED <<access, basis>>
     ELSE /\ basis' = (basis /\ q.by = user)
          /\ \/ /\ q.by # NoUser
                /\ access' = [meStatus |-> "ok", admin |-> q.by \in Admins]
                /\ calls' = (calls \ {q}) \cup
                     (IF access'.admin THEN {Call("page", Token, NoAccount)} ELSE {})
             \/ /\ \E s \in {"unauthorized"}
                            \cup (IF q.by = NoUser THEN {} ELSE {"forbidden", "error"}) :
                     access' = [access EXCEPT !.meStatus = s]
                /\ calls' = calls \ {q}
  /\ UNCHANGED <<stored, rows, editor, inputs, pending>>

---------------------------------------------------------------------------
(* The list                                                                *)

LoadPage ==
  /\ Start("page", NoAccount)
  /\ UNCHANGED <<stored, access, basis, rows, editor, inputs, pending>>

\* Nothing asks whether anyone is still signed in.
AnswerPage(q) ==
  /\ q.kind = "page"
  /\ \E reply \in Replies(q.by) :
       /\ Regate(reply, calls \ {q})
       /\ rows' = IF reply = "ok" THEN [a \in Accounts |-> "summary"] ELSE rows
  /\ UNCHANGED <<stored, basis, editor, inputs, pending>>

\* changeRole, changeEnabled.
Mutate(a) ==
  /\ rows[a] # "none" /\ Start("row", a)
  /\ UNCHANGED <<stored, access, basis, rows, editor, inputs, pending>>

\* afterMutation: the answer replaces the row if it is still listed.
AnswerMutation(q) ==
  /\ q.kind = "row"
  /\ \E reply \in Replies(q.by) :
       /\ Regate(reply, calls \ {q})
       /\ rows' = IF reply = "ok" /\ rows[q.about] # "none"
                  THEN [rows EXCEPT ![q.about] = "summary"] ELSE rows
  /\ UNCHANGED <<stored, basis, editor, inputs, pending>>

---------------------------------------------------------------------------
(* The editor                                                              *)

\* fillEditorForm: a summary has no preference, and the form shows EMAIL.
FillForm(a, source) == inputs' = [of |-> a, known |-> source = "full"]

\* openProfileEditor: the row at once, the fresh detail when it comes.
OpenEditor(a) ==
  /\ rows[a] # "none" /\ Start("detail", a)
  /\ editor' = a
  /\ FillForm(a, rows[a])
  /\ UNCHANGED <<stored, access, basis, rows, pending>>

FillFrom(q) == FillForm(stored[q.about], "full")

\* A slip: the answer fills whatever editor is open.
AnswerDetailAnyway(q) ==
  /\ q.kind = "detail" /\ calls' = calls \ {q}
  /\ \E reply \in Replies(q.by) :
       \/ reply = "ok" /\ FillFrom(q) /\ UNCHANGED <<access, editor>>
       \/ reply = "unauthorized" /\ CloseEditor /\ Unauthorized /\ UNCHANGED inputs
       \/ reply \notin {"ok", "unauthorized"} /\ UNCHANGED <<access, editor, inputs>>
  /\ UNCHANGED <<stored, basis, rows, pending>>

\* A load for another row than the open one is ignored; one that failed leaves the
\* row's values.
AnswerDetail(q) ==
  /\ q.kind = "detail" /\ calls' = calls \ {q}
  /\ \E reply \in Replies(q.by) :
       \/ editor = q.about /\ reply = "ok" /\ FillFrom(q) /\ UNCHANGED <<access, editor>>
       \/ /\ editor = q.about /\ reply = "unauthorized"
          /\ CloseEditor /\ Unauthorized /\ UNCHANGED inputs
       \/ /\ editor = q.about => reply \notin {"ok", "unauthorized"}
          /\ UNCHANGED <<access, editor, inputs>>
  /\ UNCHANGED <<stored, basis, rows, pending>>

EditorShown == ConsoleShown /\ editor # NoAccount

\* The admin chooses a preference; what is typed in the other fields is not told apart.
Choose ==
  /\ EditorShown
  /\ inputs' = [inputs EXCEPT !.known = TRUE]
  /\ UNCHANGED <<stored, access, basis, rows, calls, editor, pending>>

Cancel ==
  /\ EditorShown /\ CloseEditor
  /\ UNCHANGED <<stored, access, basis, rows, calls, inputs, pending>>

\* saveProfile: every input that is not blank is sent, the preference always.
\* editor.saving says no more than the disabled button does.
SaveProfile ==
  /\ EditorShown /\ MayStart /\ pending = NoPending
  /\ pending' = [by |-> Token, account |-> editor, sends |-> inputs, got |-> "sent"]
  /\ UNCHANGED <<stored, access, basis, rows, calls, editor, inputs>>

\* An error may have saved: the answer was lost.
ServeProfile ==
  /\ pending.got = "sent"
  /\ \E reply \in Replies(pending.by) :
       /\ pending' = [pending EXCEPT !.got = reply]
       /\ \/ /\ reply \in {"ok", "error"} /\ pending.by \in Admins
             /\ stored' = [stored EXCEPT ![pending.account] = pending.sends.of]
          \/ reply # "ok" /\ UNCHANGED stored
  /\ UNCHANGED <<access, basis, rows, calls, editor, inputs>>

\* The answer to a save counts only while its account is the one being edited.
ApplyProfile ==
  /\ pending.got \notin {"none", "sent"}
  /\ pending' = NoPending
  /\ IF editor # pending.account THEN UNCHANGED <<access, calls, rows, editor>>
     ELSE /\ Regate(pending.got, calls)
          /\ rows' = IF pending.got = "ok" /\ rows[editor] # "none"
                     THEN [rows EXCEPT ![editor] = "full"] ELSE rows
          /\ IF pending.got \in {"ok", "unauthorized"} THEN CloseEditor ELSE UNCHANGED editor
  /\ UNCHANGED <<stored, basis, inputs>>

ConsoleStep ==
  \/ \E q \in calls : AnswerMe(q) \/ AnswerPage(q) \/ AnswerMutation(q) \/ AnswerDetail(q)
  \/ LoadPage \/ Choose \/ Cancel \/ SaveProfile \/ ServeProfile \/ ApplyProfile
  \/ \E a \in Accounts : Mutate(a) \/ OpenEditor(a)

ConsoleNext ==
  \/ Elsewhere /\ UNCHANGED consoleVars
  \/ Deliver /\ ConsoleOnAuth
  \/ ConsoleStep /\ UNCHANGED sessionVars

---------------------------------------------------------------------------

\* The console is shown to an admin only, also when one user replaces another, as
\* long as no answer about another user was taken for one about the present user.
ConsoleHonest == (ConsoleShown /\ basis) => user \in Admins

\* Whatever editors are opened and closed while loads and saves are on their way,
\* the open editor holds the values of its account, and no account is given those
\* of another.
EditorHonest ==
  /\ editor # NoAccount => inputs.of = editor
  /\ \A a \in Accounts : stored[a] = a

\* admin.js:409 "A field is INCLUDED only when the admin left meaningful content in
\* it": a save sends a preference the account was seen to have, or the admin chose.
PreferenceLeftAlone == pending # NoPending => pending.sends.known

=============================================================================
