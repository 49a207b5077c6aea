------------------------------ MODULE AvatarPanel ------------------------------
(***************************************************************************)
(* The avatar panel (web/profile.js, the avatar controller) with the rule  *)
(* of the backend it relies on (avatar/AvatarObject.java).  An upload is   *)
(* three requests in a row, which ask for the user at different times:     *)
(* the token first, then Storage for the area to write, then the PUT that  *)
(* names the stored object, with the token taken first.                    *)
(*                                                                         *)
(* A picture is the user whose Storage area holds it; a picked file is the *)
(* user who picked it.  Two loads, or two uploads, that are alike and in   *)
(* flight at once are one.                                                 *)
(***************************************************************************)
EXTENDS AuthSession, FiniteSets

CONSTANTS MaxUploads   \* bound: uploads in flight at once

ASSUME AvatarAssumption == MaxUploads \in Nat \ {0}

VARIABLES photo,           \* backend, per user: the photoURL
          shown,           \* the picture the page shows
          lastPhoto,       \* controller.getOriginal().photoUrl
          picked,          \* selectedFile
          uploadEnabled,
          avatarLoads,     \* GET /me in flight: whose
          uploads,         \* uploads in flight
          wasOnPage        \* wasSignedIn

avatarVars ==
  <<photo, shown, lastPhoto, picked, uploadEnabled, avatarLoads, uploads, wasOnPage>>

Pictures == MaybeUser

Uploads == [by : Users, file : Users, step : {"store", "put", "done"},
            object : Pictures, ok : BOOLEAN]

AvatarTypeOK ==
  /\ photo \in [Users -> Pictures]
  /\ shown \in Pictures /\ lastPhoto \in Pictures /\ picked \in MaybeUser
  /\ uploadEnabled \in BOOLEAN /\ wasOnPage \in BOOLEAN
  /\ avatarLoads \subseteq MaybeUser
  /\ uploads \subseteq Uploads

AvatarInit ==
  /\ photo \in [Users -> Pictures] /\ \A u \in Users : photo[u] \in {u, NoUser}
  /\ shown = NoUser /\ lastPhoto = NoUser /\ picked = NoUser
  /\ uploadEnabled = FALSE /\ wasOnPage = FALSE
  /\ avatarLoads = {} /\ uploads = {}

\* setImage and showCurrent: without a picture the one shown before stays.
Show(p) == shown' = IF p = NoUser THEN shown ELSE p

---------------------------------------------------------------------------

AvatarOnAuth ==
  /\ wasOnPage' = (user' # NoUser)
  /\ avatarLoads' = IF wasOnPage' /\ ~wasOnPage
                    THEN avatarLoads \cup {current}
                    ELSE avatarLoads
  /\ UNCHANGED <<photo, shown, lastPhoto, picked, uploadEnabled, uploads>>

\* loadProfile().then(showCurrent): a load that failed shows the picture of the
\* profile loaded before it.
AnswerAvatarLoad(by) ==
  /\ avatarLoads' = avatarLoads \ {by}
  /\ \E p \in {lastPhoto} \cup {photo[u] : u \in {by} \cap Users} :
       lastPhoto' = p /\ Show(p)
  /\ UNCHANGED <<photo, picked, uploadEnabled, uploads, wasOnPage>>

\* selectFile: a file that is valid, or one that is not.
SelectFile ==
  /\ user # NoUser
  /\ \/ picked' = user /\ uploadEnabled' = TRUE
        /\ shown' = NoUser                    \* the local preview
     \/ picked' = NoUser /\ uploadEnabled' = FALSE /\ UNCHANGED shown
  /\ UNCHANGED <<photo, lastPhoto, avatarLoads, uploads, wasOnPage>>

\* A slip: nobody asks whether there is a token.
StartUploadSignedOut ==
  /\ user # NoUser /\ uploadEnabled /\ picked # NoUser
  /\ Cardinality(uploads) < MaxUploads
  /\ uploadEnabled' = FALSE
  /\ uploads' = uploads \cup {[by |-> Token, file |-> picked, step |-> "store",
                               object |-> NoUser, ok |-> FALSE]}
  /\ UNCHANGED <<photo, shown, lastPhoto, picked, avatarLoads, wasOnPage>>

\* upload: the token is taken, or there is none and the button is armed again.
StartUpload ==
  /\ user # NoUser /\ uploadEnabled /\ picked # NoUser
  /\ Token # NoUser
  /\ Cardinality(uploads) < MaxUploads
  /\ uploadEnabled' = FALSE
  /\ uploads' = uploads \cup {[by |-> Token, file |-> picked, step |-> "store",
                               object |-> NoUser, ok |-> FALSE]}
  /\ UNCHANGED <<photo, shown, lastPhoto, picked, avatarLoads, wasOnPage>>

\* OSKAuth.uploadAvatar: the object goes to the area of the user of that moment,
\* who may only write there; signed out, or any failure, ends the upload.
StoreObject(q) ==
  /\ q.step = "store"
  /\ \E r \in {[q EXCEPT !.step = "done"]}
              \cup {[q EXCEPT !.step = "put", !.object = u] : u \in {Token} \ {NoUser}} :
       uploads' = (uploads \ {q}) \cup {r}
  /\ UNCHANGED <<photo, shown, lastPhoto, picked, uploadEnabled, avatarLoads, wasOnPage>>

\* A slip: any stored object will do.
ValidAnywhere(uid, object) == object # NoUser

\* AvatarObject.validate: the object lies in the caller's own area.
Valid(uid, object) == object = uid

\* PUT /me/avatar; its answer may be lost.
ServePut(q) ==
  /\ q.step = "put"
  /\ \/ /\ Valid(q.by, q.object)
        /\ photo' = [photo EXCEPT ![q.by] = q.object]
        /\ \E answered \in BOOLEAN :
             uploads' = (uploads \ {q}) \cup {[q EXCEPT !.step = "done", !.ok = answered]}
     \/ uploads' = (uploads \ {q}) \cup {[q EXCEPT !.step = "done"]} /\ UNCHANGED photo
  /\ UNCHANGED <<shown, lastPhoto, picked, uploadEnabled, avatarLoads, wasOnPage>>

\* A success forgets the picked file, also one picked meanwhile; anything else
\* arms the button again if a file is still picked.
EndUpload(q) ==
  /\ q.step = "done"
  /\ uploads' = uploads \ {q}
  /\ IF q.ok
     THEN picked' = NoUser /\ uploadEnabled' = FALSE
          /\ (Show(q.object) \/ UNCHANGED shown)      \* the body may be unreadable
     ELSE uploadEnabled' = (picked # NoUser) /\ UNCHANGED <<picked, shown>>
  /\ UNCHANGED <<photo, lastPhoto, avatarLoads, wasOnPage>>

AvatarStep ==
  \/ \E by \in avatarLoads : AnswerAvatarLoad(by)
  \/ SelectFile \/ StartUpload
  \/ \E q \in uploads : StoreObject(q) \/ ServePut(q) \/ EndUpload(q)

AvatarNext ==
  \/ Elsewhere /\ UNCHANGED avatarVars
  \/ Deliver /\ AvatarOnAuth
  \/ AvatarStep /\ UNCHANGED sessionVars

---------------------------------------------------------------------------

\* Whenever the user changes between the three requests, an account's picture is an
\* object of its own Storage area; and the upload button is never armed without a
\* file, nor left unarmed with one when nothing is being uploaded.
AvatarOwn ==
  /\ \A u \in Users : photo[u] \in {u, NoUser}
  /\ uploadEnabled => picked # NoUser
  /\ (picked # NoUser /\ uploads = {}) => uploadEnabled

=============================================================================
