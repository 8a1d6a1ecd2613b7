------------------------------ MODULE Startup -------------------------------
(***************************************************************************)
(* Login and startup: MegaClient.connect with its session file, the        *)
(* provider's start, submitCaptcha, submitVerification and completeStartup, *)
(* the push receiver they open, and restarts of the process.               *)
(*                                                                         *)
(* start() and the two submissions are callers; each is at one await at a  *)
(* time, and an action is what runs between two awaits.  Nothing keeps two *)
(* submissions apart, so they may overlap.  What the cloud answers is a    *)
(* choice; that a token expires counts as its being revoked.  A token is   *)
(* known by the number of the login that issued it.  Domain and identity   *)
(* of a session are one datum, obtained at one await, "prepare".           *)
(*                                                                         *)
(* Op_Defect is Op with a plausible slip, and no part of the specification. *)
(***************************************************************************)
EXTENDS Naturals, FiniteSets

CONSTANTS
  Start,          \* the call of provider.start
  Submissions,    \* HTTP requests that submit an answer or a code
  NoCaller,
  Accounts,       \* accounts the app may be configured for
  MaxLogins,      \* bound: tokens the cloud issues
  MaxChallenges,  \* bound: CAPTCHA images the cloud creates
  MaxRestarts     \* bound: starts of a new process

Callers == {Start} \cup Submissions

ASSUME AccountsAssumption == Accounts # {}
ASSUME CallersAssumption == Start \notin Submissions /\ NoCaller \notin Callers
ASSUME BoundsAssumption == {MaxLogins, MaxChallenges, MaxRestarts} \subseteq Nat

VARIABLES
  \* of the process
  step,        \* the await a caller is at
  forced,      \* it repeats the login because the session was invalid
  given,       \* the answer or code it was called with
  sent,        \* the token in the headers of its last request
  saving,      \* the session it is writing
  session,     \* #session of the client
  pending,     \* #pendingCaptcha: the number of a challenge, or 0
  challenge,   \* #captchaChallenge of the provider, or 0
  verify,      \* #verificationRequired
  connection,  \* the connection state last reported
  push,        \* #push: the caller whose receiver it is
  receiver,    \* the receiver each caller created
  \* outside the process
  disk,        \* mega-session.json
  account,     \* the configured account
  issued,      \* tokens issued so far
  full,        \* those that came without a verification step
  revoked,     \* those the cloud no longer accepts
  images,      \* challenges created so far
  mailed,      \* the token of the last verification mail to this account, or 0
  asked,       \* history: that of the last mail whose code was asked for
  accepted,    \* history: the last image that was pending when a login succeeded, or 0
  restarts,
  overlap      \* history: two callers were in progress at once

client == <<session, pending>>
provider == <<challenge, verify, connection, push, receiver>>
callers == <<step, forced, given, sent, saving>>
cloud == <<issued, full, revoked, images, mailed>>
outside == <<asked, accepted, account, restarts>>
vars == <<callers, client, provider, disk, cloud, outside, overlap>>

NoToken == 0
Nothing == [kind |-> "none", number |-> 0]
Answer(n) == [kind |-> "captcha", number |-> n]
Code(n) == [kind |-> "code", number |-> n]
Credentials == [kind : {"none", "captcha", "code"}, number : Nat]

\* A session: whether there is one, whose it is (country and credential
\* verifier), its token and whether it has its domain and identity.
EmptySession(a) == [made |-> TRUE, account |-> a, token |-> NoToken, prepared |-> FALSE]
NoSession == [EmptySession(CHOOSE a \in Accounts : TRUE) EXCEPT !.made = FALSE]
Sessions == [made : BOOLEAN, account : Accounts, token : Nat, prepared : BOOLEAN]

Steps == {"idle", "restore", "resave", "prepare", "login", "captcha", "sendcode",
          "savecode", "save", "inventory", "dsk", "register", "ready"}
Saving == {"resave", "savecode", "save"}

StartupTypeOK ==
  /\ step \in [Callers -> Steps]
  /\ forced \in [Callers -> BOOLEAN]
  /\ given \in [Callers -> Credentials]
  /\ sent \in [Callers -> 0 .. issued]
  /\ saving \in [Callers -> Sessions]
  /\ \A c \in Callers : step[c] \in Saving => saving[c].made
  /\ session \in Sessions /\ disk \in Sessions
  /\ {pending, challenge, accepted} \subseteq 0 .. images
  /\ verify \in BOOLEAN
  /\ connection \in {"starting", "authentication-required", "connected", "error"}
  /\ push \in Callers \cup {NoCaller}
  /\ receiver \in [Callers -> {"none", "starting", "waiting", "connected", "closed"}]
  /\ account \in Accounts
  /\ issued \in Nat /\ images \in Nat /\ restarts \in Nat
  /\ full \cup revoked \subseteq 1 .. issued
  /\ {mailed, asked, session.token, disk.token} \subseteq 0 .. issued
  /\ overlap \in BOOLEAN

Init ==
  /\ step = [c \in Callers |-> IF c = Start THEN "restore" ELSE "idle"]
  /\ forced = [c \in Callers |-> FALSE]
  /\ given = [c \in Callers |-> Nothing]
  /\ sent = [c \in Callers |-> NoToken]
  /\ saving = [c \in Callers |-> NoSession]
  /\ session = NoSession /\ disk = NoSession
  /\ pending = 0 /\ challenge = 0 /\ accepted = 0 /\ images = 0
  /\ verify = FALSE
  /\ connection = "starting"
  /\ push = NoCaller
  /\ receiver = [c \in Callers |-> "none"]
  /\ account = CHOOSE a \in Accounts : TRUE
  /\ issued = 0 /\ full = {} /\ revoked = {} /\ mailed = 0 /\ asked = 0
  /\ restarts = 0
  /\ overlap = FALSE

-----------------------------------------------------------------------------
(***************************************************************************)
(* Parts of the actions.                                                   *)
(***************************************************************************)

Authenticated(s) == s.token # NoToken
Accepted(token) == token \in full \ revoked

At(c, s) == step[c] = s
To(c, s) == step' = [step EXCEPT ![c] = s]

\* What a caller submits from the page, in its first login.
Submitted(c) == IF c = Start \/ forced[c] THEN "none" ELSE given[c].kind

\* A request carries the token the session has when it is built.
Send(c, s, token) ==
  /\ To(c, s)
  /\ sent' = [sent EXCEPT ![c] = token]
  /\ UNCHANGED <<forced, given, saving>>

Save(c, s, toSave) ==
  /\ To(c, s)
  /\ saving' = [saving EXCEPT ![c] = toSave]
  /\ UNCHANGED <<forced, given, sent>>

Finish(c) ==
  /\ To(c, "idle")
  /\ forced' = [forced EXCEPT ![c] = FALSE]
  /\ given' = [given EXCEPT ![c] = Nothing]
  /\ sent' = [sent EXCEPT ![c] = NoToken]
  /\ saving' = [saving EXCEPT ![c] = NoSession]

\* An exception: main.ts reports one of start, the server that of a submission.
Throw(c) ==
  /\ Finish(c)
  /\ connection' = IF c = Start THEN "error" ELSE connection

\* connect, once the session is there: resume it, or log in.
Resume_Never(c, s) ==
  IF s.prepared THEN Send(c, "login", s.token) ELSE Send(c, "prepare", NoToken)

Resume(c, s) ==
  IF Authenticated(s) /\ given[c] = Nothing THEN Save(c, "resave", s)
  ELSE IF s.prepared THEN Send(c, "login", s.token) ELSE Send(c, "prepare", NoToken)

\* The beginning of completeStartup: inventory() needs a token.
Complete(c) ==
  IF Authenticated(session)
  THEN Send(c, "inventory", session.token) /\ UNCHANGED connection
  ELSE Throw(c)

\* connect asks for an image to be read (or, image = 0, for a code).  A code that was
\* submitted has been refused, and submitVerification throws; submitCaptcha throws too,
\* but shows the new image; start, with a configured code or without, and a repeated
\* login ask for what connect asks for.
AskUser_KeepsImage(c, image) ==
  /\ Finish(c)
  /\ IF Submitted(c) = "code"
     THEN UNCHANGED <<challenge, verify, connection>>
     ELSE /\ challenge' = IF challenge = 0 THEN image ELSE challenge
          /\ verify' = IF image = 0 THEN TRUE ELSE verify
          /\ connection' = "authentication-required"

AskUser(c, image) ==
  /\ Finish(c)
  /\ IF Submitted(c) = "code" THEN UNCHANGED challenge ELSE challenge' = image
  /\ IF Submitted(c) = "code" \/ (Submitted(c) = "captcha" /\ image # 0)
     THEN UNCHANGED <<verify, connection>>
     ELSE verify' = (image = 0) /\ connection' = "authentication-required"

-----------------------------------------------------------------------------
(***************************************************************************)
(* connect.                                                                *)
(***************************************************************************)

\* submitCaptcha and submitVerification: the user answers what the page shows, with the
\* code of the last mail.
Submit(c) ==
  /\ At(c, "idle")
  /\ given' \in {[given EXCEPT ![c] = credential] :
       credential \in (IF challenge # 0 THEN {Answer(challenge)} ELSE {})
                 \cup (IF verify THEN {Code(mailed)} ELSE {})}
  /\ To(c, IF ~session.made THEN "restore" ELSE IF session.prepared THEN "login" ELSE "prepare")
  /\ sent' = [sent EXCEPT ![c] = IF session.made THEN session.token ELSE NoToken]
  /\ overlap' = (overlap \/ \E other \in Callers \ {c} : ~At(other, "idle"))
  /\ UNCHANGED <<forced, saving, client, provider, disk, cloud, outside>>

\* #restore: a session of other credentials or another country is dropped.
Restore(c) ==
  /\ At(c, "restore")
  /\ session' = IF ~disk.made THEN session
                ELSE IF disk.account = account THEN disk ELSE EmptySession(account)
  /\ Resume(c, session')
  /\ UNCHANGED <<pending, provider, disk, cloud, outside, overlap>>

\* #ensureDomain and #identity.
Prepared(c) ==
  /\ At(c, "prepare")
  /\ session' = [(IF session.made THEN session ELSE EmptySession(account))
                   EXCEPT !.prepared = TRUE]
  /\ Send(c, "login", session'.token)
  /\ UNCHANGED <<pending, provider, disk, cloud, outside, overlap>>

\* The login asks for an image to be read: connect fetches one.
CaptchaRequired(c) ==
  /\ At(c, "login")
  /\ Send(c, "captcha", session.token)
  /\ UNCHANGED <<client, provider, disk, cloud, outside, overlap>>

CaptchaArrives(c) ==
  /\ At(c, "captcha") /\ images < MaxChallenges
  /\ images' = images + 1
  /\ pending' = images'
  /\ AskUser(c, images')
  /\ UNCHANGED <<session, push, receiver, disk, issued, full, revoked, mailed, outside, overlap>>

\* The login issues a limited token and wants a code: connect has it mailed.
VerificationRequired(c) ==
  /\ At(c, "login") /\ session.made /\ issued < MaxLogins
  /\ issued' = issued + 1
  /\ session' = [session EXCEPT !.token = issued']
  /\ Send(c, "sendcode", issued')
  /\ UNCHANGED <<pending, provider, disk, full, revoked, images, mailed, outside, overlap>>

CodeMailed_NotSaved(c) ==
  /\ At(c, "sendcode")
  /\ mailed' = sent[c]
  /\ Save(c, "savecode", disk)
  /\ UNCHANGED <<client, provider, disk, issued, full, revoked, images, outside, overlap>>

CodeMailed(c) ==
  /\ At(c, "sendcode")
  /\ mailed' = sent[c]
  /\ IF session.made THEN Save(c, "savecode", session) /\ UNCHANGED connection ELSE Throw(c)
  /\ UNCHANGED <<client, challenge, verify, push, receiver, disk,
                 issued, full, revoked, images, outside, overlap>>

\* The login succeeds.
LoggedIn(c) ==
  /\ At(c, "login") /\ session.made /\ issued < MaxLogins
  /\ issued' = issued + 1
  /\ full' = full \cup {issued'}
  /\ session' = [session EXCEPT !.token = issued']
  /\ pending' = 0
  /\ accepted' = IF pending # 0 THEN pending ELSE accepted
  /\ Save(c, "save", session')
  /\ UNCHANGED <<provider, disk, revoked, images, mailed, asked, account, restarts, overlap>>

\* A request fails: refused, unreadable, or not answered in time; or the session file
\* cannot be read.
RequestFails(c) ==
  /\ step[c] \in {"restore", "prepare", "login", "captcha", "sendcode", "inventory"}
  /\ Throw(c)
  /\ UNCHANGED <<client, challenge, verify, push, receiver, disk, cloud, outside, overlap>>

\* What the one temporary file holds when several callers write at once.
Written(c) ==
  {saving[c]} \cup
    UNION {{saving[o], NoSession} : o \in {o \in Callers \ {c} : step[o] \in Saving}}

\* save() of a session that waits for its code.
CodeSaved(c) ==
  /\ At(c, "savecode")
  /\ disk' \in Written(c)
  /\ asked' = mailed
  /\ AskUser(c, 0)
  /\ UNCHANGED <<client, push, receiver, cloud, accepted, account, restarts, overlap>>

\* save() or the writing of the resumed session, and what follows connect: the
\* provider clears what it asked for and completes the startup.
Saved(c) ==
  /\ step[c] \in {"resave", "save"}
  /\ disk' \in Written(c)
  /\ challenge' = IF Submitted(c) = "captcha" THEN 0 ELSE challenge
  /\ verify' = IF Submitted(c) = "none" THEN verify ELSE FALSE
  /\ Complete(c)
  /\ UNCHANGED <<client, push, receiver, cloud, outside, overlap>>

\* The disk fails, or another writer has renamed the temporary file away.
SaveFails(c) ==
  /\ step[c] \in Saving
  /\ Throw(c)
  /\ UNCHANGED <<client, challenge, verify, push, receiver, disk, cloud, outside, overlap>>

-----------------------------------------------------------------------------
(***************************************************************************)
(* completeStartup.                                                        *)
(***************************************************************************)

InventoryArrives(c) ==
  /\ At(c, "inventory") /\ Accepted(sent[c])
  /\ Send(c, "dsk", session.token)
  /\ UNCHANGED <<client, provider, disk, cloud, outside, overlap>>

\* isSessionInvalidError: the session is dropped and the login repeated, once.
SessionInvalid(c) ==
  /\ At(c, "inventory") /\ ~Accepted(sent[c]) /\ ~forced[c]
  /\ session' = NoSession
  /\ forced' = [forced EXCEPT ![c] = TRUE]
  /\ sent' = [sent EXCEPT ![c] = NoToken]
  /\ To(c, "prepare")
  /\ UNCHANGED <<given, saving, pending, provider, disk, cloud, outside, overlap>>

\* The stream keys have come, or have not: the cameras and HomeBases are
\* announced, and a receiver replaces the previous one, whose close() does
\* nothing as long as it has no client.
DskArrives(c) ==
  /\ At(c, "dsk")
  /\ receiver' = [o \in Callers |->
       IF o = c THEN "starting"
       ELSE IF o = push /\ receiver[o] # "starting" THEN "closed" ELSE receiver[o]]
  /\ push' = c
  /\ Send(c, "register", session.token)
  /\ UNCHANGED <<client, challenge, verify, connection, disk, cloud, outside, overlap>>

\* The push token is registered: the receiver connects to Firebase.
Registered(c) ==
  /\ At(c, "register") /\ Accepted(sent[c])
  /\ receiver' = [receiver EXCEPT ![c] = "waiting"]
  /\ To(c, "ready")
  /\ UNCHANGED <<forced, given, sent, saving, client, challenge, verify, connection, push,
                 disk, cloud, outside, overlap>>

RegistrationFails(c) ==
  /\ At(c, "register")
  /\ receiver' = [receiver EXCEPT ![c] = "closed"]
  /\ Throw(c)
  /\ UNCHANGED <<client, challenge, verify, push, disk, cloud, outside, overlap>>

\* Firebase accepts the login of the receiver.  The refresh of the HomeBases and
\* the start of their timer end the call.
ReceiverReady(c) ==
  /\ At(c, "ready") /\ receiver[c] = "waiting"
  /\ receiver' = [receiver EXCEPT ![c] = "connected"]
  /\ connection' = "connected"
  /\ Finish(c)
  /\ UNCHANGED <<client, challenge, verify, push, disk, cloud, outside, overlap>>

\* waitForReceiverReady times out.
ReceiverTimeout_StaysOpen(c) ==
  /\ At(c, "ready") /\ receiver[c] = "waiting"
  /\ receiver' = [receiver EXCEPT ![c] = "closed"]
  /\ connection' = "connected"
  /\ Finish(c)
  /\ UNCHANGED <<client, challenge, verify, push, disk, cloud, outside, overlap>>

ReceiverTimeout_Off(c) ==
  /\ At(c, "ready") /\ receiver[c] = "closed"
  /\ Throw(c)
  /\ UNCHANGED <<client, challenge, verify, push, receiver, disk, cloud, outside, overlap>>

ReceiverTimeout(c) ==
  /\ At(c, "ready")
  /\ receiver' = [receiver EXCEPT ![c] = "closed"]
  /\ Throw(c)
  /\ UNCHANGED <<client, challenge, verify, push, disk, cloud, outside, overlap>>

-----------------------------------------------------------------------------
\* The cloud gives up a token: it expired or the account logged in elsewhere.
Revoke(token) ==
  /\ Accepted(token)
  /\ revoked' = revoked \cup {token}
  /\ UNCHANGED <<callers, client, provider, disk, issued, full, images, mailed, outside, overlap>>

\* The process ends and another one starts: the account may have been changed, or
\* the code of the last mail entered in the options.
Restart ==
  /\ restarts < MaxRestarts
  /\ restarts' = restarts + 1
  /\ step' = [c \in Callers |-> IF c = Start THEN "restore" ELSE "idle"]
  /\ forced' = [c \in Callers |-> FALSE]
  /\ sent' = [c \in Callers |-> NoToken]
  /\ saving' = [c \in Callers |-> NoSession]
  /\ session' = NoSession
  /\ pending' = 0 /\ challenge' = 0 /\ verify' = FALSE
  /\ connection' = "starting"
  /\ push' = NoCaller
  /\ receiver' = [c \in Callers |-> "none"]
  /\ \/ /\ account' \in Accounts
        /\ mailed' = IF account' = account THEN mailed ELSE 0
        /\ given' = [c \in Callers |-> Nothing]
     \/ /\ mailed # 0 /\ UNCHANGED <<account, mailed>>
        /\ given' = [c \in Callers |-> IF c = Start THEN Code(mailed) ELSE Nothing]
  /\ UNCHANGED <<disk, issued, full, revoked, images, asked, accepted, overlap>>

Bounded(c) ==
  \/ Restore(c) \/ Prepared(c) \/ CaptchaRequired(c) \/ CaptchaArrives(c)
  \/ VerificationRequired(c) \/ CodeMailed(c) \/ LoggedIn(c) \/ RequestFails(c)
  \/ CodeSaved(c) \/ Saved(c) \/ SaveFails(c)
  \/ InventoryArrives(c) \/ SessionInvalid(c) \/ DskArrives(c)
  \/ Registered(c) \/ RegistrationFails(c) \/ ReceiverTimeout(c)

Next ==
  \/ \E c \in Callers : Bounded(c) \/ ReceiverReady(c)
  \/ \E c \in Submissions : Submit(c)
  \/ \E token \in 1 .. MaxLogins : Revoke(token)
  \/ Restart

Spec == Init /\ [][Next]_vars

\* Every request and file operation ends, with an answer or an error (the requests
\* of MegaClient have a time limit), and due timers fire.  That Firebase ever
\* accepts the receiver is not assumed.
FairSpec == Spec /\ \A c \in Callers : WF_vars(Bounded(c))

-----------------------------------------------------------------------------
(***************************************************************************)
(* Properties.                                                             *)
(***************************************************************************)

Sends(c) == step[c] # "login" /\ step'[c] = "login"
SendsCode(c) == Sends(c) /\ given'[c].kind = "code" /\ ~forced'[c]

\* The token that requested the code, or a later one whose code could not be mailed.
WithItsToken(c) == sent'[c] = given'[c].number \/ sent'[c] > mailed

\* README.md: a code is submitted with the token that requested it: in the process
\* whose login had it mailed, whatever fails there, and from the options in the next
\* one, if the page had come to ask for it.  Left out, because there the code does not
\* keep it, are a code from the options whose token was not saved, since the mail is
\* sent before, and overlapping callers.
CodeUsesItsToken ==
  [][\A c \in Callers :
       SendsCode(c) => \/ WithItsToken(c) \/ overlap'
                       \/ c = Start /\ given'[c].number # asked]_vars

\* README.md: restarts do not repeat authentication.  No login that nobody asked
\* for is sent while the session file holds a token of this account that is good.
ResumesWithoutLogin ==
  [][\A c \in Callers :
       Sends(c) /\ given'[c] = Nothing
         => overlap' \/ ~(disk.account = account /\ Accepted(disk.token))]_vars

\* The client has the identifier of the image, or has logged in with it.
Current(n) == pending = n \/ (pending = 0 /\ accepted = n)

\* An answer is sent with the identifier of the image it was read from, whatever was
\* fetched, refused or could not be saved before.  Left out, because there the code
\* does not keep it, are an image that was accepted already (the login clears it before
\* the session is saved, the page only after that, so that after a failed save the
\* page asks for it once more, and the answer is sent without an identifier) and
\* overlapping callers (a repeated login or a second answer may replace the image
\* while an answer waits for the session file).
AnswerMatchesImage ==
  [][\A c \in Callers :
       Sends(c) /\ given'[c].kind = "captcha" /\ ~forced'[c]
         => Current(given'[c].number) \/ overlap']_vars

\* A gateway that calls itself connected has a receiver that is, and it is the one
\* that close() will close; with overlapping submissions another may be left.
ConnectedHasReceiver ==
  connection = "connected" /\ ~overlap => push # NoCaller /\ receiver[push] = "connected"

\* Whatever the cloud answers or leaves unanswered, no call waits for ever.
CallersFinish == \A c \in Callers : step[c] # "idle" ~> step[c] = "idle"
=============================================================================
