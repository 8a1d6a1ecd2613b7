---------------------------- MODULE StartupProofs ----------------------------
(***************************************************************************)
(* Theorems of Startup, for any submissions, accounts and bounds.          *)
(***************************************************************************)
EXTENDS Startup, TLAPS

\* The callers' variables, at a time when tokens up to n have been issued.
CallerTypes(n) ==
  /\ step \in [Callers -> Steps]
  /\ forced \in [Callers -> BOOLEAN]
  /\ given \in [Callers -> Credentials]
  /\ sent \in [Callers -> 0 .. n]
  /\ saving \in [Callers -> Sessions]
  /\ \A c \in Callers : saving[c].token \in 0 .. n
  /\ \A c \in Callers : step[c] \in Saving => saving[c].made

SessionsTyped ==
  /\ session \in Sessions /\ disk \in Sessions
  /\ session.token # 0 => session.made
  /\ {mailed, asked, session.token, disk.token} \subseteq 0 .. issued

ProviderTyped ==
  /\ {pending, challenge, accepted} \subseteq 0 .. images
  /\ connection \in {"starting", "authentication-required", "connected", "error"}
  /\ push \in Callers \cup {NoCaller}
  /\ receiver \in [Callers -> {"none", "starting", "waiting", "connected", "closed"}]

FlagsTyped == verify \in BOOLEAN /\ overlap \in BOOLEAN

CloudTyped ==
  /\ account \in Accounts
  /\ issued \in Nat /\ images \in Nat /\ restarts \in Nat
  /\ full \cup revoked \subseteq 1 .. issued

StartupTypes == CallerTypes(issued) /\ SessionsTyped /\ ProviderTyped /\ FlagsTyped /\ CloudTyped

InStartup == {"inventory", "dsk", "register", "ready"}

\* What holds until two callers are in progress at once.
Alone ==
  ~overlap =>
    /\ \A c, d \in Callers : ~At(c, "idle") /\ ~At(d, "idle") => c = d
    /\ \A c \in Callers : At(c, "idle") => ~forced[c]
    \* The page never asks for an image and a code at once.
    /\ challenge = 0 \/ ~verify
    \* A caller in progress was given what the page asked for, and nothing else
    \* has been asked for since.
    /\ \A c \in Callers : ~At(c, "idle") =>
         /\ given[c].kind # "captcha" => challenge = 0
         /\ given[c].kind # "code" => ~verify
         /\ c = Start => challenge = 0 /\ ~verify
         /\ connection # "connected"
    \* What was asked for is cleared before the startup is completed.
    /\ \A c \in Callers :
         ~At(c, "idle") /\ (step[c] \in InStartup \/ forced[c]) => challenge = 0 /\ ~verify
    /\ \A c \in Callers : step[c] \in {"register", "ready"} => push = c
    /\ connection = "connected" =>
         /\ challenge = 0 /\ ~verify
         /\ push # NoCaller /\ receiver[push] = "connected"

\* The page shows, and an answer on its way answers, the image that is pending, or one
\* that a login has been accepted with since.
ImageInv ==
  ~overlap =>
    /\ challenge # 0 => Current(challenge)
    /\ \A c \in Callers :
         ~At(c, "idle") /\ given[c].kind = "captcha" =>
           given[c].number # 0 /\ Current(given[c].number)

\* Whose the session and its file are, and what a caller knows of them.
SessionInv ==
  ~overlap =>
    /\ session.made => session.account = account
    /\ session.prepared => session.made
    /\ ~disk.made => disk.token = NoToken
    /\ \A c \in Callers : step[c] = "restore" => ~session.made
    /\ \A c \in Callers : step[c] \in Saving => saving[c] = session
    /\ \A c \in Callers : step[c] = "sendcode" => sent[c] = session.token
    /\ \A c \in Callers : step[c] = "savecode" => session.token = mailed

\* The session has the token of the last mail, or a later one, while the page asks for
\* its code, and so does the file once the page has come to ask for it.
CodeInv ==
  ~overlap =>
    /\ verify => session.made /\ session.token >= mailed
    /\ (mailed # 0 /\ asked = mailed) =>
         disk.made /\ disk.account = account /\ disk.token >= mailed
    /\ \A c \in Callers : step[c] = "sendcode" => asked < session.token
    /\ \A c \in Callers : step[c] = "save" => session.token >= mailed
    /\ \A c \in Callers : step[c] = "resave" => session = disk
    /\ \A c \in Callers :
         given[c].kind = "code" /\ ~forced[c] =>
           /\ step[c] = "restore" => c = Start /\ given[c].number = mailed /\ mailed # 0
           /\ step[c] = "prepare" =>
                /\ given[c].number = mailed
                /\ \/ session.made /\ session.token >= mailed
                   \/ c = Start /\ mailed # asked

\* The session file is of no use: another account's, or without an accepted token.
Useless == disk.account # account \/ ~Accepted(disk.token)

ResumeInv ==
  ~overlap =>
    /\ \A c \in Callers : step[c] = "inventory" => sent[c] = disk.token
    /\ \A c \in Callers : step[c] = "prepare" /\ given[c] = Nothing => Useless

-----------------------------------------------------------------------------
LEMMA StartupTypesEnough == StartupTypes => StartupTypeOK
  BY DEF StartupTypes, CallerTypes, SessionsTyped, ProviderTyped, FlagsTyped, CloudTyped, StartupTypeOK

LEMMA SessionTypes ==
  /\ NoSession \in Sessions /\ NoSession.token = 0 /\ ~NoSession.made
  /\ \A a \in Accounts : /\ EmptySession(a) \in Sessions
                         /\ EmptySession(a).token = 0 /\ EmptySession(a).made
  /\ \A s \in Sessions :
       /\ s.token \in Nat /\ s.made \in BOOLEAN
       /\ [s EXCEPT !.prepared = TRUE] \in Sessions
       /\ [s EXCEPT !.prepared = TRUE].token = s.token
       /\ [s EXCEPT !.prepared = TRUE].made = s.made
  /\ \A s \in Sessions : \A n \in Nat :
       /\ [s EXCEPT !.token = n] \in Sessions
       /\ [s EXCEPT !.token = n].token = n
       /\ [s EXCEPT !.token = n].made = s.made
<1>1. (CHOOSE a \in Accounts : TRUE) \in Accounts
  BY AccountsAssumption
<1> QED BY <1>1 DEF NoSession, EmptySession, Sessions, NoToken

LEMMA GivenTypes ==
  /\ Nothing \in Credentials
  /\ \A n \in Nat : /\ Answer(n) \in Credentials
                    /\ Code(n) \in Credentials
  BY DEF Nothing, Answer, Code, Credentials

\* What a save leaves on the disk is a session, or nothing that can be read.
LEMMA WrittenTypes ==
  ASSUME StartupTypes, NEW c \in Callers, NEW s \in Written(c)
  PROVE  s \in Sessions /\ s.token \in 0 .. issued
<1>1. s = NoSession \/ \E o \in Callers : s = saving[o]
  BY DEF Written
<1> QED BY <1>1, SessionTypes DEF StartupTypes, CallerTypes, ProviderTyped, FlagsTyped, CloudTyped

LEMMA FinishTypes ==
  ASSUME NEW n \in Nat, CallerTypes(n), NEW c \in Callers, Finish(c)
  PROVE  CallerTypes(n)'
  BY SessionTypes, GivenTypes DEF CallerTypes, Finish, To, Steps, Saving, NoToken

LEMMA SendTypes ==
  ASSUME NEW n \in Nat, CallerTypes(n), NEW c \in Callers, NEW s \in Steps \ Saving,
         NEW m \in Nat, n <= m, NEW token \in 0 .. m, Send(c, s, token)
  PROVE  CallerTypes(m)'
  BY DEF CallerTypes, Send, To

LEMMA SaveTypes ==
  ASSUME NEW n \in Nat, CallerTypes(n), NEW c \in Callers, NEW s \in Saving,
         NEW m \in Nat, n <= m,
         NEW toSave \in Sessions, toSave.made, toSave.token \in 0 .. m, Save(c, s, toSave)
  PROVE  CallerTypes(m)'
  BY DEF CallerTypes, Save, To, Saving, Steps

\* What is submitted is an answer to what the page asks for.
LEMMA SubmitGives ==
  ASSUME NEW c \in Callers, Submit(c)
  PROVE  \E cr \in {Answer(challenge), Code(mailed)} :
           /\ given' = [given EXCEPT ![c] = cr]
           /\ \/ cr.kind = "captcha" /\ challenge # 0
              \/ cr.kind = "code" /\ verify
<1>1. PICK cr \in (IF challenge # 0 THEN {Answer(challenge)} ELSE {})
                    \cup (IF verify THEN {Code(mailed)} ELSE {}) :
        given' = [given EXCEPT ![c] = cr]
  BY DEF Submit
<1>2. CASE cr = Answer(challenge) /\ challenge # 0
  BY <1>1, <1>2 DEF Answer
<1>3. CASE cr = Code(mailed) /\ verify
  BY <1>1, <1>3 DEF Code
<1> QED BY <1>1, <1>2, <1>3

LEMMA InitTypes == Init => StartupTypes
<1> SUFFICES ASSUME Init PROVE StartupTypes
  OBVIOUS
<1>1. (CHOOSE a \in Accounts : TRUE) \in Accounts
  BY AccountsAssumption
<1>2. CallerTypes(issued)
  BY SessionTypes, GivenTypes DEF Init, CallerTypes, Steps, Saving, NoToken
<1>3. SessionsTyped
  BY SessionTypes DEF Init, SessionsTyped
<1>4. ProviderTyped
  BY DEF Init, ProviderTyped
<1>5. FlagsTyped
  BY DEF Init, FlagsTyped
<1>6. CloudTyped
  BY <1>1 DEF Init, CloudTyped
<1> QED BY <1>2, <1>3, <1>4, <1>5, <1>6 DEF StartupTypes

LEMMA StepTypes ==
  ASSUME StartupTypes, [Next]_vars
  PROVE  StartupTypes'
<1> USE DEF StartupTypes, callers, client, provider, cloud, outside
<1>0. /\ Start \in Callers /\ Submissions \subseteq Callers
      /\ issued \in Nat /\ session \in Sessions /\ session.token \in 0 .. issued
      /\ session.token # 0 => session.made
      /\ NoToken \in 0 .. issued /\ mailed \in Nat /\ asked \in Nat /\ challenge \in Nat
      /\ {"inventory", "dsk", "register", "captcha", "sendcode", "login", "prepare"}
           \subseteq Steps \ Saving
  BY DEF Callers, ProviderTyped, FlagsTyped, CloudTyped, SessionsTyped, NoToken, Steps, Saving
<1>1. ASSUME NEW c \in Callers, Restore(c) PROVE StartupTypes'
  <2>0. /\ session' \in Sessions /\ session'.token \in 0 .. issued
        /\ session'.token # 0 => session'.made
    BY <1>0, <1>1, SessionTypes DEF Restore, SessionsTyped, ProviderTyped, FlagsTyped, CloudTyped
  <2>1. CallerTypes(issued)'
    BY <1>0, <1>1, <2>0, SendTypes, SaveTypes
    DEF Restore, Resume, Authenticated, Saving, NoToken
  <2>2. SessionsTyped'
    BY <1>1, <2>0 DEF Restore, SessionsTyped, CloudTyped
  <2>3. ProviderTyped'
    BY <1>1, <2>0 DEF Restore, ProviderTyped, CloudTyped
  <2>4. CloudTyped'
    BY <1>1, <2>0 DEF Restore, CloudTyped
  <2>5. FlagsTyped'
    BY <1>1 DEF Restore, FlagsTyped
  <2> QED BY <2>1, <2>2, <2>3, <2>4, <2>5
<1>2. ASSUME NEW c \in Callers, Prepared(c) PROVE StartupTypes'
  <2>0. /\ session' \in Sessions /\ session'.token \in 0 .. issued
        /\ session'.token # 0 => session'.made
    BY <1>0, <1>2, SessionTypes DEF Prepared, ProviderTyped, FlagsTyped, CloudTyped
  <2>1. CallerTypes(issued)'
    BY <1>0, <1>2, <2>0, SendTypes DEF Prepared
  <2>2. SessionsTyped'
    BY <1>2, <2>0 DEF Prepared, SessionsTyped, CloudTyped
  <2>3. ProviderTyped'
    BY <1>2, <2>0 DEF Prepared, ProviderTyped, CloudTyped
  <2>4. CloudTyped'
    BY <1>2, <2>0 DEF Prepared, CloudTyped
  <2>5. FlagsTyped'
    BY <1>2 DEF Prepared, FlagsTyped
  <2> QED BY <2>1, <2>2, <2>3, <2>4, <2>5
<1>3. ASSUME NEW c \in Callers, CaptchaRequired(c) PROVE StartupTypes'
  <2>1. CallerTypes(issued)'
    BY <1>0, <1>3, SendTypes DEF CaptchaRequired
  <2>2. SessionsTyped'
    BY <1>3 DEF CaptchaRequired, SessionsTyped, CloudTyped
  <2>3. ProviderTyped'
    BY <1>3 DEF CaptchaRequired, ProviderTyped, CloudTyped
  <2>4. CloudTyped'
    BY <1>3 DEF CaptchaRequired, CloudTyped
  <2>5. FlagsTyped'
    BY <1>3 DEF CaptchaRequired, FlagsTyped
  <2> QED BY <2>1, <2>2, <2>3, <2>4, <2>5
<1>4. ASSUME NEW c \in Callers, CaptchaArrives(c) PROVE StartupTypes'
  <2>1. CallerTypes(issued)'
    BY <1>0, <1>4, FinishTypes DEF CaptchaArrives, AskUser, Submitted
  <2>2. SessionsTyped'
    BY <1>4 DEF CaptchaArrives, AskUser, Submitted, SessionsTyped, CloudTyped
  <2>3. ProviderTyped'
    BY <1>4 DEF CaptchaArrives, AskUser, Submitted, ProviderTyped, CloudTyped
  <2>4. CloudTyped'
    BY <1>4 DEF CaptchaArrives, AskUser, Submitted, CloudTyped
  <2>5. FlagsTyped'
    BY <1>4 DEF CaptchaArrives, AskUser, Submitted, FlagsTyped
  <2> QED BY <2>1, <2>2, <2>3, <2>4, <2>5
<1>5. ASSUME NEW c \in Callers, VerificationRequired(c) PROVE StartupTypes'
  <2>0. /\ issued' \in Nat /\ issued <= issued' /\ issued' \in 0 .. issued'
        /\ session' \in Sessions /\ session'.token = issued' /\ session'.made
    BY <1>0, <1>5, SessionTypes DEF VerificationRequired
  <2>1. CallerTypes(issued)'
    BY <1>0, <1>5, <2>0, SendTypes DEF VerificationRequired
  <2>2. SessionsTyped'
    BY <1>5, <2>0 DEF VerificationRequired, SessionsTyped, CloudTyped
  <2>3. ProviderTyped'
    BY <1>5, <2>0 DEF VerificationRequired, ProviderTyped, CloudTyped
  <2>4. CloudTyped'
    BY <1>5, <2>0 DEF VerificationRequired, CloudTyped
  <2>5. FlagsTyped'
    BY <1>5 DEF VerificationRequired, FlagsTyped
  <2> QED BY <2>1, <2>2, <2>3, <2>4, <2>5
<1>6. ASSUME NEW c \in Callers, CodeMailed(c) PROVE StartupTypes'
  <2>1. CallerTypes(issued)'
    BY <1>0, <1>6, SaveTypes, FinishTypes DEF CodeMailed, Throw, Saving
  <2>2. SessionsTyped'
    BY <1>6 DEF CodeMailed, Save, Throw, Finish, SessionsTyped, CloudTyped, CallerTypes
  <2>3. ProviderTyped'
    BY <1>6 DEF CodeMailed, Save, Throw, Finish, ProviderTyped, CloudTyped, CallerTypes
  <2>4. CloudTyped'
    BY <1>6 DEF CodeMailed, Save, Throw, Finish, CloudTyped, CallerTypes
  <2>5. FlagsTyped'
    BY <1>6 DEF CodeMailed, Save, Throw, Finish, FlagsTyped
  <2> QED BY <2>1, <2>2, <2>3, <2>4, <2>5
<1>7. ASSUME NEW c \in Callers, LoggedIn(c) PROVE StartupTypes'
  <2>0. /\ issued' \in Nat /\ issued <= issued' /\ issued' \in 0 .. issued'
        /\ session' \in Sessions /\ session'.token = issued' /\ session'.made
    BY <1>0, <1>7, SessionTypes DEF LoggedIn
  <2>1. CallerTypes(issued)'
    BY <1>0, <1>7, <2>0, SaveTypes DEF LoggedIn, Saving
  <2>2. SessionsTyped'
    BY <1>7, <2>0 DEF LoggedIn, SessionsTyped, CloudTyped
  <2>3. ProviderTyped'
    BY <1>7, <2>0 DEF LoggedIn, ProviderTyped, CloudTyped
  <2>4. CloudTyped'
    BY <1>7, <2>0 DEF LoggedIn, CloudTyped
  <2>5. FlagsTyped'
    BY <1>7 DEF LoggedIn, FlagsTyped
  <2> QED BY <2>1, <2>2, <2>3, <2>4, <2>5
<1>8. ASSUME NEW c \in Callers, RequestFails(c) PROVE StartupTypes'
  <2>1. CallerTypes(issued)'
    BY <1>0, <1>8, FinishTypes DEF RequestFails, Throw
  <2>2. SessionsTyped'
    BY <1>8 DEF RequestFails, Throw, SessionsTyped, CloudTyped
  <2>3. ProviderTyped'
    BY <1>8 DEF RequestFails, Throw, ProviderTyped, CloudTyped
  <2>4. CloudTyped'
    BY <1>8 DEF RequestFails, Throw, CloudTyped
  <2>5. FlagsTyped'
    BY <1>8 DEF RequestFails, Throw, FlagsTyped
  <2> QED BY <2>1, <2>2, <2>3, <2>4, <2>5
<1>9. ASSUME NEW c \in Callers, CodeSaved(c) PROVE StartupTypes'
  <2>1. CallerTypes(issued)'
    BY <1>0, <1>9, FinishTypes DEF CodeSaved, AskUser, Submitted
  <2>2. SessionsTyped'
    BY <1>9, WrittenTypes DEF CodeSaved, AskUser, Submitted, SessionsTyped, CloudTyped, CallerTypes
  <2>3. ProviderTyped'
    BY <1>9, WrittenTypes DEF CodeSaved, AskUser, Submitted, ProviderTyped, CloudTyped, CallerTypes
  <2>4. CloudTyped'
    BY <1>9, WrittenTypes DEF CodeSaved, AskUser, Submitted, CloudTyped, CallerTypes
  <2>5. FlagsTyped'
    BY <1>9 DEF CodeSaved, AskUser, Submitted, FlagsTyped
  <2> QED BY <2>1, <2>2, <2>3, <2>4, <2>5
<1>10. ASSUME NEW c \in Callers, Saved(c) PROVE StartupTypes'
  <2>1. CallerTypes(issued)'
    BY <1>0, <1>10, FinishTypes, SendTypes DEF Saved, Submitted, Complete, Throw
  <2>2. SessionsTyped'
    BY <1>10, WrittenTypes DEF Saved, Submitted, Complete, Throw, SessionsTyped, CloudTyped
  <2>3. ProviderTyped'
    BY <1>10, WrittenTypes DEF Saved, Submitted, Complete, Throw, ProviderTyped, CloudTyped
  <2>4. CloudTyped'
    BY <1>10, WrittenTypes DEF Saved, Submitted, Complete, Throw, CloudTyped
  <2>5. FlagsTyped'
    BY <1>10 DEF Saved, Submitted, Complete, Throw, FlagsTyped
  <2> QED BY <2>1, <2>2, <2>3, <2>4, <2>5
<1>11. ASSUME NEW c \in Callers, SaveFails(c) PROVE StartupTypes'
  <2>1. CallerTypes(issued)'
    BY <1>0, <1>11, FinishTypes DEF SaveFails, Throw
  <2>2. SessionsTyped'
    BY <1>11 DEF SaveFails, Throw, SessionsTyped, CloudTyped
  <2>3. ProviderTyped'
    BY <1>11 DEF SaveFails, Throw, ProviderTyped, CloudTyped
  <2>4. CloudTyped'
    BY <1>11 DEF SaveFails, Throw, CloudTyped
  <2>5. FlagsTyped'
    BY <1>11 DEF SaveFails, Throw, FlagsTyped
  <2> QED BY <2>1, <2>2, <2>3, <2>4, <2>5
<1>12. ASSUME NEW c \in Callers, InventoryArrives(c) PROVE StartupTypes'
  <2>1. CallerTypes(issued)'
    BY <1>0, <1>12, SendTypes DEF InventoryArrives
  <2>2. SessionsTyped'
    BY <1>12 DEF InventoryArrives, SessionsTyped, CloudTyped
  <2>3. ProviderTyped'
    BY <1>12 DEF InventoryArrives, ProviderTyped, CloudTyped
  <2>4. CloudTyped'
    BY <1>12 DEF InventoryArrives, CloudTyped
  <2>5. FlagsTyped'
    BY <1>12 DEF InventoryArrives, FlagsTyped
  <2> QED BY <2>1, <2>2, <2>3, <2>4, <2>5
<1>13. ASSUME NEW c \in Callers, SessionInvalid(c) PROVE StartupTypes'
  <2>1. CallerTypes(issued)'
    BY <1>0, <1>13 DEF SessionInvalid, To, CallerTypes
  <2>2. SessionsTyped'
    BY <1>0, <1>13, SessionTypes DEF SessionInvalid, SessionsTyped, CloudTyped, NoToken
  <2>3. ProviderTyped'
    BY <1>0, <1>13, SessionTypes DEF SessionInvalid, ProviderTyped, CloudTyped, NoToken
  <2>4. CloudTyped'
    BY <1>0, <1>13, SessionTypes DEF SessionInvalid, CloudTyped, NoToken
  <2>5. FlagsTyped'
    BY <1>13 DEF SessionInvalid, FlagsTyped
  <2> QED BY <2>1, <2>2, <2>3, <2>4, <2>5
<1>14. ASSUME NEW c \in Callers, DskArrives(c) PROVE StartupTypes'
  <2>1. CallerTypes(issued)'
    BY <1>0, <1>14, SendTypes DEF DskArrives
  <2>2. SessionsTyped'
    BY <1>14 DEF DskArrives, SessionsTyped, CloudTyped
  <2>3. ProviderTyped'
    BY <1>14 DEF DskArrives, ProviderTyped, CloudTyped
  <2>4. CloudTyped'
    BY <1>14 DEF DskArrives, CloudTyped
  <2>5. FlagsTyped'
    BY <1>14 DEF DskArrives, FlagsTyped
  <2> QED BY <2>1, <2>2, <2>3, <2>4, <2>5
<1>15. ASSUME NEW c \in Callers, Registered(c) PROVE StartupTypes'
  <2>1. CallerTypes(issued)'
    BY <1>15 DEF Registered, To, CallerTypes, Steps, Saving
  <2>2. SessionsTyped'
    BY <1>15 DEF Registered, SessionsTyped, CloudTyped
  <2>3. ProviderTyped'
    BY <1>15 DEF Registered, ProviderTyped, CloudTyped
  <2>4. CloudTyped'
    BY <1>15 DEF Registered, CloudTyped
  <2>5. FlagsTyped'
    BY <1>15 DEF Registered, FlagsTyped
  <2> QED BY <2>1, <2>2, <2>3, <2>4, <2>5
<1>16. ASSUME NEW c \in Callers, RegistrationFails(c) PROVE StartupTypes'
  <2>1. CallerTypes(issued)'
    BY <1>0, <1>16, FinishTypes DEF RegistrationFails, Throw
  <2>2. SessionsTyped'
    BY <1>16 DEF RegistrationFails, Throw, SessionsTyped, CloudTyped
  <2>3. ProviderTyped'
    BY <1>16 DEF RegistrationFails, Throw, ProviderTyped, CloudTyped
  <2>4. CloudTyped'
    BY <1>16 DEF RegistrationFails, Throw, CloudTyped
  <2>5. FlagsTyped'
    BY <1>16 DEF RegistrationFails, Throw, FlagsTyped
  <2> QED BY <2>1, <2>2, <2>3, <2>4, <2>5
<1>17. ASSUME NEW c \in Callers, ReceiverReady(c) PROVE StartupTypes'
  <2>1. CallerTypes(issued)'
    BY <1>0, <1>17, FinishTypes DEF ReceiverReady
  <2>2. SessionsTyped'
    BY <1>17 DEF ReceiverReady, SessionsTyped, CloudTyped
  <2>3. ProviderTyped'
    BY <1>17 DEF ReceiverReady, ProviderTyped, CloudTyped
  <2>4. CloudTyped'
    BY <1>17 DEF ReceiverReady, CloudTyped
  <2>5. FlagsTyped'
    BY <1>17 DEF ReceiverReady, FlagsTyped
  <2> QED BY <2>1, <2>2, <2>3, <2>4, <2>5
<1>18. ASSUME NEW c \in Callers, ReceiverTimeout(c) PROVE StartupTypes'
  <2>1. CallerTypes(issued)'
    BY <1>0, <1>18, FinishTypes DEF ReceiverTimeout, Throw
  <2>2. SessionsTyped'
    BY <1>18 DEF ReceiverTimeout, Throw, SessionsTyped, CloudTyped
  <2>3. ProviderTyped'
    BY <1>18 DEF ReceiverTimeout, Throw, ProviderTyped, CloudTyped
  <2>4. CloudTyped'
    BY <1>18 DEF ReceiverTimeout, Throw, CloudTyped
  <2>5. FlagsTyped'
    BY <1>18 DEF ReceiverTimeout, Throw, FlagsTyped
  <2> QED BY <2>1, <2>2, <2>3, <2>4, <2>5
<1>19. ASSUME NEW c \in Submissions, Submit(c) PROVE StartupTypes'
  <2>0. given' \in [Callers -> Credentials]
    BY <1>0, <1>19, SubmitGives, GivenTypes DEF CallerTypes
  <2>1. CallerTypes(issued)'
    BY <1>0, <1>19, <2>0
    DEF Submit, At, To, CallerTypes, SessionsTyped, CloudTyped, Steps, Saving, NoToken
  <2>2. SessionsTyped'
    BY <1>19 DEF Submit, SessionsTyped, CloudTyped
  <2>3. ProviderTyped'
    BY <1>19 DEF Submit, ProviderTyped, CloudTyped
  <2>4. CloudTyped'
    BY <1>19 DEF Submit, CloudTyped
  <2>5. FlagsTyped'
    BY <1>19 DEF Submit, FlagsTyped
  <2> QED BY <2>1, <2>2, <2>3, <2>4, <2>5
<1>20. ASSUME NEW token \in 1 .. MaxLogins, Revoke(token) PROVE StartupTypes'
  BY <1>20 DEF Revoke, Accepted, CallerTypes, SessionsTyped, ProviderTyped, FlagsTyped, CloudTyped
<1>21. CASE Restart
  <2>1. CallerTypes(issued)'
    <3>1. given' \in [Callers -> Credentials]
      BY <1>0, <1>21, GivenTypes DEF Restart
    <3> QED
      BY <1>0, <1>21, <3>1, SessionTypes
      DEF Restart, CallerTypes, SessionsTyped, Steps, Saving, NoToken
  <2>2. SessionsTyped'
    BY <1>0, <1>21, SessionTypes DEF Restart, SessionsTyped, CloudTyped
  <2>3. ProviderTyped'
    BY <1>0, <1>21, SessionTypes DEF Restart, ProviderTyped, CloudTyped
  <2>4. CloudTyped'
    BY <1>0, <1>21, SessionTypes DEF Restart, CloudTyped
  <2>5. FlagsTyped'
    BY <1>21 DEF Restart, FlagsTyped
  <2> QED BY <2>1, <2>2, <2>3, <2>4, <2>5
<1>22. CASE UNCHANGED vars
  BY <1>22 DEF vars, CallerTypes, SessionsTyped, ProviderTyped, FlagsTyped, CloudTyped
<1> QED
  BY <1>1, <1>2, <1>3, <1>4, <1>5, <1>6, <1>7, <1>8, <1>9, <1>10, <1>11, <1>12, <1>13, <1>14, <1>15, <1>16, <1>17, <1>18, <1>19, <1>20, <1>21, <1>22
  DEF Next, Bounded

LEMMA TypesInvariant == Spec => []StartupTypes
  BY InitTypes, StepTypes, PTL DEF Spec

-----------------------------------------------------------------------------
LEMMA InitAlone == Init => Alone
  BY CallersAssumption DEF Init, Alone, Callers, At, Nothing, InStartup

\* A caller goes on to another await of connect.
LEMMA PassAlone ==
  ASSUME StartupTypes, Alone, NEW c \in Callers, ~At(c, "idle"),
         NEW s \in Steps \ (InStartup \cup {"idle"}), step' = [step EXCEPT ![c] = s],
         UNCHANGED <<forced, given, provider, overlap>>
  PROVE  Alone'
<1>1. \A d \in Callers : (At(d, "idle") <=> At(d, "idle")')
  BY DEF StartupTypes, CallerTypes, At
<1>2. \A d \in Callers : step'[d] \in InStartup => step[d] = step'[d]
  BY DEF StartupTypes, CallerTypes
<1> QED BY <1>1, <1>2 DEF Alone, InStartup, provider

\* A caller is done, and nothing new has been asked for.
LEMMA FinishAlone ==
  ASSUME StartupTypes, Alone, NEW c \in Callers, Finish(c), connection' \in {connection, "error"},
         UNCHANGED <<challenge, verify, push, receiver, overlap>>
  PROVE  Alone'
  BY DEF StartupTypes, CallerTypes, Alone, Finish, To, At, InStartup

\* A submission begins: it answers what the page asks for.
LEMMA SubmitAlone ==
  ASSUME StartupTypes, Alone, NEW c \in Submissions, Submit(c)
  PROVE  Alone'
<1>0. c \in Callers /\ c # Start
  BY CallersAssumption DEF Callers
<1>1. PICK cr \in {Answer(challenge), Code(mailed)} :
        /\ given' = [given EXCEPT ![c] = cr]
        /\ \/ cr.kind = "captcha" /\ challenge # 0
           \/ cr.kind = "code" /\ verify
  BY <1>0, SubmitGives
<1>2. /\ step[c] = "idle"
      /\ step' = [step EXCEPT ![c] = step'[c]] /\ step'[c] \in {"restore", "login", "prepare"}
      /\ overlap' = (overlap \/ \E other \in Callers \ {c} : ~At(other, "idle"))
      /\ UNCHANGED <<forced, challenge, verify, connection, push, receiver>>
  BY <1>0 DEF Submit, At, To, provider, StartupTypes, CallerTypes
<1> SUFFICES ASSUME ~overlap' PROVE Alone'
  BY DEF Alone
<1>3. ~overlap /\ \A d \in Callers : d # c => step[d] = "idle" /\ step'[d] = "idle"
  BY <1>0, <1>2 DEF At, StartupTypes, CallerTypes
<1>4. /\ given'[c] = cr /\ connection # "connected"
      /\ challenge = 0 \/ ~verify
      /\ ~forced[c]
  BY <1>0, <1>1, <1>2, <1>3 DEF Alone, At, StartupTypes, CallerTypes
<1> QED BY <1>0, <1>1, <1>2, <1>3, <1>4 DEF Alone, At, InStartup, StartupTypes, CallerTypes

LEMMA StepAlone ==
  ASSUME StartupTypes, Alone, [Next]_vars
  PROVE  Alone'
<1> USE DEF StartupTypes, CallerTypes, ProviderTyped, FlagsTyped, CloudTyped, Alone, InStartup, At, callers, client, provider,
            cloud, outside
<1>0. Start \in Callers /\ Submissions \subseteq Callers /\ NoCaller \notin Callers
  BY CallersAssumption DEF Callers
<1>1. ASSUME NEW c \in Callers, Restore(c) PROVE Alone'
  BY <1>1, PassAlone DEF Restore, Resume, Send, Save, To
<1>2. ASSUME NEW c \in Callers, Prepared(c) PROVE Alone'
  BY <1>0, <1>2 DEF Prepared, To, Send
<1>3. ASSUME NEW c \in Callers, CaptchaRequired(c) PROVE Alone'
  BY <1>0, <1>3 DEF CaptchaRequired, To, Send
<1>4. ASSUME NEW c \in Callers, CaptchaArrives(c) PROVE Alone'
  BY <1>0, <1>4 DEF CaptchaArrives, To, AskUser, Submitted, Finish
<1>5. ASSUME NEW c \in Callers, VerificationRequired(c) PROVE Alone'
  BY <1>0, <1>5 DEF VerificationRequired, To, Send
<1>6. ASSUME NEW c \in Callers, CodeMailed(c) PROVE Alone'
  BY <1>6, PassAlone, FinishAlone DEF CodeMailed, Save, Throw, To
<1>7. ASSUME NEW c \in Callers, LoggedIn(c) PROVE Alone'
  BY <1>0, <1>7 DEF LoggedIn, To, Save
<1>8. ASSUME NEW c \in Callers, RequestFails(c) PROVE Alone'
  BY <1>0, <1>8 DEF RequestFails, To, Throw, Finish
<1>9. ASSUME NEW c \in Callers, CodeSaved(c) PROVE Alone'
  BY <1>0, <1>9 DEF CodeSaved, To, AskUser, Submitted, Finish
<1>10. ASSUME NEW c \in Callers, Saved(c) PROVE Alone'
  BY <1>0, <1>10 DEF Saved, Submitted, To, Complete, Authenticated, Send, Throw, Finish
<1>11. ASSUME NEW c \in Callers, SaveFails(c) PROVE Alone'
  BY <1>0, <1>11 DEF SaveFails, To, Throw, Finish
<1>12. ASSUME NEW c \in Callers, InventoryArrives(c) PROVE Alone'
  BY <1>0, <1>12 DEF InventoryArrives, To, Send
<1>13. ASSUME NEW c \in Callers, SessionInvalid(c) PROVE Alone'
  BY <1>0, <1>13 DEF SessionInvalid, To
<1>14. ASSUME NEW c \in Callers, DskArrives(c) PROVE Alone'
  BY <1>0, <1>14 DEF DskArrives, To, Send
<1>15. ASSUME NEW c \in Callers, Registered(c) PROVE Alone'
  BY <1>0, <1>15 DEF Registered, To
<1>16. ASSUME NEW c \in Callers, RegistrationFails(c) PROVE Alone'
  BY <1>0, <1>16 DEF RegistrationFails, To, Throw, Finish
<1>17. ASSUME NEW c \in Callers, ReceiverReady(c) PROVE Alone'
  BY <1>0, <1>17 DEF ReceiverReady, To, Finish
<1>18. ASSUME NEW c \in Callers, ReceiverTimeout(c) PROVE Alone'
  BY <1>0, <1>18 DEF ReceiverTimeout, To, Throw, Finish
<1>19. ASSUME NEW c \in Submissions, Submit(c) PROVE Alone'
  BY <1>0, <1>19, SubmitAlone
<1>20. ASSUME NEW token \in 1 .. MaxLogins, Revoke(token) PROVE Alone'
  BY <1>20 DEF Revoke
<1>21. CASE Restart
  BY <1>0, <1>21 DEF Restart, Nothing, Code
<1>22. CASE UNCHANGED vars
  BY <1>22 DEF vars
<1> QED
  BY <1>1, <1>2, <1>3, <1>4, <1>5, <1>6, <1>7, <1>8, <1>9, <1>10, <1>11, <1>12, <1>13, <1>14, <1>15, <1>16, <1>17, <1>18, <1>19, <1>20, <1>21, <1>22
  DEF Next, Bounded

-----------------------------------------------------------------------------
(***************************************************************************)
(* What a submission finds: the image, the code and the session file.      *)
(***************************************************************************)

LEMMA SessionParts ==
  /\ ~NoSession.prepared /\ ~NoSession.made /\ NoSession.token = NoToken
  /\ \A a \in Accounts : LET s == EmptySession(a) IN
       s \in Sessions /\ s.account = a /\ s.made /\ ~s.prepared /\ s.token = NoToken
  /\ \A s \in Sessions : LET p == [s EXCEPT !.prepared = TRUE] IN
       p \in Sessions /\ p.account = s.account /\ p.made = s.made /\ p.prepared /\ p.token = s.token
  /\ \A s \in Sessions, n \in Nat : LET t == [s EXCEPT !.token = n] IN
       t \in Sessions /\ t.account = s.account /\ t.made = s.made
       /\ t.prepared = s.prepared /\ t.token = n
  BY SessionTypes DEF NoSession, EmptySession, Sessions, NoToken

\* As long as no calls overlapped, a caller in progress is the only one.
LEMMA OnlyOne ==
  ASSUME StartupTypes, Alone, ~overlap, NEW c \in Callers, step[c] # "idle"
  PROVE  /\ \A d \in Callers : d # c => step[d] = "idle"
         /\ Written(c) = {saving[c]}
<1>1. \A d \in Callers : d # c => step[d] = "idle"
  BY DEF Alone, At
<1>2. {o \in Callers \ {c} : step[o] \in Saving} = {}
  BY <1>1 DEF Saving
<1> QED BY <1>1, <1>2 DEF Written

\* When it throws, no caller is left in progress.
LEMMA ThrownIdle ==
  ASSUME StartupTypes, Alone, ~overlap, NEW c \in Callers, step[c] # "idle", Throw(c)
  PROVE  \A d \in Callers : step'[d] = "idle"
<1>1. \A d \in Callers : d # c => step[d] = "idle"
  BY OnlyOne
<1> QED BY <1>1 DEF Throw, Finish, To, StartupTypes, CallerTypes

\* A submission that overlaps none.
LEMMA SubmitsAlone ==
  ASSUME StartupTypes, Alone, NEW c \in Callers, Submit(c), ~overlap'
  PROVE  /\ ~overlap /\ ~forced[c]
         /\ \A d \in Callers : step[d] = "idle" /\ (d # c => step'[d] = "idle" /\ given'[d] = given[d])
         /\ \/ challenge # 0 /\ given'[c] = Answer(challenge)
            \/ verify /\ given'[c] = Code(mailed)
         /\ step'[c] = IF ~session.made THEN "restore"
                       ELSE IF session.prepared THEN "login" ELSE "prepare"
         /\ sent'[c] = IF session.made THEN session.token ELSE NoToken
         /\ UNCHANGED <<forced, saving, client, provider, disk, cloud, outside>>
<1>1. PICK cr \in {Answer(challenge), Code(mailed)} :
        /\ given' = [given EXCEPT ![c] = cr]
        /\ \/ cr.kind = "captcha" /\ challenge # 0
           \/ cr.kind = "code" /\ verify
  BY SubmitGives
<1>2. /\ \A d \in Callers : d # c => given'[d] = given[d]
      /\ \/ challenge # 0 /\ given'[c] = Answer(challenge)
         \/ verify /\ given'[c] = Code(mailed)
  BY <1>1 DEF StartupTypes, CallerTypes, Answer, Code
<1>3. ~overlap /\ \A d \in Callers : step[d] = "idle" /\ (d # c => step'[d] = "idle")
  BY DEF Submit, At, To, StartupTypes, CallerTypes
<1>4. ~forced[c]
  BY <1>3 DEF Alone, At
<1> QED BY <1>2, <1>3, <1>4 DEF Submit, To, StartupTypes, CallerTypes

LEMMA InitHistories == Init => ImageInv /\ SessionInv /\ CodeInv /\ ResumeInv
<1> SUFFICES ASSUME Init PROVE ImageInv /\ SessionInv /\ CodeInv /\ ResumeInv
  OBVIOUS
<1>1. \A c \in Callers : given[c] = Nothing /\ step[c] \in {"idle", "restore"}
  BY DEF Init
<1> QED BY <1>1, SessionTypes
        DEF Init, ImageInv, SessionInv, CodeInv, ResumeInv, NoSession, EmptySession, NoToken,
            Saving, InStartup, Nothing

LEMMA StepImage ==
  ASSUME StartupTypes, Alone, ImageInv, [Next]_vars
  PROVE  ImageInv'
<1> SUFFICES ASSUME ~overlap' PROVE ImageInv'
  BY DEF ImageInv
<1> USE DEF ImageInv, Current, StartupTypes, CallerTypes, ProviderTyped, FlagsTyped, CloudTyped, SessionsTyped, Alone, At, InStartup, callers, client, provider, cloud, outside
<1>0. Start \in Callers /\ Submissions \subseteq Callers
  BY DEF Callers
<1>1. ASSUME NEW c \in Callers, Restore(c) PROVE ImageInv'
  BY <1>1, OnlyOne DEF Restore, To, Resume, Send, Save
<1>2. ASSUME NEW c \in Callers, Prepared(c) PROVE ImageInv'
  BY <1>2, OnlyOne DEF Prepared, To, Send
<1>3. ASSUME NEW c \in Callers, CaptchaRequired(c) PROVE ImageInv'
  BY <1>3, OnlyOne DEF CaptchaRequired, To, Send
<1>4. ASSUME NEW c \in Callers, CaptchaArrives(c) PROVE ImageInv'
  BY <1>4, OnlyOne DEF CaptchaArrives, To, AskUser, Submitted, Finish
<1>5. ASSUME NEW c \in Callers, VerificationRequired(c) PROVE ImageInv'
  BY <1>5, OnlyOne DEF VerificationRequired, To, Send
<1>6. ASSUME NEW c \in Callers, CodeMailed(c) PROVE ImageInv'
  BY <1>6, OnlyOne DEF CodeMailed, To, Save, Throw, Finish
<1>7. ASSUME NEW c \in Callers, LoggedIn(c) PROVE ImageInv'
  BY <1>7, OnlyOne DEF LoggedIn, To, Save
<1>8. ASSUME NEW c \in Callers, RequestFails(c) PROVE ImageInv'
  BY <1>8, OnlyOne DEF RequestFails, To, Throw, Finish
<1>9. ASSUME NEW c \in Callers, CodeSaved(c) PROVE ImageInv'
  BY <1>9, OnlyOne DEF CodeSaved, To, AskUser, Submitted, Finish
<1>10. ASSUME NEW c \in Callers, Saved(c) PROVE ImageInv'
  BY <1>10, OnlyOne DEF Saved, Submitted, To, Complete, Authenticated, Send, Throw, Finish
<1>11. ASSUME NEW c \in Callers, SaveFails(c) PROVE ImageInv'
  BY <1>11, OnlyOne DEF SaveFails, To, Throw, Finish
<1>12. ASSUME NEW c \in Callers, InventoryArrives(c) PROVE ImageInv'
  BY <1>12, OnlyOne DEF InventoryArrives, To, Send
<1>13. ASSUME NEW c \in Callers, SessionInvalid(c) PROVE ImageInv'
  BY <1>13, OnlyOne DEF SessionInvalid, To
<1>14. ASSUME NEW c \in Callers, DskArrives(c) PROVE ImageInv'
  BY <1>14, OnlyOne DEF DskArrives, To, Send
<1>15. ASSUME NEW c \in Callers, Registered(c) PROVE ImageInv'
  BY <1>15, OnlyOne DEF Registered, To
<1>16. ASSUME NEW c \in Callers, RegistrationFails(c) PROVE ImageInv'
  BY <1>16, OnlyOne DEF RegistrationFails, To, Throw, Finish
<1>17. ASSUME NEW c \in Callers, ReceiverReady(c) PROVE ImageInv'
  BY <1>17, OnlyOne DEF ReceiverReady, To, Finish
<1>18. ASSUME NEW c \in Callers, ReceiverTimeout(c) PROVE ImageInv'
  BY <1>18, OnlyOne DEF ReceiverTimeout, To, Throw, Finish
<1>19. ASSUME NEW c \in Submissions, Submit(c) PROVE ImageInv'
  BY <1>0, <1>19, SubmitsAlone DEF Answer, Code, Saving
<1>20. ASSUME NEW token \in 1 .. MaxLogins, Revoke(token) PROVE ImageInv'
  BY <1>20 DEF Revoke
<1>21. CASE Restart
  BY <1>0, <1>21 DEF Restart, Nothing, Code, Answer
<1>22. CASE UNCHANGED vars
  BY <1>22 DEF vars
<1> QED
  BY <1>1, <1>2, <1>3, <1>4, <1>5, <1>6, <1>7, <1>8, <1>9, <1>10, <1>11, <1>12, <1>13, <1>14, <1>15, <1>16, <1>17, <1>18, <1>19, <1>20, <1>21, <1>22
  DEF Next, Bounded

LEMMA StepSession ==
  ASSUME StartupTypes, Alone, SessionInv, [Next]_vars
  PROVE  SessionInv'
<1> SUFFICES ASSUME ~overlap' PROVE SessionInv'
  BY DEF SessionInv
<1> USE DEF SessionInv, Saving, StartupTypes, CallerTypes, ProviderTyped, FlagsTyped, CloudTyped, SessionsTyped, Alone, At, InStartup, callers, client, provider, cloud, outside
<1>0. Start \in Callers /\ Submissions \subseteq Callers
  BY DEF Callers
<1>1. ASSUME NEW c \in Callers, Restore(c) PROVE SessionInv'
  <2>1. /\ step[c] = "restore" /\ ~session.made /\ ~session.prepared /\ ~overlap
        /\ \A d \in Callers : d # c => step[d] = "idle"
        /\ UNCHANGED <<disk, account, mailed>>
    BY <1>1, OnlyOne DEF Restore
  <2>2. /\ \A d \in Callers : d # c => step'[d] = "idle"
        /\ step'[c] \in {"resave", "prepare", "login"}
        /\ step'[c] = "resave" => saving'[c] = session'
    BY <1>1, <2>1 DEF Restore, To, Resume, Send, Save
  <2>3. /\ session'.made => session'.account = account
        /\ session'.prepared => session'.made
    <3>1. CASE ~disk.made
      BY <1>1, <2>1, <3>1 DEF Restore
    <3>2. CASE disk.made
      BY <1>1, <2>1, <3>2, SessionParts DEF Restore
    <3> QED BY <3>1, <3>2
  <2> QED BY <2>1, <2>2, <2>3
<1>2. ASSUME NEW c \in Callers, Prepared(c) PROVE SessionInv'
  BY <1>2, OnlyOne, SessionParts DEF Prepared, To, Send
<1>3. ASSUME NEW c \in Callers, CaptchaRequired(c) PROVE SessionInv'
  BY <1>3, OnlyOne, SessionParts DEF CaptchaRequired, To, Send
<1>4. ASSUME NEW c \in Callers, CaptchaArrives(c) PROVE SessionInv'
  BY <1>4, OnlyOne, SessionParts DEF CaptchaArrives, To, AskUser, Submitted, Finish
<1>5. ASSUME NEW c \in Callers, VerificationRequired(c) PROVE SessionInv'
  BY <1>5, OnlyOne, SessionParts DEF VerificationRequired, To, Send
<1>6. ASSUME NEW c \in Callers, CodeMailed(c) PROVE SessionInv'
  <2>1. CASE session.made
    BY <1>6, <2>1, OnlyOne DEF CodeMailed, To, Save
  <2>2. CASE ~session.made
    BY <1>6, <2>2, OnlyOne DEF CodeMailed, To, Throw, Finish
  <2> QED BY <2>1, <2>2
<1>7. ASSUME NEW c \in Callers, LoggedIn(c) PROVE SessionInv'
  BY <1>7, OnlyOne, SessionParts DEF LoggedIn, To, Save
<1>8. ASSUME NEW c \in Callers, RequestFails(c) PROVE SessionInv'
  BY <1>8, OnlyOne, SessionParts DEF RequestFails, To, Throw, Finish
<1>9. ASSUME NEW c \in Callers, CodeSaved(c) PROVE SessionInv'
  BY <1>9, OnlyOne, SessionParts DEF CodeSaved, To, AskUser, Submitted, Finish
<1>10. ASSUME NEW c \in Callers, Saved(c) PROVE SessionInv'
  <2>1. CASE Authenticated(session)
    BY <1>10, <2>1, OnlyOne, SessionParts DEF Saved, Submitted, To, Complete, Send
  <2>2. CASE ~Authenticated(session)
    <3>1. step[c] \in Saving /\ Throw(c) /\ ~overlap /\ UNCHANGED <<session, account>>
      BY <1>10, <2>2 DEF Saved, Complete
    <3>2. \A d \in Callers : step'[d] = "idle"
      BY <3>1, ThrownIdle
    <3>3. disk' = session /\ disk'.made
      BY <1>10, <3>1, OnlyOne DEF Saved
    <3> QED BY <3>1, <3>2, <3>3
  <2> QED BY <2>1, <2>2
<1>11. ASSUME NEW c \in Callers, SaveFails(c) PROVE SessionInv'
  BY <1>11, OnlyOne, SessionParts DEF SaveFails, To, Throw, Finish
<1>12. ASSUME NEW c \in Callers, InventoryArrives(c) PROVE SessionInv'
  BY <1>12, OnlyOne, SessionParts DEF InventoryArrives, To, Send
<1>13. ASSUME NEW c \in Callers, SessionInvalid(c) PROVE SessionInv'
  BY <1>13, OnlyOne, SessionParts DEF SessionInvalid, To
<1>14. ASSUME NEW c \in Callers, DskArrives(c) PROVE SessionInv'
  BY <1>14, OnlyOne, SessionParts DEF DskArrives, To, Send
<1>15. ASSUME NEW c \in Callers, Registered(c) PROVE SessionInv'
  BY <1>15, OnlyOne, SessionParts DEF Registered, To
<1>16. ASSUME NEW c \in Callers, RegistrationFails(c) PROVE SessionInv'
  BY <1>16, OnlyOne, SessionParts DEF RegistrationFails, To, Throw, Finish
<1>17. ASSUME NEW c \in Callers, ReceiverReady(c) PROVE SessionInv'
  BY <1>17, OnlyOne, SessionParts DEF ReceiverReady, To, Finish
<1>18. ASSUME NEW c \in Callers, ReceiverTimeout(c) PROVE SessionInv'
  BY <1>18, OnlyOne, SessionParts DEF ReceiverTimeout, To, Throw, Finish
<1>19. ASSUME NEW c \in Submissions, Submit(c) PROVE SessionInv'
  BY <1>0, <1>19, SubmitsAlone
<1>20. ASSUME NEW token \in 1 .. MaxLogins, Revoke(token) PROVE SessionInv'
  BY <1>20 DEF Revoke
<1>21. CASE Restart
  BY <1>0, <1>21, SessionParts DEF Restart
<1>22. CASE UNCHANGED vars
  BY <1>22 DEF vars
<1> QED
  BY <1>1, <1>2, <1>3, <1>4, <1>5, <1>6, <1>7, <1>8, <1>9, <1>10, <1>11, <1>12, <1>13, <1>14, <1>15, <1>16, <1>17, <1>18, <1>19, <1>20, <1>21, <1>22
  DEF Next, Bounded

LEMMA StepCode ==
  ASSUME StartupTypes, Alone, SessionInv, CodeInv, [Next]_vars
  PROVE  CodeInv'
<1> SUFFICES ASSUME ~overlap' PROVE CodeInv'
  BY DEF CodeInv
<1> USE DEF CodeInv, SessionInv, Saving, StartupTypes, CallerTypes, ProviderTyped, FlagsTyped, CloudTyped, SessionsTyped, Alone, At, InStartup, callers, client, provider, cloud, outside
<1>0. Start \in Callers /\ Submissions \subseteq Callers
  BY DEF Callers
<1>1. ASSUME NEW c \in Callers, Restore(c) PROVE CodeInv'
  <2>1. /\ step[c] = "restore" /\ ~session.made /\ ~verify /\ ~overlap
        /\ \A d \in Callers : d # c => step[d] = "idle"
        /\ UNCHANGED <<given, forced, verify, mailed, asked, disk, account>>
    BY <1>1, OnlyOne DEF Restore, Resume, Send, Save
  <2>2. /\ \A d \in Callers : d # c => step'[d] = "idle"
        /\ step'[c] \in {"resave", "prepare", "login"}
        /\ step'[c] = "resave" => session'.token # NoToken
    BY <1>1, <2>1 DEF Restore, To, Resume, Send, Save, Authenticated
  <2>3. session' # disk => session'.token = NoToken
    BY <1>1, <2>1, SessionParts DEF Restore, NoToken
  <2>4. disk.made /\ disk.account = account => session' = disk
    BY <1>1 DEF Restore
  <2> QED BY <2>1, <2>2, <2>3, <2>4
<1>2. ASSUME NEW c \in Callers, Prepared(c) PROVE CodeInv'
  BY <1>2, OnlyOne, SessionParts DEF Prepared, To, Send
<1>3. ASSUME NEW c \in Callers, CaptchaRequired(c) PROVE CodeInv'
  BY <1>3, OnlyOne, SessionParts DEF CaptchaRequired, To, Send
<1>4. ASSUME NEW c \in Callers, CaptchaArrives(c) PROVE CodeInv'
  BY <1>4, OnlyOne, SessionParts DEF CaptchaArrives, To, AskUser, Submitted, Finish
<1>5. ASSUME NEW c \in Callers, VerificationRequired(c) PROVE CodeInv'
  BY <1>5, OnlyOne, SessionParts DEF VerificationRequired, To, Send
<1>6. ASSUME NEW c \in Callers, CodeMailed(c) PROVE CodeInv'
  <2>1. /\ step[c] = "sendcode" /\ mailed' = session.token /\ ~overlap
        /\ \A d \in Callers : d # c => step[d] = "idle"
        /\ UNCHANGED <<verify, session, disk, asked, account>>
    BY <1>6, OnlyOne DEF CodeMailed
  <2>2. \A d \in Callers : step'[d] \in {"idle", "savecode"}
    BY <1>6, <2>1 DEF CodeMailed, To, Save, Throw, Finish
  <2>3. asked # mailed'
    BY <2>1
  <2> QED BY <2>1, <2>2, <2>3
<1>7. ASSUME NEW c \in Callers, LoggedIn(c) PROVE CodeInv'
  BY <1>7, OnlyOne, SessionParts DEF LoggedIn, To, Save
<1>8. ASSUME NEW c \in Callers, RequestFails(c) PROVE CodeInv'
  BY <1>8, OnlyOne, SessionParts DEF RequestFails, To, Throw, Finish
<1>9. ASSUME NEW c \in Callers, CodeSaved(c) PROVE CodeInv'
  BY <1>9, OnlyOne, SessionParts DEF CodeSaved, To, AskUser, Submitted, Finish
<1>10. ASSUME NEW c \in Callers, Saved(c) PROVE CodeInv'
  <2>1. /\ step[c] \in {"resave", "save"} /\ ~overlap /\ disk' = session
        /\ session.made /\ session.account = account
        /\ verify' => verify
        /\ \A d \in Callers : d # c => step[d] = "idle"
        /\ UNCHANGED <<session, mailed, asked, account>>
    BY <1>10, OnlyOne DEF Saved
  <2>2. \A d \in Callers : step'[d] \in {"idle", "inventory"}
    BY <1>10, <2>1 DEF Saved, Complete, Send, Throw, Finish, To
  <2>3. step[c] = "resave" => session = disk
    BY <2>1
  <2>4. step[c] = "save" => session.token >= mailed
    BY <2>1
  <2> QED BY <2>1, <2>2, <2>3, <2>4
<1>11. ASSUME NEW c \in Callers, SaveFails(c) PROVE CodeInv'
  BY <1>11, OnlyOne, SessionParts DEF SaveFails, To, Throw, Finish
<1>12. ASSUME NEW c \in Callers, InventoryArrives(c) PROVE CodeInv'
  BY <1>12, OnlyOne, SessionParts DEF InventoryArrives, To, Send
<1>13. ASSUME NEW c \in Callers, SessionInvalid(c) PROVE CodeInv'
  BY <1>13, OnlyOne, SessionParts DEF SessionInvalid, To
<1>14. ASSUME NEW c \in Callers, DskArrives(c) PROVE CodeInv'
  BY <1>14, OnlyOne, SessionParts DEF DskArrives, To, Send
<1>15. ASSUME NEW c \in Callers, Registered(c) PROVE CodeInv'
  BY <1>15, OnlyOne, SessionParts DEF Registered, To
<1>16. ASSUME NEW c \in Callers, RegistrationFails(c) PROVE CodeInv'
  BY <1>16, OnlyOne, SessionParts DEF RegistrationFails, To, Throw, Finish
<1>17. ASSUME NEW c \in Callers, ReceiverReady(c) PROVE CodeInv'
  BY <1>17, OnlyOne, SessionParts DEF ReceiverReady, To, Finish
<1>18. ASSUME NEW c \in Callers, ReceiverTimeout(c) PROVE CodeInv'
  BY <1>18, OnlyOne, SessionParts DEF ReceiverTimeout, To, Throw, Finish
<1>19. ASSUME NEW c \in Submissions, Submit(c) PROVE CodeInv'
  BY <1>0, <1>19, SubmitsAlone DEF Answer, Code, Saving
<1>20. ASSUME NEW token \in 1 .. MaxLogins, Revoke(token) PROVE CodeInv'
  BY <1>20 DEF Revoke
<1>21. CASE Restart
  BY <1>0, <1>21 DEF Restart, Nothing, Code, Answer
<1>22. CASE UNCHANGED vars
  BY <1>22 DEF vars
<1> QED
  BY <1>1, <1>2, <1>3, <1>4, <1>5, <1>6, <1>7, <1>8, <1>9, <1>10, <1>11, <1>12, <1>13, <1>14, <1>15, <1>16, <1>17, <1>18, <1>19, <1>20, <1>21, <1>22
  DEF Next, Bounded

LEMMA StepResume ==
  ASSUME StartupTypes, Alone, SessionInv, ResumeInv, [Next]_vars
  PROVE  ResumeInv'
<1> SUFFICES ASSUME ~overlap' PROVE ResumeInv'
  BY DEF ResumeInv
<1> USE DEF ResumeInv, SessionInv, Useless, Accepted, Saving, StartupTypes, CallerTypes, ProviderTyped, FlagsTyped, CloudTyped, SessionsTyped, Alone, At, InStartup, callers, client, provider, cloud, outside
<1>0. Start \in Callers /\ Submissions \subseteq Callers
  BY DEF Callers
<1>1. ASSUME NEW c \in Callers, Restore(c) PROVE ResumeInv'
  BY <1>1, OnlyOne, SessionParts DEF Restore, To, Resume, Send, Save, Authenticated, NoToken
<1>2. ASSUME NEW c \in Callers, Prepared(c) PROVE ResumeInv'
  BY <1>2, OnlyOne, SessionParts DEF Prepared, To, Send
<1>3. ASSUME NEW c \in Callers, CaptchaRequired(c) PROVE ResumeInv'
  BY <1>3, OnlyOne, SessionParts DEF CaptchaRequired, To, Send
<1>4. ASSUME NEW c \in Callers, CaptchaArrives(c) PROVE ResumeInv'
  BY <1>4, OnlyOne, SessionParts DEF CaptchaArrives, To, AskUser, Submitted, Finish
<1>5. ASSUME NEW c \in Callers, VerificationRequired(c) PROVE ResumeInv'
  BY <1>5, OnlyOne, SessionParts DEF VerificationRequired, To, Send
<1>6. ASSUME NEW c \in Callers, CodeMailed(c) PROVE ResumeInv'
  <2>1. CASE session.made
    BY <1>6, <2>1, OnlyOne, SessionParts DEF CodeMailed, To, Save
  <2>2. CASE ~session.made
    <3>1. step[c] # "idle" /\ Throw(c) /\ ~overlap
      BY <1>6, <2>2 DEF CodeMailed
    <3> QED BY <3>1, ThrownIdle
  <2> QED BY <2>1, <2>2
<1>7. ASSUME NEW c \in Callers, LoggedIn(c) PROVE ResumeInv'
  BY <1>7, OnlyOne, SessionParts DEF LoggedIn, To, Save
<1>8. ASSUME NEW c \in Callers, RequestFails(c) PROVE ResumeInv'
  BY <1>8, OnlyOne, SessionParts DEF RequestFails, To, Throw, Finish
<1>9. ASSUME NEW c \in Callers, CodeSaved(c) PROVE ResumeInv'
  BY <1>9, OnlyOne, SessionParts DEF CodeSaved, To, AskUser, Submitted, Finish
<1>10. ASSUME NEW c \in Callers, Saved(c) PROVE ResumeInv'
  <2>1. CASE Authenticated(session)
    BY <1>10, <2>1, OnlyOne, SessionParts DEF Saved, Submitted, To, Complete, Send
  <2>2. CASE ~Authenticated(session)
    <3>1. step[c] # "idle" /\ Throw(c) /\ ~overlap
      BY <1>10, <2>2 DEF Saved, Submitted, Complete
    <3> QED BY <3>1, ThrownIdle
  <2> QED BY <2>1, <2>2
<1>11. ASSUME NEW c \in Callers, SaveFails(c) PROVE ResumeInv'
  BY <1>11, OnlyOne, SessionParts DEF SaveFails, To, Throw, Finish
<1>12. ASSUME NEW c \in Callers, InventoryArrives(c) PROVE ResumeInv'
  BY <1>12, OnlyOne, SessionParts DEF InventoryArrives, To, Send
<1>13. ASSUME NEW c \in Callers, SessionInvalid(c) PROVE ResumeInv'
  BY <1>13, OnlyOne, SessionParts DEF SessionInvalid, To
<1>14. ASSUME NEW c \in Callers, DskArrives(c) PROVE ResumeInv'
  BY <1>14, OnlyOne, SessionParts DEF DskArrives, To, Send
<1>15. ASSUME NEW c \in Callers, Registered(c) PROVE ResumeInv'
  BY <1>15, OnlyOne, SessionParts DEF Registered, To
<1>16. ASSUME NEW c \in Callers, RegistrationFails(c) PROVE ResumeInv'
  BY <1>16, OnlyOne, SessionParts DEF RegistrationFails, To, Throw, Finish
<1>17. ASSUME NEW c \in Callers, ReceiverReady(c) PROVE ResumeInv'
  BY <1>17, OnlyOne, SessionParts DEF ReceiverReady, To, Finish
<1>18. ASSUME NEW c \in Callers, ReceiverTimeout(c) PROVE ResumeInv'
  BY <1>18, OnlyOne, SessionParts DEF ReceiverTimeout, To, Throw, Finish
<1>19. ASSUME NEW c \in Submissions, Submit(c) PROVE ResumeInv'
  BY <1>0, <1>19, SubmitsAlone DEF Nothing, Answer, Code
<1>20. ASSUME NEW token \in 1 .. MaxLogins, Revoke(token) PROVE ResumeInv'
  BY <1>20 DEF Revoke
<1>21. CASE Restart
  BY <1>0, <1>21 DEF Restart, Nothing, Code, Answer
<1>22. CASE UNCHANGED vars
  BY <1>22 DEF vars
<1> QED
  BY <1>1, <1>2, <1>3, <1>4, <1>5, <1>6, <1>7, <1>8, <1>9, <1>10, <1>11, <1>12, <1>13, <1>14, <1>15, <1>16, <1>17, <1>18, <1>19, <1>20, <1>21, <1>22
  DEF Next, Bounded

LEMMA HistoriesInvariant ==
  Spec => [](StartupTypes /\ Alone /\ ImageInv /\ SessionInv /\ CodeInv /\ ResumeInv)
  BY InitTypes, StepTypes, InitAlone, StepAlone, InitHistories, StepImage, StepSession, StepCode,
     StepResume, PTL DEF Spec

\* A login is sent once the session file is read, once the session is prepared, or
\* at once when it is prepared already.
LEMMA LoginSent ==
  ASSUME StartupTypes, [Next]_vars, NEW c \in Callers, Sends(c)
  PROVE  Restore(c) \/ Prepared(c) \/ (c \in Submissions /\ Submit(c))
<1> USE DEF StartupTypes, CallerTypes, Sends, At, To
<1>1. ASSUME NEW d \in Callers, Bounded(d) \/ ReceiverReady(d), ~Restore(d), ~Prepared(d)
      PROVE  FALSE
  <2>1. CASE \/ CaptchaRequired(d) \/ CaptchaArrives(d) \/ VerificationRequired(d)
             \/ CodeMailed(d) \/ LoggedIn(d)
    BY <2>1 DEF CaptchaRequired, CaptchaArrives, VerificationRequired, CodeMailed, LoggedIn,
                Send, Save, Throw, Finish, AskUser
  <2>2. CASE RequestFails(d) \/ CodeSaved(d) \/ SaveFails(d)
    BY <2>2 DEF RequestFails, CodeSaved, SaveFails, Throw, Finish, AskUser
  <2>3. CASE Saved(d)
    BY <2>3 DEF Saved, Send, Throw, Finish, Complete
  <2>4. CASE \/ InventoryArrives(d) \/ SessionInvalid(d) \/ DskArrives(d) \/ Registered(d)
             \/ RegistrationFails(d) \/ ReceiverReady(d) \/ ReceiverTimeout(d)
    BY <2>4 DEF InventoryArrives, SessionInvalid, DskArrives, Registered, RegistrationFails,
                ReceiverReady, ReceiverTimeout, Send, Throw, Finish
  <2> QED BY <1>1, <2>1, <2>2, <2>3, <2>4 DEF Bounded
<1>2. ASSUME NEW d \in Callers, Restore(d) \/ Prepared(d)
      PROVE  d = c
  BY <1>2 DEF Restore, Prepared, Resume, Send, Save
<1>3. ASSUME NEW d \in Submissions, Submit(d)
      PROVE  d = c
  BY <1>3 DEF Submit, Callers
<1>4. ~\E token \in 1 .. MaxLogins : Revoke(token)
  BY DEF Revoke, callers
<1>5. ~Restart
  BY DEF Restart
<1>6. ~UNCHANGED vars
  BY DEF vars, callers
<1> QED BY <1>1, <1>2, <1>3, <1>4, <1>5, <1>6 DEF Next

-----------------------------------------------------------------------------
(***************************************************************************)
(* The theorems.                                                           *)
(***************************************************************************)

\* Types of the login and startup, for any submissions and accounts.
THEOREM StartupTypesHold == Spec => []StartupTypeOK
  BY StartupTypesEnough, TypesInvariant, PTL

\* A gateway that reports itself connected has the connected receiver that close()
\* will close, unless submissions overlapped.
THEOREM ConnectedIsConnected == Spec => []ConnectedHasReceiver
<1>1. Alone => ConnectedHasReceiver
  BY DEF Alone, ConnectedHasReceiver
<1>2. Spec => []Alone
  BY TypesInvariant, InitAlone, StepAlone, PTL DEF Spec
<1> QED BY <1>1, <1>2, PTL

\* An answer goes out with the identifier of its image, unless a login has succeeded
\* with that image before, for any number of submissions, logins, images, failing
\* saves and restarts, unless calls overlapped.
THEOREM AnswersMatch == Spec => AnswerMatchesImage
<1>1. ASSUME StartupTypes, Alone, ImageInv, [Next]_vars,
             NEW c \in Callers, Sends(c), given'[c].kind = "captcha", ~forced'[c], ~overlap'
      PROVE  Current(given'[c].number)
  <2>1. CASE Restore(c) \/ Prepared(c)
    <3>1. ~At(c, "idle") /\ UNCHANGED <<given, overlap>>
      BY <2>1 DEF Restore, Prepared, Resume, Send, Save, At
    <3> QED BY <1>1, <3>1 DEF ImageInv
  <2>2. CASE c \in Submissions /\ Submit(c)
    BY <1>1, <2>2, SubmitsAlone DEF ImageInv, Answer, Code
  <2> QED BY <1>1, <2>1, <2>2, LoginSent
<1>2. StartupTypes /\ Alone /\ ImageInv /\ [Next]_vars
        => [\A c \in Callers : Sends(c) /\ given'[c].kind = "captcha" /\ ~forced'[c]
              => Current(given'[c].number) \/ overlap']_vars
  BY <1>1
<1> QED BY <1>2, HistoriesInvariant, PTL DEF Spec, AnswerMatchesImage

\* A code goes out with the token it was mailed for: in the same process, also after
\* saves that failed, and in the next one if the page had asked for it; for any number
\* of submissions, logins and restarts, unless calls overlapped.
THEOREM CodesUseTheirToken == Spec => CodeUsesItsToken
<1>1. ASSUME StartupTypes, Alone, SessionInv, CodeInv, [Next]_vars,
             NEW c \in Callers, SendsCode(c), ~overlap',
             ~(c = Start /\ given'[c].number # asked)
      PROVE  WithItsToken(c)
  <2> USE DEF StartupTypes, CallerTypes, SessionsTyped, CloudTyped, SendsCode
  <2>1. CASE Restore(c)
    <3>1. sent'[c] = session'.token /\ UNCHANGED <<given, forced, overlap>> /\ step[c] = "restore"
      BY <1>1, <2>1 DEF Restore, Resume, Send, Save, To, At, Sends, Saving
    <3>2. c = Start /\ given[c].number = mailed /\ mailed # 0 /\ asked = mailed
      BY <1>1, <3>1 DEF CodeInv
    <3>3. disk.made /\ disk.account = account /\ disk.token >= mailed
      BY <1>1, <3>1, <3>2 DEF CodeInv
    <3>4. session' = disk
      BY <2>1, <3>3 DEF Restore
    <3> QED BY <1>1, <3>1, <3>2, <3>3, <3>4 DEF WithItsToken
  <2>2. CASE Prepared(c)
    <3>1. /\ step[c] = "prepare" /\ UNCHANGED <<given, forced, overlap>>
          /\ sent'[c] = session'.token
      BY <1>1, <2>2 DEF Prepared, Send, At
    <3>2. given[c].number = mailed /\ session.made /\ session.token >= mailed
      BY <1>1, <3>1 DEF CodeInv
    <3>3. session'.token = session.token
      BY <2>2, <3>2, SessionParts DEF Prepared
    <3> QED BY <1>1, <3>1, <3>2, <3>3 DEF WithItsToken
  <2>3. CASE c \in Submissions /\ Submit(c)
    <3>1. given'[c] = Code(mailed) /\ verify /\ ~overlap
      BY <1>1, <2>3, SubmitsAlone DEF Answer
    <3>2. session.made /\ session.token >= mailed
      BY <1>1, <3>1 DEF CodeInv
    <3>3. sent'[c] = session.token
      BY <1>1, <2>3, <3>2, SubmitsAlone
    <3> QED BY <1>1, <3>1, <3>2, <3>3 DEF WithItsToken, Code
  <2> QED BY <1>1, <2>1, <2>2, <2>3, LoginSent
<1>2. StartupTypes /\ Alone /\ SessionInv /\ CodeInv /\ [Next]_vars
        => [\A c \in Callers : SendsCode(c) =>
              \/ WithItsToken(c) \/ overlap'
              \/ c = Start /\ given'[c].number # asked]_vars
  BY <1>1
<1> QED BY <1>2, HistoriesInvariant, PTL DEF Spec, CodeUsesItsToken

\* A login nobody asked for is sent only when the session file is of no use: a restart
\* repeats no authentication, for any number of them and of accounts.
THEOREM RestartsResume == Spec => ResumesWithoutLogin
<1>1. ASSUME StartupTypes, Alone, SessionInv, ResumeInv, [Next]_vars,
             NEW c \in Callers, Sends(c), given'[c] = Nothing, ~overlap'
      PROVE  Useless
  <2> USE DEF StartupTypes, CallerTypes, SessionsTyped, CloudTyped
  <2>1. CASE Restore(c)
    <3>1. session'.token = NoToken /\ UNCHANGED <<disk, account, overlap, full, revoked>>
      BY <1>1, <2>1
      DEF Restore, Resume, Send, Save, To, Sends, Authenticated, NoToken, outside, cloud
    <3>2. CASE ~disk.made \/ (disk.made /\ disk.account = account)
      BY <1>1, <2>1, <3>1, <3>2 DEF Restore, SessionInv, Useless, Accepted, NoToken
    <3>3. CASE disk.account # account
      BY <3>1, <3>3 DEF Useless
    <3> QED BY <1>1, <3>2, <3>3
  <2>2. CASE Prepared(c)
    BY <1>1, <2>2 DEF Prepared, Send, At, ResumeInv, outside
  <2>3. CASE c \in Submissions /\ Submit(c)
    BY <1>1, <2>3, SubmitsAlone DEF Nothing, Answer, Code
  <2> QED BY <1>1, <2>1, <2>2, <2>3, LoginSent
<1>2. StartupTypes /\ Alone /\ SessionInv /\ ResumeInv /\ [Next]_vars
        => [\A c \in Callers : Sends(c) /\ given'[c] = Nothing
              => overlap' \/ ~(disk.account = account /\ Accepted(disk.token))]_vars
  BY <1>1 DEF Useless
<1> QED BY <1>2, HistoriesInvariant, PTL DEF Spec, ResumesWithoutLogin
=============================================================================
