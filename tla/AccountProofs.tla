---------------------------- MODULE AccountProofs ---------------------------
(***************************************************************************)
(* What holds of an account, of the administrators, of a subscription and  *)
(* of projects, for any number of handlers at a time, of codes, passwords, *)
(* tokens, roles, permissions, plans and projects.                         *)
(***************************************************************************)
EXTENDS Account, AdminConsole, Subscription, Projects, Sums, TLAPS

----------------------------------------------------------------------------
(* The account.  DeletedIsLockedOut needs that an account its owner deleted *)
(* is not live, whatever is saved over it (a handler that saves a row whole *)
(* read it while the account was live: Callers), and that a handler that   *)
(* may record a token for it is a late one.                                *)

(* Rows that may be saved whole. *)
Caller(h) ==
  h.op \in {"profile", "managed"} => h.seen \in AccountRow /\ h.seen.live = TRUE /\ h.seen.password # 0

Callers == DOMAIN caller = UserRequests /\ \A r \in UserRequests : Caller(caller[r])

(* What ends with a token. *)
MayRecord == {"guess", "token", "refresh", "rotate"}

AtWork == \A r \in UserRequests : caller[r] # Rest => Exists

LockedOut ==
  resigned => /\ ~ account.live /\ Exists
              /\ \A t \in Tokens : token[t] # "live"
              /\ \A r \in UserRequests : caller[r].op \in MayRecord => r \in late

AInv ==
  /\ account \in AccountRow
  /\ token \in [Tokens -> {"none", "live", "stray"}]
  /\ resigned \in BOOLEAN /\ late \subseteq UserRequests
  /\ Callers /\ AtWork
  /\ LockedOut

LEMMA InitAInv == AccountInit => AInv
<1> SUFFICES ASSUME AccountInit PROVE AInv
  OBVIOUS
<1>1. account \in AccountRow
  BY AccountAssumption DEF AccountInit, NoAccount, AccountRow
<1>2. /\ token \in [Tokens -> {"none", "live", "stray"}] /\ resigned = FALSE /\ late = {}
      /\ caller = [r \in UserRequests |-> Rest]
  BY DEF AccountInit
<1>3. Callers /\ AtWork
  BY <1>2 DEF Callers, Caller, Rest, AtWork
<1> QED BY <1>1, <1>2, <1>3 DEF AInv, LockedOut

(* A handler that goes on has read a row that is live, or saves none. *)
LEMMA CallerStep ==
  ASSUME Callers, NEW r \in UserRequests, NEW h, Caller(h), caller' = [caller EXCEPT ![r] = h]
  PROVE  Callers'
BY DEF Callers, Caller

LEMMA NewCaller ==
  /\ Caller(Rest) /\ Rest.op \notin MayRecord
  /\ \A op \in CallerOps \ {"profile", "managed"} : Caller(Doing(op)) /\ Doing(op).op = op
  /\ AInv /\ account.live /\ Exists => \A op \in {"password", "profile", "managed"} :
                              Caller(Read(op)) /\ Read(op).op \notin MayRecord
<1>1. Caller(Rest) /\ Rest.op \notin MayRecord
  BY DEF Caller, Rest, MayRecord
<1>2. \A op \in CallerOps \ {"profile", "managed"} : Caller(Doing(op)) /\ Doing(op).op = op
  BY DEF Caller, Doing
<1>3. ASSUME AInv, account.live, Exists, NEW op \in {"password", "profile", "managed"}
      PROVE  Caller(Read(op)) /\ Read(op).op \notin MayRecord
  BY <1>3 DEF Caller, Read, AInv, AccountRow, MayRecord, Exists
<1> QED BY <1>1, <1>2, <1>3

(* A handler starts or ends, and the account is left alone: one that may   *)
(* record a token starts only for a live account, or was late before.      *)
LEMMA HandlerKeeps ==
  ASSUME AInv, NEW r \in UserRequests, NEW h, Caller(h), caller' = [caller EXCEPT ![r] = h],
         \/ late' = late /\ (h.op \in MayRecord => account.live \/ r \in late \/ caller[r].op \in MayRecord)
         \/ late' = late \ {r} /\ h.op \notin MayRecord,
         account' \in AccountRow, account'.live = account.live,
         account'.password # 0, token' = token, resigned' = resigned
  PROVE  AInv'
<1>1. Callers'
  BY CallerStep DEF AInv
<1>2. late' \subseteq UserRequests
  BY DEF AInv
<1>3. caller'[r] = h /\ \A q \in UserRequests \ {r} : caller'[q] = caller[q]
  BY DEF AInv, Callers
<1>4. LockedOut'
  <2> SUFFICES ASSUME resigned PROVE /\ ~ account'.live /\ account'.password # 0
                                     /\ \A t \in Tokens : token[t] # "live"
                                     /\ \A q \in UserRequests : caller'[q].op \in MayRecord => q \in late'
    BY DEF LockedOut, Exists
  <2>1. /\ ~ account.live /\ account.password # 0 /\ \A t \in Tokens : token[t] # "live"
        /\ \A q \in UserRequests : caller[q].op \in MayRecord => q \in late
    BY DEF AInv, LockedOut, Exists
  <2>2. ASSUME NEW q \in UserRequests, caller'[q].op \in MayRecord PROVE q \in late'
    BY <1>3, <2>1, <2>2
  <2> QED BY <2>1, <2>2
<1>5. AtWork'
  BY DEF AtWork, Exists
<1> QED BY <1>1, <1>2, <1>4, <1>5 DEF AInv

(* An account that is live again was not, or is no longer, deleted by its  *)
(* owner.                                                                  *)
LEMMA RevivalKeeps ==
  ASSUME AInv, NEW r \in UserRequests, Answer(r) \/ UNCHANGED <<caller, late>>,
         account' \in AccountRow, account'.password # 0, token' = token, resigned' = FALSE
  PROVE  AInv'
<1>1. Callers' /\ late' \subseteq UserRequests
  BY CallerStep, NewCaller DEF AInv, Answer, Callers, Caller
<1> QED BY <1>1 DEF AInv, LockedOut, AtWork, Exists

(* Only the account's existence, and whether it is live, matter.           *)
LEMMA NextAInv ==
  ASSUME AInv, [AccountNext]_accountVars PROVE AInv'
<1>0. account \in AccountRow /\ DOMAIN caller = UserRequests /\ MaxPasswords \in Nat \ {0}
  BY AccountAssumption DEF AInv, Callers
<1>a. ASSUME NEW r \in UserRequests, NEW op, Holding(r, op) PROVE Exists /\ account.password \in Nat \ {0}
  BY <1>0, <1>a DEF AInv, AtWork, Holding, Exists, AccountRow
<1>1. ASSUME NEW r \in UserRequests, Register(r) PROVE AInv'
  <2>1. account' \in AccountRow
    BY <1>0, <1>1 DEF Register, AccountRow
  <2>2. Caller(Doing("issue")) /\ ~ resigned
    BY <1>1, NewCaller DEF AInv, LockedOut, Register, CallerOps
  <2>3. /\ caller' = [caller EXCEPT ![r] = Doing("issue")] /\ UNCHANGED <<late, token, resigned>>
    BY <1>1 DEF Register, Call, rowsOfKeys
  <2>4. account'.password = 1
    BY <1>1 DEF Register
  <2>5. Callers'
    BY <2>2, <2>3, CallerStep DEF AInv
  <2>6. AtWork' /\ LockedOut'
    BY <2>2, <2>3, <2>4 DEF LockedOut, AtWork, Exists
  <2> QED BY <2>1, <2>3, <2>5, <2>6 DEF AInv
<1>2. ASSUME NEW r \in UserRequests, IssueCode(r) \/ WrongGuess(r) PROVE AInv'
  <2>1. /\ caller' = [caller EXCEPT ![r] = Rest] /\ late' = late \ {r}
        /\ UNCHANGED <<account, token, resigned>> /\ account.password # 0
    BY <1>2, <1>a DEF IssueCode, WrongGuess, Answer, rowsOfKeys, Exists
  <2> QED BY <1>0, <2>1, NewCaller, HandlerKeeps
<1>3. ASSUME NEW r \in UserRequests, NEW guess, Guess(r, guess) PROVE AInv'
  <2>1. PICK h : h \in {Doing("token"), [op |-> "guess", code |-> Latest, right |-> guess = Latest,
                                        attempts |-> otp[Latest].attempts]}
                 /\ caller' = [caller EXCEPT ![r] = h]
    BY <1>3 DEF Guess, GuessAgainst, Call
  <2>2. Caller(h)
    BY <2>1, NewCaller DEF Caller, CallerOps
  <2>3. account.live /\ account.password # 0 /\ UNCHANGED <<account, token, resigned, late>>
    BY <1>3 DEF Guess, GuessAgainst, Call, CanCall, rowsOfKeys, Exists
  <2> QED BY <1>0, <2>1, <2>2, <2>3, HandlerKeeps
<1>5. ASSUME NEW r \in UserRequests, RightGuess(r) PROVE AInv'
  <2>1. account' \in AccountRow /\ account'.live = account.live /\ account'.password = account.password
    BY <1>0, <1>5 DEF RightGuess, AccountRow
  <2>2. /\ caller' = [caller EXCEPT ![r] = Doing("token")] /\ caller[r].op \in MayRecord
        /\ UNCHANGED <<late, token, resigned>> /\ account.password # 0
    BY <1>5, <1>a DEF RightGuess, Holding, MayRecord, rowsOfKeys, Exists
  <2> QED BY <2>1, <2>2, NewCaller, HandlerKeeps DEF CallerOps
<1>6. ASSUME NEW r \in UserRequests, NEW op \in {"token", "issue", "leave", "suspend", "activate", "remove"},
             Call(r, Doing(op)), Exists, account.live, UNCHANGED <<account, rowsOfKeys>>
      PROVE  AInv'
  <2>1. caller' = [caller EXCEPT ![r] = Doing(op)] /\ UNCHANGED <<late, token, resigned>>
    BY <1>6 DEF Call, rowsOfKeys
  <2>2. Caller(Doing(op)) /\ account.password # 0
    BY <1>6, NewCaller DEF CallerOps, Exists
  <2> QED BY <1>0, <1>6, <2>1, <2>2, HandlerKeeps
<1>7. ASSUME NEW r \in UserRequests, GiveToken(r) PROVE AInv'
  <2>1. PICK t \in Tokens : token' = [token EXCEPT ![t] = IF r \in late THEN "stray" ELSE "live"]
    BY <1>7 DEF GiveToken
  <2>2. /\ caller' = [caller EXCEPT ![r] = Rest] /\ late' = late \ {r} /\ UNCHANGED <<account, resigned>>
        /\ caller[r].op \in MayRecord
    BY <1>7 DEF GiveToken, Answer, Holding, MayRecord
  <2>3. Callers' /\ late' \subseteq UserRequests
    BY <2>2, NewCaller, CallerStep DEF AInv
  <2>4. token' \in [Tokens -> {"none", "live", "stray"}]
    BY <2>1 DEF AInv
  <2>5. LockedOut'
    <3> SUFFICES ASSUME resigned PROVE /\ ~ account.live /\ Exists /\ \A u \in Tokens : token'[u] # "live"
                                       /\ \A q \in UserRequests : caller'[q].op \in MayRecord => q \in late'
      BY <2>2 DEF LockedOut, Exists
    <3>1. /\ ~ account.live /\ Exists /\ \A u \in Tokens : token[u] # "live"
          /\ \A q \in UserRequests : caller[q].op \in MayRecord => q \in late
      BY DEF AInv, LockedOut
    <3>2. r \in late
      BY <2>2, <3>1
    <3>3. \A u \in Tokens : token'[u] # "live"
      BY <2>1, <3>1, <3>2 DEF AInv
    <3>4. \A q \in UserRequests : caller'[q].op \in MayRecord => q \in late'
      BY <1>0, <2>2, <3>1, NewCaller
    <3> QED BY <3>1, <3>3, <3>4
  <2>6. AtWork'
    BY <1>7, <1>a, <2>2 DEF AtWork, Exists, GiveToken
  <2> QED BY <1>0, <2>2, <2>3, <2>4, <2>5, <2>6 DEF AInv
<1>8. ASSUME NEW r \in UserRequests, NEW t \in Tokens, Refresh(r, t) PROVE AInv'
  <2>1. PICK h : h = [op |-> "refresh", token |-> t] /\ caller' = [caller EXCEPT ![r] = h]
    BY <1>8 DEF Refresh, Call
  <2>2. account.live /\ account.password # 0 /\ UNCHANGED <<account, token, resigned, late>> /\ Caller(h)
    BY <1>8, <2>1 DEF Refresh, Call, CanCall, rowsOfKeys, Caller, Exists
  <2> QED BY <1>0, <2>1, <2>2, HandlerKeeps
<1>9. ASSUME NEW r \in UserRequests, Rotate(r) PROVE AInv'
  <2>1. /\ token' = [token EXCEPT ![caller[r].token] = "none"] /\ UNCHANGED <<account, resigned, late>>
        /\ caller' = [caller EXCEPT ![r] = Doing("rotate")] /\ caller[r].op \in MayRecord
    BY <1>9 DEF Rotate, Holding, MayRecord
  <2>2. Callers'
    BY <2>1, NewCaller, CallerStep DEF AInv, CallerOps
  <2>3. token' \in [Tokens -> {"none", "live", "stray"}] /\ \A u \in Tokens : token'[u] \in {token[u], "none"}
    BY <2>1 DEF AInv
  <2>4. \A q \in UserRequests : caller'[q].op \in MayRecord => caller[q].op \in MayRecord
    BY <1>0, <2>1
  <2>5. AtWork'
    BY <1>9, <1>a, <2>1 DEF AtWork, Exists, Rotate
  <2> QED BY <2>1, <2>2, <2>3, <2>4, <2>5 DEF AInv, LockedOut, Exists
<1>10. ASSUME NEW t \in Tokens, Logout(t) PROVE AInv'
  <2>1. /\ UNCHANGED <<account, resigned, caller, late>> /\ token' \in [Tokens -> {"none", "live", "stray"}]
        /\ \A u \in Tokens : token'[u] \in {token[u], "none"}
    BY <1>10 DEF Logout, callers, AInv
  <2> QED BY <2>1 DEF AInv, LockedOut, Callers, Caller, Exists, AtWork
<1>11. ASSUME NEW r \in UserRequests, DeleteMe(r) PROVE AInv'
  <2>1. /\ caller' = [caller EXCEPT ![r] = Rest] /\ resigned' = TRUE /\ late' = Calling \ {r}
        /\ account' = Anonymized /\ token' = [t \in Tokens |-> "none"]
    BY <1>11 DEF DeleteMe, LeavingOthersLate
  <2>2. account' \in AccountRow /\ ~ account'.live /\ account'.password = account.password
    BY <1>0, <2>1 DEF Anonymized, AccountRow
  <2>3. Callers' /\ late' \subseteq UserRequests
    BY <2>1, NewCaller, CallerStep DEF AInv, Calling
  <2>4. Exists
    BY <1>11, <1>a DEF DeleteMe, LeavingOthersLate
  <2>5. ASSUME NEW q \in UserRequests, caller'[q].op \in MayRecord PROVE q \in late'
    <3>1. q # r /\ caller'[q] = caller[q] /\ caller[q] # Rest
      BY <1>0, <2>1, <2>5, NewCaller
    <3> QED BY <2>1, <3>1 DEF Calling
  <2> QED BY <2>1, <2>2, <2>3, <2>4, <2>5 DEF AInv, LockedOut, Exists, AtWork
<1>12. ASSUME NEW r \in UserRequests, DeleteUser(r) PROVE AInv'
  <2>1. /\ caller' = [caller EXCEPT ![r] = Rest] /\ late' = late \ {r} /\ UNCHANGED <<token, resigned>>
    BY <1>12 DEF DeleteUser, Answer, rowsOfKeys
  <2>2. account' \in AccountRow /\ ~ account'.live /\ account'.password = account.password
    BY <1>0, <1>12 DEF DeleteUser, AccountRow
  <2>3. Callers' /\ late' \subseteq UserRequests
    BY <2>1, NewCaller, CallerStep DEF AInv
  <2>4. \A q \in UserRequests : caller'[q].op \in MayRecord => q # r /\ caller'[q] = caller[q]
    BY <1>0, <2>1, NewCaller
  <2>5. AtWork'
    BY <1>12, <1>a, <2>2 DEF AtWork, Exists, DeleteUser
  <2> QED BY <2>1, <2>2, <2>3, <2>4, <2>5 DEF AInv, LockedOut, Exists
<1>13. ASSUME NEW r \in UserRequests, SavePassword(r) \/ SetActive(r) PROVE AInv'
  <2>1. (caller[r].op = "activate") \in BOOLEAN
    OBVIOUS
  <2>2. CASE SavePassword(r)
    <3>1. account' \in AccountRow /\ account'.live = account.live /\ account'.password # 0
      BY <1>0, <2>2 DEF SavePassword, AccountRow
    <3> QED BY <2>2, <3>1, NewCaller, HandlerKeeps DEF SavePassword, Answer, rowsOfKeys
  <2>3. CASE SetActive(r)
    <3>1. account' \in AccountRow /\ account'.live = account.live /\ account'.password # 0
      BY <1>0, <1>a, <2>1, <2>3 DEF SetActive, AccountRow
    <3> QED BY <2>3, <3>1, NewCaller, HandlerKeeps DEF SetActive, Answer, rowsOfKeys
  <2> QED BY <1>13, <2>2, <2>3
<1>14. ASSUME NEW r \in UserRequests, SaveProfile(r) PROVE AInv'
  <2>1. account' \in AccountRow /\ account'.password # 0
    BY <1>14 DEF SaveProfile, Holding, AInv, Callers, Caller
  <2> QED BY <1>14, <2>1, RevivalKeeps DEF SaveProfile
<1>15. ASSUME NEW r \in UserRequests, NEW active \in BOOLEAN, SaveManaged(r, active) PROVE AInv'
  <2>1. caller[r].seen \in AccountRow /\ caller[r].seen.password # 0
    BY <1>15 DEF SaveManaged, Holding, AInv, Callers, Caller
  <2>2. account' \in AccountRow /\ account'.password # 0
    BY <1>15, <2>1 DEF SaveManaged, AccountRow
  <2> QED BY <1>15, <2>2, RevivalKeeps DEF SaveManaged
<1>16. CASE Restore
  <2>1. account' \in AccountRow /\ account'.password # 0
    BY <1>0, <1>16 DEF Restore, AccountRow, Exists
  <2> QED BY <1>16, <2>1, AccountAssumption, RevivalKeeps DEF Restore, callers
<1>17. ASSUME NEW r \in UserRequests, NEW op \in {"password", "profile", "managed"}, Call(r, Read(op)),
              Exists, account.live, UNCHANGED <<account, rowsOfKeys>>
       PROVE  AInv'
  <2>1. caller' = [caller EXCEPT ![r] = Read(op)] /\ UNCHANGED <<late, token, resigned>>
    BY <1>17 DEF Call, rowsOfKeys
  <2> QED BY <1>0, <1>17, <2>1, NewCaller, HandlerKeeps DEF Exists
<1>18. CASE UNCHANGED <<account, token, resigned, caller, late>>
  BY <1>18 DEF AInv, LockedOut, Callers, Caller, Exists, AtWork
<1> QED
  <2>1. CASE JoinStep
    <3>1. ASSUME NEW r \in UserRequests, EditProfile(r) \/ Leave(r) PROVE AInv'
      BY <1>6, <1>17, <3>1 DEF EditProfile, Leave, CanCall
    <3> QED BY <1>1, <1>2, <1>3, <1>5, <1>7, <1>11, <1>14, <2>1, <3>1 DEF JoinStep
  <2>2. CASE CodeStep
    <3>1. ASSUME NEW r \in UserRequests, Resend(r) PROVE AInv'
      BY <1>6, <3>1 DEF Resend, CanCall
    <3>2. ASSUME Cool \/ \E c \in Codes : Expire(c) PROVE AInv'
      BY <1>18, <3>2 DEF Expire, Cool, rowsOfKeys, callers
    <3> QED BY <1>2, <1>3, <2>2, <3>1, <3>2 DEF CodeStep
  <2>3. CASE KeyStep
    <3>1. ASSUME NEW r \in UserRequests, AskPassword(r) \/ ConfirmReset(r) \/ Login(r) PROVE AInv'
      BY <1>6, <1>17, <3>1 DEF AskPassword, ConfirmReset, Login, CanCall
    <3>2. ASSUME NEW r \in UserRequests, NEW op \in {"managed", "suspend", "activate", "remove"}, Manage(r, op)
          PROVE  AInv'
      BY <1>6, <1>17, <3>2 DEF Manage
    <3>3. ASSUME AskReset PROVE AInv'
      BY <1>18, <3>3 DEF AskReset, callers
    <3> QED BY <1>8, <1>9, <1>10, <1>12, <1>13, <1>15, <1>16, <2>3, <3>1, <3>2, <3>3 DEF KeyStep
  <2> QED BY <1>18, <2>1, <2>2, <2>3 DEF AccountNext, accountVars

(* Once delete_user_account has committed, the account has no refresh      *)
(* token but of a login or a refresh that had read the user before,        *)
(* whatever is done to it until it is restored.                            *)
THEOREM DeletedStaysLockedOut == AccountSpec => []DeletedIsLockedOut
<1>1. AInv => DeletedIsLockedOut
  BY DEF AInv, LockedOut, DeletedIsLockedOut
<1> QED BY <1>1, InitAInv, NextAInv, PTL DEF AccountSpec

(* A whole row was saved by a handler that read it before a password was   *)
(* set or the account deleted.                                             *)
StaleEdit ==
  \E r \in UserRequests :
    /\ Holding(r, "profile") \/ Holding(r, "managed")
    /\ caller'[r] = Rest
    /\ caller[r].seen.password < account.password \/ ~ account.named

Undone == account.password > account'.password \/ (~ account.named /\ account'.named /\ Exists)

LEMMA SavesUndo ==
  ASSUME AInv, NEW r \in UserRequests, Holding(r, "profile") \/ Holding(r, "managed"), Answer(r),
         account'.password = caller[r].seen.password, account'.named = caller[r].seen.named, Undone
  PROVE  StaleEdit
<1>1. caller[r].seen \in AccountRow /\ account \in AccountRow
  BY DEF Holding, AInv, Callers, Caller
<1>2. caller'[r] = Rest
  BY DEF Answer, AInv, Callers
<1>3. caller[r].seen.password < account.password \/ ~ account.named
  BY <1>1 DEF Undone, AccountRow
<1> QED BY <1>2, <1>3 DEF StaleEdit

LEMMA OthersUndoNothing ==
  ASSUME AInv, AccountNext, Undone PROVE StaleEdit
<1>1. CASE /\ account'.password = account.password \/ account'.password = account.password + 1
           /\ account'.named = account.named \/ account'.named = FALSE
  BY <1>1 DEF Undone, AInv, AccountRow
<1>2. ASSUME NEW r \in UserRequests, Register(r) PROVE FALSE
  <2>1. account.password = 0 /\ account'.password = 1
    BY <1>2 DEF Register, Exists
  <2> QED BY <2>1 DEF Undone, Exists
<1>3. ASSUME NEW r \in UserRequests, SaveProfile(r) PROVE StaleEdit
  BY <1>3, SavesUndo DEF SaveProfile
<1>4. ASSUME NEW r \in UserRequests, NEW active \in BOOLEAN, SaveManaged(r, active) PROVE StaleEdit
  <2>1. caller[r].seen \in AccountRow
    BY <1>4 DEF SaveManaged, Holding, AInv, Callers, Caller
  <2>2. account'.password = caller[r].seen.password /\ account'.named = caller[r].seen.named
    BY <1>4, <2>1 DEF SaveManaged, AccountRow
  <2> QED BY <1>4, <2>2, SavesUndo DEF SaveManaged
<1>5. CASE JoinStep
  <2>1. ASSUME NEW r \in UserRequests, RightGuess(r) PROVE account'.password = account.password /\ account'.named = account.named
    BY <2>1 DEF RightGuess, AInv, AccountRow
  <2>2. ASSUME NEW r \in UserRequests, DeleteMe(r) PROVE account'.password = account.password /\ account'.named = FALSE
    BY <2>2 DEF DeleteMe, Anonymized, AInv, AccountRow
  <2> QED BY <1>1, <1>2, <1>3, <1>5, <2>1, <2>2 DEF JoinStep, IssueCode, Guess, GiveToken, EditProfile, Leave
<1>6. CASE CodeStep
  BY <1>1, <1>6 DEF CodeStep, Resend, WrongGuess, Guess, Expire, Cool
<1>7. CASE KeyStep
  <2>1. ASSUME NEW r \in UserRequests, SavePassword(r)
        PROVE  account'.password = account.password + 1 /\ account'.named = account.named
    BY <2>1 DEF SavePassword, AInv, AccountRow
  <2>2. ASSUME (\E r \in UserRequests : SetActive(r) \/ DeleteUser(r)) \/ Restore
        PROVE  account'.password = account.password /\ account'.named = account.named
    BY <2>2 DEF SetActive, DeleteUser, Restore, AInv, AccountRow
  <2> QED BY <1>1, <1>4, <1>7, <2>1, <2>2
          DEF KeyStep, Login, AskPassword, ConfirmReset, Manage, Refresh, Rotate, Logout, AskReset
<1> QED BY <1>5, <1>6, <1>7 DEF AccountNext

(* Only an edit that saves a row as it was read before brings an old       *)
(* password or a deleted account's name back: no code, login, token,       *)
(* password change or suspension does.                                     *)
THEOREM OnlyStaleEditsUndo == AccountSpec => UndoneByStaleEditOnly
<1>1. AInv /\ [AccountNext]_accountVars =>
        [(account.password > account'.password \/ (~ account.named /\ account'.named /\ Exists))
         => \E r \in UserRequests :
              /\ Holding(r, "profile") \/ Holding(r, "managed")
              /\ caller'[r] = Rest
              /\ caller[r].seen.password < account.password \/ ~ account.named]_accountVars
  BY OthersUndoNothing DEF Undone, StaleEdit
<1> QED BY <1>1, InitAInv, NextAInv, PTL DEF AccountSpec, UndoneByStaleEditOnly

----------------------------------------------------------------------------
(* Codes.  A handler that is about to count a wrong guess writes what it   *)
(* read plus one.  That is right as long as what it read is still what the *)
(* row says: if no other wrong guess at the same code is under way         *)
(* (OneWrong), nobody counts between its read and its write.               *)

Guesser(h) ==
  /\ h.code \in Codes /\ h.right \in BOOLEAN
  /\ h.attempts \in 0 .. OTP_MAX_ATTEMPTS - 1 /\ h.attempts <= tries[h.code]
  /\ h.code \notin contested /\ ~ h.right => h.attempts = otp[h.code].attempts

Guessers == \A r \in UserRequests : caller[r].op = "guess" => Guesser(caller[r])
OneWrong == \A c \in Codes \ contested : \A p, q \in Wrong(c) : p = q

GInv ==
  /\ otp \in [Codes -> OtpRow] /\ cooling \in BOOLEAN /\ links \subseteq 1 .. MaxPasswords
  /\ \A r \in UserRequests : caller[r] = Rest \/ caller[r].op \in CallerOps
  /\ tries \in [Codes -> Nat] /\ contested \subseteq Codes
  /\ Guessers /\ OneWrong /\ GuessesAreCounted

LEMMA InitGInv == AccountInit => GInv
<1> SUFFICES ASSUME AccountInit PROVE GInv
  OBVIOUS
<1>1. OTP_MAX_ATTEMPTS \in Nat \ {0} /\ MaxPasswords \in Nat
  BY AccountAssumption
<1>2. otp \in [Codes -> OtpRow] /\ \A c \in Codes : otp[c].attempts = 0 /\ tries[c] = 0
  BY <1>1 DEF AccountInit, OtpRow, NoOtp
<1>3. \A r \in UserRequests : caller[r] = Rest /\ caller[r].op # "guess"
  BY DEF AccountInit, Rest
<1>4. Guessers /\ OneWrong
  BY <1>3 DEF Guessers, OneWrong, Wrong, Holding
<1>5. GuessesAreCounted
  BY <1>1, <1>2 DEF GuessesAreCounted
<1> QED BY <1>2, <1>3, <1>4, <1>5 DEF GInv, AccountInit

(* latest_pending_otp finds a row, where there is a pending one. *)
LEMMA LatestIsPending ==
  ASSUME Pending # {} PROVE Latest \in Pending
<1>1. MaxCodes \in Nat
  BY AccountAssumption
<1>2. Pending \subseteq 1 .. MaxCodes
  BY DEF Pending, Codes
<1>3. IsFiniteSet(Pending) /\ \A c \in Pending : c \in Nat
  <2>1. IsFiniteSet(1 .. MaxCodes)
    BY <1>1, FS_Interval
  <2>2. IsFiniteSet(Pending)
    BY <1>2, <2>1, FS_Subset
  <2>3. \A c \in 1 .. MaxCodes : c \in Nat
    BY <1>1
  <2> QED BY <1>2, <2>2, <2>3
<1>4. \E c \in Pending : \A d \in Pending : c >= d
  <2> HIDE DEF Pending
  <2> QED BY <1>3, GreatestNumber
<1>5. \E c \in Pending : \A d \in Pending : d <= c
  BY <1>3, <1>4
<1> QED BY <1>5 DEF Latest

(* Steps that neither make a guess nor count one. *)
LEMMA NoGuess ==
  ASSUME GInv, UNCHANGED guesses,
         otp' \in [Codes -> OtpRow], \A c \in Codes : otp'[c].attempts = otp[c].attempts,
         cooling' \in BOOLEAN, links' \subseteq 1 .. MaxPasswords,
         \A r \in UserRequests : \/ caller'[r] = caller[r] \/ caller'[r] = Rest
                                 \/ caller'[r].op \in CallerOps \ {"guess"}
  PROVE  GInv'
<1>1. \A r \in UserRequests : /\ caller'[r] = Rest \/ caller'[r].op \in CallerOps
                              /\ caller'[r].op = "guess" => caller'[r] = caller[r]
  BY DEF GInv, Rest
<1>2. tries' = tries /\ contested' = contested
  BY DEF guesses
<1>3. Guessers'
  <2> SUFFICES ASSUME NEW r \in UserRequests, caller'[r].op = "guess" PROVE Guesser(caller[r])'
    BY DEF Guessers
  <2>1. caller'[r] = caller[r] /\ Guesser(caller[r])
    BY <1>1 DEF GInv, Guessers
  <2> QED BY <1>2, <2>1 DEF Guesser
<1>4. OneWrong'
  <2>1. \A c : Wrong(c)' \subseteq Wrong(c)
    BY <1>1 DEF Wrong, Holding, Rest
  <2> QED BY <1>2, <2>1 DEF GInv, OneWrong
<1>5. GuessesAreCounted'
  BY <1>2 DEF GInv, GuessesAreCounted
<1> QED BY <1>1, <1>2, <1>3, <1>4, <1>5 DEF GInv

LEMMA GuessKeeps ==
  ASSUME AInv, GInv, NEW r \in UserRequests, NEW guess, Guess(r, guess)
  PROVE  GInv'
<1>1. DOMAIN caller = UserRequests
  BY DEF AInv, Callers
<1>2. CASE account.verified
  <2>1. caller' = [caller EXCEPT ![r] = Doing("token")] /\ UNCHANGED <<otp, cooling, links, guesses>>
    BY <1>2 DEF Guess, Call, rowsOfKeys
  <2>2. \A q \in UserRequests : caller'[q] = caller[q] \/ caller'[q].op = "token"
    BY <1>1, <2>1 DEF Doing
  <2> QED BY <2>1, <2>2, NoGuess DEF GInv, CallerOps
<1>3. CASE ~ account.verified
  <2>1. PICK c, h : c = Latest /\ h = [op |-> "guess", code |-> c, right |-> guess = c, attempts |-> otp[c].attempts]
    OBVIOUS
  <2>2. /\ caller' = [caller EXCEPT ![r] = h] /\ caller[r] = Rest
        /\ Pending # {} /\ otp[c].attempts < OTP_MAX_ATTEMPTS
        /\ contested' = contested \cup {d \in {c} : guess # d /\ Wrong(d) # {}}
        /\ UNCHANGED <<otp, cooling, links, tries>>
    BY <1>3, <2>1 DEF Guess, GuessAgainst, Call, rowsOfKeys
  <2>3. c \in Codes
    BY <2>1, <2>2, LatestIsPending DEF Pending
  <2>4. h.op = "guess" /\ h.code = c /\ h.right = (guess = c) /\ h.attempts = otp[c].attempts
    BY <2>1
  <2>5. OTP_MAX_ATTEMPTS \in Nat /\ otp[c].attempts \in 0 .. OTP_MAX_ATTEMPTS
    BY <2>3, AccountAssumption DEF GInv, OtpRow
  <2>6. caller'[r] = h /\ \A q \in UserRequests \ {r} : caller'[q] = caller[q]
    BY <1>1, <2>2
  <2>7. contested' \subseteq Codes /\ contested \subseteq contested'
    BY <2>2, <2>3 DEF GInv
  <2>8. Guessers'
    <3> SUFFICES ASSUME NEW q \in UserRequests, caller'[q].op = "guess" PROVE Guesser(caller[q])'
      BY DEF Guessers
    <3>1. CASE q = r
      <4>1. h.attempts \in 0 .. OTP_MAX_ATTEMPTS - 1 /\ h.attempts <= tries[c]
        BY <2>2, <2>3, <2>4, <2>5 DEF GInv, GuessesAreCounted
      <4>2. h.right \in BOOLEAN
        BY <2>4
      <4> QED BY <2>2, <2>3, <2>4, <2>6, <3>1, <4>1, <4>2 DEF Guesser
    <3>2. CASE q # r
      <4>1. caller'[q] = caller[q] /\ Guesser(caller[q])
        BY <2>6, <3>2 DEF GInv, Guessers
      <4> QED BY <2>2, <2>7, <4>1 DEF Guesser
    <3> QED BY <3>1, <3>2
  <2>9. OneWrong'
    <3> SUFFICES ASSUME NEW d \in Codes, d \notin contested', NEW p \in Wrong(d)', NEW q \in Wrong(d)' PROVE p = q
      BY DEF OneWrong
    <3>1. \A x \in UserRequests \ {r} : x \in Wrong(d)' => x \in Wrong(d)
      BY <2>6 DEF Wrong, Holding
    <3>2. r \in Wrong(d)' => d = c /\ guess # c
      BY <2>4, <2>6 DEF Wrong, Holding
    <3>3. r \in Wrong(d)' => Wrong(d) = {}
      BY <2>2, <3>2
    <3>4. p \in UserRequests /\ q \in UserRequests
      BY DEF Wrong
    <3>5. d \in Codes \ contested
      BY <2>7
    <3> QED BY <3>1, <3>3, <3>4, <3>5 DEF GInv, OneWrong
  <2>10. GuessesAreCounted'
    BY <2>2, <2>7 DEF GInv, GuessesAreCounted
  <2>11. \A q \in UserRequests : caller'[q] = Rest \/ caller'[q].op \in CallerOps
    BY <2>4, <2>6 DEF GInv, CallerOps
  <2> QED BY <2>2, <2>7, <2>8, <2>9, <2>10, <2>11 DEF GInv
<1> QED BY <1>2, <1>3

LEMMA WrongGuessKeeps ==
  ASSUME AInv, GInv, NEW r \in UserRequests, WrongGuess(r)
  PROVE  GInv'
<1>1. PICK h, c, n : h = caller[r] /\ c = h.code /\ n = h.attempts
  OBVIOUS
<1>2. h.op = "guess" /\ ~ h.right /\ Guesser(h) /\ r \in Wrong(c)
  BY <1>1 DEF WrongGuess, Holding, Wrong, GInv, Guessers
<1>3. c \in Codes /\ n \in 0 .. OTP_MAX_ATTEMPTS - 1 /\ n <= tries[c] /\ tries[c] \in Nat /\ OTP_MAX_ATTEMPTS \in Nat
      /\ (c \notin contested => n = otp[c].attempts)
  BY <1>1, <1>2, AccountAssumption DEF Guesser, GInv
<1>4. /\ otp' = [otp EXCEPT ![c].attempts = n + 1] /\ tries' = [tries EXCEPT ![c] = tries[c] + 1]
      /\ caller' = [caller EXCEPT ![r] = Rest] /\ UNCHANGED <<cooling, links, contested>>
  BY <1>1 DEF WrongGuess, Answer, rowsOfKeys
<1>5. /\ otp' \in [Codes -> OtpRow] /\ otp'[c].attempts = n + 1
      /\ \A d \in Codes \ {c} : otp'[d].attempts = otp[d].attempts
  BY <1>3, <1>4 DEF GInv, OtpRow
<1>6. tries' \in [Codes -> Nat] /\ tries'[c] = tries[c] + 1 /\ \A d \in Codes \ {c} : tries'[d] = tries[d]
  BY <1>3, <1>4 DEF GInv
<1>7. caller'[r] = Rest /\ \A q \in UserRequests \ {r} : caller'[q] = caller[q]
  BY <1>4 DEF AInv, Callers
<1>8. Guessers'
  <2> SUFFICES ASSUME NEW q \in UserRequests, caller'[q].op = "guess" PROVE Guesser(caller[q])'
    BY DEF Guessers
  <2>1. q # r /\ caller'[q] = caller[q] /\ Guesser(caller[q])
    BY <1>7 DEF Rest, GInv, Guessers
  <2>2. caller[q].attempts <= tries'[caller[q].code]
    <3>1. caller[q].code \in Codes /\ caller[q].attempts \in Nat /\ caller[q].attempts <= tries[caller[q].code]
      BY <1>3, <2>1 DEF Guesser
    <3> QED BY <1>3, <1>6, <3>1
  <2>3. caller[q].code \notin contested /\ ~ caller[q].right => caller[q].code # c
    <3>1. SUFFICES ASSUME c \notin contested, ~ caller[q].right, caller[q].code = c PROVE FALSE
      OBVIOUS
    <3>2. q \in Wrong(c)
      BY <2>1, <3>1 DEF Wrong, Holding, Rest
    <3> QED BY <1>2, <1>3, <2>1, <3>1, <3>2 DEF GInv, OneWrong
  <2>4. caller[q].code \notin contested /\ ~ caller[q].right => caller[q].attempts = otp'[caller[q].code].attempts
    BY <1>5, <2>1, <2>3 DEF Guesser
  <2> QED BY <1>4, <2>1, <2>2, <2>4 DEF Guesser
<1>9. OneWrong'
  <2>1. \A d : Wrong(d)' \subseteq Wrong(d)
    BY <1>7 DEF Wrong, Holding, Rest
  <2> QED BY <1>4, <2>1 DEF GInv, OneWrong
<1>10. GuessesAreCounted'
  <2> SUFFICES ASSUME NEW d \in Codes
               PROVE  /\ otp'[d].attempts <= tries'[d]
                      /\ d \notin contested => otp'[d].attempts = tries'[d] /\ tries'[d] <= OTP_MAX_ATTEMPTS
    BY <1>4 DEF GuessesAreCounted
  <2>1. /\ otp[d].attempts <= tries[d]
        /\ d \notin contested => otp[d].attempts = tries[d] /\ tries[d] <= OTP_MAX_ATTEMPTS
    BY DEF GInv, GuessesAreCounted
  <2>2. CASE d = c
    BY <1>3, <1>5, <1>6, <2>1, <2>2
  <2>3. CASE d # c
    BY <1>5, <1>6, <2>1, <2>3
  <2> QED BY <2>2, <2>3
<1>11. \A q \in UserRequests : caller'[q] = Rest \/ caller'[q].op \in CallerOps
  BY <1>7 DEF GInv
<1> QED BY <1>4, <1>5, <1>6, <1>8, <1>9, <1>10, <1>11 DEF GInv

(* The steps that leave the codes alone, handler by handler. *)
LEMMA OtherCall ==
  ASSUME AInv, GInv, NEW r \in UserRequests, NEW h, h = Rest \/ h.op \in CallerOps \ {"guess"},
         caller' = [caller EXCEPT ![r] = h], UNCHANGED <<otp, cooling, guesses>>,
         links' \subseteq 1 .. MaxPasswords
  PROVE  GInv'
<1>1. \A q \in UserRequests : caller'[q] = caller[q] \/ caller'[q] = h
  BY DEF AInv, Callers
<1> QED BY <1>1, NoGuess DEF GInv

LEMMA NextGInv ==
  ASSUME AInv, GInv, [AccountNext]_accountVars PROVE GInv'
<1>1. links \subseteq 1 .. MaxPasswords
  BY DEF GInv
<1>2. \A op \in CallerOps \ {"guess"} : /\ Doing(op).op \in CallerOps \ {"guess"}
                                        /\ Read(op).op \in CallerOps \ {"guess"}
  BY DEF Doing, Read
<1>3. ASSUME NEW r \in UserRequests,
             \/ Register(r) \/ Resend(r) \/ Login(r) \/ AskPassword(r) \/ ConfirmReset(r) \/ EditProfile(r)
             \/ Leave(r)
             \/ \E op \in {"managed", "suspend", "activate", "remove"} : Manage(r, op)
      PROVE  GInv'
  <2>1. PICK op \in CallerOps \ {"guess"} : caller' = [caller EXCEPT ![r] = Doing(op)] \/ caller' = [caller EXCEPT ![r] = Read(op)]
    BY <1>3 DEF Register, Resend, Login, AskPassword, ConfirmReset, EditProfile, Leave, Manage, Call,
                CallerOps
  <2>2. UNCHANGED <<otp, cooling, guesses, links>>
    BY <1>3 DEF Register, Resend, Login, AskPassword, ConfirmReset, EditProfile, Leave, Manage, rowsOfCodes,
                rowsOfKeys
  <2> QED BY <1>1, <1>2, <2>1, <2>2, OtherCall
<1>4. ASSUME NEW r \in UserRequests,
             \/ GiveToken(r) \/ SavePassword(r) \/ SaveProfile(r) \/ SetActive(r)
             \/ DeleteMe(r) \/ DeleteUser(r)
             \/ \E active \in BOOLEAN : SaveManaged(r, active)
      PROVE  GInv'
  <2>1. caller' = [caller EXCEPT ![r] = Rest] /\ UNCHANGED <<otp, cooling, guesses, links>>
    BY <1>4 DEF GiveToken, SavePassword, SaveProfile, SetActive, SaveManaged, DeleteMe, LeavingOthersLate, DeleteUser,
                Answer, rowsOfCodes, rowsOfKeys
  <2> QED BY <1>1, <2>1, OtherCall
<1>5. ASSUME NEW r \in UserRequests, IssueCode(r) PROVE GInv'
  <2>1. caller' = [caller EXCEPT ![r] = Rest] /\ cooling' = TRUE /\ UNCHANGED <<guesses, links>>
    BY <1>5 DEF IssueCode, Answer, rowsOfKeys
  <2>2. otp' \in [Codes -> OtpRow] /\ \A c \in Codes : otp'[c].attempts = otp[c].attempts
    <3>1. PICK c \in Codes : otp' = [otp EXCEPT ![c].made = TRUE]
      BY <1>5 DEF IssueCode
    <3> QED BY <3>1 DEF GInv, OtpRow
  <2>3. \A q \in UserRequests : caller'[q] = caller[q] \/ caller'[q] = Rest
    BY <2>1 DEF AInv, Callers
  <2> QED BY <1>1, <2>1, <2>2, <2>3, NoGuess
<1>6. ASSUME NEW r \in UserRequests, RightGuess(r) PROVE GInv'
  <2>1. caller' = [caller EXCEPT ![r] = Doing("token")] /\ UNCHANGED <<cooling, guesses, links>>
    BY <1>6 DEF RightGuess, rowsOfKeys
  <2>2. otp' \in [Codes -> OtpRow] /\ \A c \in Codes : otp'[c].attempts = otp[c].attempts
    BY <1>6 DEF RightGuess, GInv, OtpRow
  <2>3. \A q \in UserRequests : caller'[q] = caller[q] \/ caller'[q].op = "token"
    BY <2>1 DEF AInv, Callers, Doing
  <2> QED BY <1>1, <2>1, <2>2, <2>3, NoGuess DEF GInv, CallerOps
<1>7. ASSUME NEW c \in Codes, Expire(c) PROVE GInv'
  <2>1. otp' \in [Codes -> OtpRow] /\ \A d \in Codes : otp'[d].attempts = otp[d].attempts
    BY <1>7 DEF Expire, GInv, OtpRow
  <2>2. UNCHANGED <<cooling, guesses, links, caller>>
    BY <1>7 DEF Expire, rowsOfKeys, callers
  <2> QED BY <1>1, <2>1, <2>2, NoGuess DEF GInv
<1>8. CASE AskReset
  <2>1. account.password \in 1 .. MaxPasswords
    BY <1>8, AccountAssumption DEF AskReset, CanCall, Exists, AInv, AccountRow
  <2> QED BY <1>1, <1>8, <2>1, NoGuess DEF AskReset, rowsOfCodes, callers, GInv
<1>9. CASE \/ Cool \/ Restore \/ UNCHANGED accountVars
           \/ \E t \in Tokens : Logout(t)
  <2>1. cooling' \in BOOLEAN /\ UNCHANGED <<otp, guesses, links, caller>>
    BY <1>9 DEF Cool, Restore, Logout, accountVars, rowsOfCodes, rowsOfKeys, guesses, callers, GInv
  <2> QED BY <1>1, <2>1, NoGuess DEF GInv
<1>10. ASSUME NEW r \in UserRequests, NEW t \in Tokens, Refresh(r, t) PROVE GInv'
  <2>1. PICK h : h = [op |-> "refresh", token |-> t] /\ caller' = [caller EXCEPT ![r] = h]
    BY <1>10 DEF Refresh, Call
  <2>2. UNCHANGED <<otp, cooling, guesses, links>> /\ h.op \in CallerOps \ {"guess"}
    BY <1>10, <2>1 DEF Refresh, rowsOfCodes, rowsOfKeys, CallerOps
  <2> QED BY <1>1, <2>1, <2>2, OtherCall
<1>11. ASSUME NEW r \in UserRequests, Rotate(r) PROVE GInv'
  <2>1. caller' = [caller EXCEPT ![r] = Doing("rotate")] /\ UNCHANGED <<otp, cooling, guesses, links>>
    BY <1>11 DEF Rotate, rowsOfCodes
  <2> QED BY <1>1, <1>2, <2>1, OtherCall DEF CallerOps
<1> QED
  <2>1. CASE JoinStep
    BY <1>3, <1>4, <1>5, <1>6, <1>9, <2>1, GuessKeeps DEF JoinStep
  <2>2. CASE CodeStep
    BY <1>3, <1>7, <1>9, <2>2, GuessKeeps, WrongGuessKeeps DEF CodeStep
  <2>3. CASE KeyStep
    BY <1>3, <1>4, <1>8, <1>9, <1>10, <1>11, <2>3 DEF KeyStep
  <2> QED BY <1>9, <2>1, <2>2, <2>3 DEF AccountNext

(* verify_email_otp gives a code up after as many wrong guesses at it as   *)
(* OTP_MAX_ATTEMPTS and no fewer, whatever codes are issued, expire or are *)
(* used meanwhile; and after no more, but where it lost one to another     *)
(* that was made at once.                                                  *)
THEOREM GuessesStayCounted == AccountSpec => []GuessesAreCounted
<1>1. GInv => GuessesAreCounted
  BY DEF GInv
<1> QED BY <1>1, InitAInv, NextAInv, InitGInv, NextGInv, PTL DEF AccountSpec

(* The rows, the codes, the tokens and what handlers hold keep their types.*)
THEOREM AccountTypeCorrect == AccountSpec => []AccountTypeOK
<1>1. AInv /\ GInv => AccountTypeOK
  BY DEF AInv, GInv, AccountTypeOK
<1> QED BY <1>1, InitAInv, NextAInv, InitGInv, NextGInv, PTL DEF AccountSpec

----------------------------------------------------------------------------
(* The administrators' permissions *)

(* What a handler that is about to hand on roles, or write one, holds: of  *)
(* what it hands on without being a super admin it was checked against     *)
(* rights that had been handed out.                                        *)
HandsOn(j) ==
  /\ j.op \in {"create", "assign"} =>
       j.target \in Admins /\ j.roles \subseteq Roles /\ (j.any = TRUE \/ j.perms \subseteq handed)
  /\ j.op \in RoleOps => j.target \in Roles
  /\ j.op \in {"role_create", "role_update"} => j.perms \subseteq Perms

Asking == DOMAIN asked = AdminRequests /\ \A c \in AdminRequests : HandsOn(asked[c])

CInv ==
  /\ holds \in [Admins -> SUBSET Roles]
  /\ DOMAIN role = Roles
  /\ Asking
  /\ NothingFromNowhere

LEMMA InitCInv ==
  ASSUME AdminInit PROVE CInv
<1>1. holds \in [Admins -> SUBSET Roles] /\ DOMAIN role = Roles
  <2>1. holds \in [Admins -> SUBSET SystemRoles] /\ DOMAIN role = Roles
    BY AdminAssumption DEF AdminInit
  <2> QED BY <2>1 DEF Roles
<1>2. Asking
  BY DEF AdminInit, Asking, HandsOn, Waiting, RoleOps
<1>3. NothingFromNowhere
  <2> SUFFICES ASSUME NEW u \in Admins, NEW r \in holds[u] PROVE role[r].perms \subseteq handed
    BY DEF NothingFromNowhere, PermsOf
  <2>1. r \in UNION {holds[v] : v \in Admins}
    OBVIOUS
  <2>2. handed = UNION {role[s].perms : s \in UNION {holds[v] : v \in Admins}}
    BY DEF AdminInit
  <2> QED BY <2>1, <2>2
<1> QED BY <1>1, <1>2, <1>3 DEF CInv

(* Who is no super admin has rights that were handed out.                  *)
LEMMA RightsWereHanded ==
  ASSUME CInv, NEW u \in Admins, ~ IsSuper(u)
  PROVE  Rights(u) \subseteq handed
<1>1. Rights(u) \subseteq PermsOf(holds[u])
  BY DEF Rights, PermsOf, ActiveRolesOf
<1> QED BY <1>1 DEF CInv, NothingFromNowhere

LEMMA MayGiveHanded ==
  ASSUME CInv, NEW u \in Admins, NEW rs, MayGive(u, rs)
  PROVE  IsSuper(u) \/ PermsOf(rs) \subseteq handed
BY RightsWereHanded DEF MayGive, PermsOf

LEMMA AskKeeps ==
  ASSUME CInv, NEW c \in AdminRequests, NEW u \in Admins, AskStep(c, u)
  PROVE  CInv'
<1>1. ASSUME NEW j, HandsOn(j), Enter(c, u, j) PROVE CInv'
  <2>1. UNCHANGED <<admin, holds, role, handed>> /\ asked' = [asked EXCEPT ![c] = j]
    BY <1>1 DEF Enter
  <2>2. Asking'
    BY <1>1, <2>1 DEF CInv, Asking, HandsOn
  <2> QED BY <2>1, <2>2 DEF CInv, NothingFromNowhere, PermsOf
<1>2. ASSUME NEW t \in Admins, NEW super \in BOOLEAN, NEW rs \in SUBSET Giveable, AskCreate(c, u, t, super, rs)
      PROVE  CInv'
  <2> DEFINE j == [op |-> "create", target |-> t, super |-> super, roles |-> rs,
                   any |-> IsSuper(u), perms |-> PermsOf(rs)]
  <2>1. IsSuper(u) \/ PermsOf(rs) \subseteq handed
    BY <1>2, MayGiveHanded DEF AskCreate
  <2>2. HandsOn(j)
    <3>1. j.op = "create" /\ j.target = t /\ j.roles = rs /\ j.perms = PermsOf(rs)
      OBVIOUS
    <3>2. j.any = IsSuper(u)
      BY Zenon
    <3>3. j.any = TRUE \/ j.perms \subseteq handed
      <4>1. CASE IsSuper(u)
        <5>1. IsSuper(u) = TRUE
          BY <4>1, Zenon
        <5> QED BY <3>2, <5>1, Zenon
      <4>2. CASE PermsOf(rs) \subseteq handed
        BY <3>1, <4>2
      <4> QED BY <2>1, <4>1, <4>2
    <3> HIDE DEF j
    <3> QED BY <3>1, <3>3 DEF HandsOn, Giveable, RoleOps
  <2> QED BY <1>1, <1>2, <2>2 DEF AskCreate
<1>3. ASSUME NEW t \in Admins, NEW rs \in SUBSET Giveable, AskAssign(c, u, t, rs)
      PROVE  CInv'
  <2> DEFINE j == [op |-> "assign", target |-> t, roles |-> rs,
                   any |-> IsSuper(u), perms |-> PermsOf(rs)]
  <2>1. IsSuper(u) \/ PermsOf(rs) \subseteq handed
    BY <1>3, MayGiveHanded DEF AskAssign
  <2>2. HandsOn(j)
    <3>1. j.op = "assign" /\ j.target = t /\ j.roles = rs /\ j.perms = PermsOf(rs)
      OBVIOUS
    <3>2. j.any = IsSuper(u)
      BY Zenon
    <3>3. j.any = TRUE \/ j.perms \subseteq handed
      <4>1. CASE IsSuper(u)
        <5>1. IsSuper(u) = TRUE
          BY <4>1, Zenon
        <5> QED BY <3>2, <5>1, Zenon
      <4>2. CASE PermsOf(rs) \subseteq handed
        BY <3>1, <4>2
      <4> QED BY <2>1, <4>1, <4>2
    <3> HIDE DEF j
    <3> QED BY <3>1, <3>3 DEF HandsOn, Giveable, RoleOps
  <2> QED BY <1>1, <1>3, <2>2 DEF AskAssign
<1>4. ASSUME NEW t \in Admins, NEW row, AskPatch(c, u, t, row) PROVE CInv'
  BY <1>1, <1>4 DEF AskPatch, HandsOn, RoleOps
<1>5. ASSUME NEW t \in Admins, NEW a \in BOOLEAN, AskManage(c, u, t, a) PROVE CInv'
  BY <1>1, <1>5 DEF AskManage, HandsOn, RoleOps
<1>6. ASSUME NEW t \in Admins, NEW op \in {"suspend", "activate"}, AskActive(c, u, t, op) PROVE CInv'
  BY <1>1, <1>6 DEF AskActive, HandsOn, RoleOps
<1>7. ASSUME NEW t \in Admins, AskDestroy(c, u, t) PROVE CInv'
  <2>1. HandsOn(Destroying(t))
    BY DEF Destroying, HandsOn, RoleOps
  <2> QED BY <1>1, <1>7, <2>1 DEF AskDestroy
<1>8. ASSUME NEW r \in Roles, NEW ps \in PermSets, AskRoleCreate(c, u, r, ps) PROVE CInv'
  <2>1. HandsOn([op |-> "role_create", target |-> r, perms |-> ps])
    BY AdminAssumption DEF HandsOn
  <2> QED BY <1>1, <1>8, <2>1 DEF AskRoleCreate
<1>9. ASSUME NEW r \in Roles, NEW ps \in PermSets, NEW a \in BOOLEAN, AskRoleUpdate(c, u, r, a, ps) PROVE CInv'
  <2>1. HandsOn([op |-> "role_update", target |-> r, active |-> a, perms |-> ps])
    BY AdminAssumption DEF HandsOn
  <2> QED BY <1>1, <1>9, <2>1 DEF AskRoleUpdate
<1>10. ASSUME NEW r \in CustomRoles, AskRoleDelete(c, u, r) PROVE CInv'
  BY <1>1, <1>10 DEF AskRoleDelete, HandsOn, RoleOps, Roles
<1> QED BY <1>2, <1>3, <1>4, <1>5, <1>6, <1>7, <1>8, <1>9, <1>10 DEF AskStep

(* A handler that has written hands nothing on any more.                   *)
LEMMA ServedKeeps ==
  ASSUME Asking, NEW c \in AdminRequests, asked' = [asked EXCEPT ![c] = Waiting], handed \subseteq handed'
  PROVE  Asking'
BY DEF Asking, HandsOn, Waiting, RoleOps

(* Roles handed on to one user, who keeps no others.                       *)
LEMMA GrantKeeps ==
  ASSUME CInv, NEW j, HandsOn(j), j.op \in {"create", "assign"}, NEW had,
         \E rs \in Granted(j, had) : holds' = [holds EXCEPT ![j.target] = rs],
         HandedBy(j), role' = role
  PROVE  holds' \in [Admins -> SUBSET Roles] /\ handed \subseteq handed' /\ NothingFromNowhere'
<1>1. PICK rs \in Granted(j, had) : holds' = [holds EXCEPT ![j.target] = rs]
  OBVIOUS
<1>2. rs \subseteq j.roles
  BY <1>1 DEF Granted
<1>3. j.target \in Admins /\ j.roles \subseteq Roles /\ (j.any = TRUE \/ j.perms \subseteq handed)
  BY DEF HandsOn
<1>4. holds' \in [Admins -> SUBSET Roles]
  BY <1>1, <1>2, <1>3 DEF CInv
<1>5. handed \subseteq handed' /\ PermsOf(j.roles) \subseteq handed'
  <2>1. CASE j.any = TRUE
    <3>1. j.any
      BY <2>1, Zenon
    <3>2. handed' = handed \cup PermsOf(j.roles)
      BY <3>1, Zenon DEF HandedBy
    <3> QED BY <3>2
  <2>2. CASE j.perms \subseteq handed
    <3>1. handed' = handed \cup PermsOf(j.roles) \/ handed' = handed \cup (PermsOf(j.roles) \ j.perms)
      BY Zenon DEF HandedBy
    <3> QED BY <2>2, <3>1
  <2> QED BY <1>3, <2>1, <2>2
<1>6. PermsOf(rs) \subseteq handed'
  BY <1>2, <1>5 DEF PermsOf
<1>7. NothingFromNowhere'
  <2> SUFFICES ASSUME NEW u \in Admins PROVE PermsOf(holds'[u]) \subseteq handed'
    BY DEF NothingFromNowhere, PermsOf
  <2>1. CASE u = j.target
    BY <1>1, <1>3, <1>6, <2>1 DEF CInv
  <2>2. CASE u # j.target
    BY <1>1, <1>5, <2>2 DEF CInv, NothingFromNowhere
  <2> QED BY <2>1, <2>2
<1> QED BY <1>4, <1>5, <1>7

LEMMA WriteKeeps ==
  ASSUME CInv, NEW c \in AdminRequests, WriteStep(c)
  PROVE  CInv'
<1>0. HandsOn(asked[c]) /\ Asking
  BY DEF CInv, Asking
<1>1. CASE Create(c) \/ Assign(c)
  <2>1. /\ asked[c].op \in {"create", "assign"} /\ asked' = [asked EXCEPT ![c] = Waiting]
        /\ HandedBy(asked[c]) /\ role' = role
        /\ \E had : \E rs \in Granted(asked[c], had) : holds' = [holds EXCEPT ![asked[c].target] = rs]
    <3>1. CASE Create(c)
      BY <3>1 DEF Create, Serve
    <3>2. CASE Assign(c)
      BY <3>2 DEF Assign, Serve
    <3> QED BY <1>1, <3>1, <3>2
  <2>2. holds' \in [Admins -> SUBSET Roles] /\ handed \subseteq handed' /\ NothingFromNowhere'
    BY <1>0, <2>1, GrantKeeps
  <2> QED BY <1>0, <2>1, <2>2, ServedKeeps DEF CInv
<1>2. CASE SaveRow(c) \/ SetAdminActive(c) \/ Destroy(c) \/ Fail(c)
  <2>1. UNCHANGED <<holds, role, handed>> /\ asked' = [asked EXCEPT ![c] = Waiting]
    BY <1>2 DEF SaveRow, SetAdminActive, Destroy, Fail, Serve
  <2> QED BY <1>0, <2>1, ServedKeeps DEF CInv, NothingFromNowhere, PermsOf
<1>3. CASE SaveRole(c)
  <2> DEFINE j == asked[c]
  <2>1. PICK a : role' = [role EXCEPT ![j.target] = [live |-> TRUE, active |-> a, perms |-> j.perms]]
    BY <1>3 DEF SaveRole
  <2>2. /\ j.target \in Roles /\ asked' = [asked EXCEPT ![c] = Waiting] /\ holds' = holds
        /\ handed' = IF \E u \in Admins : j.target \in holds[u] THEN handed \cup j.perms ELSE handed
    BY <1>0, <1>3 DEF SaveRole, Serve, HandsOn, RoleOps
  <2> HIDE DEF j
  <2>3. handed \subseteq handed' /\ DOMAIN role' = Roles
    BY <2>1, <2>2 DEF CInv
  <2>4. NothingFromNowhere'
    <3> SUFFICES ASSUME NEW u \in Admins, NEW r \in holds[u] PROVE role'[r].perms \subseteq handed'
      BY <2>2 DEF NothingFromNowhere, PermsOf
    <3>1. r \in Roles /\ role[r].perms \subseteq handed
      BY DEF CInv, NothingFromNowhere, PermsOf
    <3>2. CASE r = j.target
      BY <2>1, <2>2, <3>1, <3>2 DEF CInv
    <3>3. CASE r # j.target
      BY <2>1, <2>3, <3>1, <3>3 DEF CInv
    <3> QED BY <3>2, <3>3
  <2> QED BY <1>0, <2>2, <2>3, <2>4, ServedKeeps DEF CInv
<1>4. CASE DeleteRole(c)
  <2> DEFINE d == asked[c].target
  <2>1. /\ role' = [role EXCEPT ![d] = NoRole] /\ holds' = [u \in Admins |-> holds[u] \ {d}]
        /\ asked' = [asked EXCEPT ![c] = Waiting] /\ handed' = handed
    BY <1>4 DEF DeleteRole, Serve
  <2> HIDE DEF d
  <2>2. NothingFromNowhere'
    <3> SUFFICES ASSUME NEW u \in Admins, NEW r \in holds'[u] PROVE role'[r].perms \subseteq handed'
      BY DEF NothingFromNowhere, PermsOf
    <3>1. r \in holds[u] /\ r # d
      BY <2>1
    <3>2. r \in Roles /\ role[r].perms \subseteq handed
      BY <3>1 DEF CInv, NothingFromNowhere, PermsOf
    <3> QED BY <2>1, <3>1, <3>2 DEF CInv
  <2>3. holds' \in [Admins -> SUBSET Roles] /\ DOMAIN role' = Roles
    BY <2>1 DEF CInv
  <2> QED BY <1>0, <2>1, <2>2, <2>3, ServedKeeps DEF CInv
<1> QED BY <1>1, <1>2, <1>3, <1>4 DEF WriteStep

LEMMA SeedKeeps ==
  ASSUME CInv, SeedDefaultRbac PROVE CInv'
<1>1. Asking'
  BY DEF SeedDefaultRbac, CInv, Asking, HandsOn
<1>2. NothingFromNowhere'
  <2> SUFFICES ASSUME NEW u \in Admins, NEW r \in holds[u] PROVE role'[r].perms \subseteq handed'
    BY DEF NothingFromNowhere, PermsOf, SeedDefaultRbac
  <2>1. r \in Roles /\ role[r].perms \subseteq handed
    BY DEF CInv, NothingFromNowhere, PermsOf
  <2>2. CASE r \in SystemRoles
    BY <2>1, <2>2 DEF SeedDefaultRbac, SeededRole
  <2>3. CASE r \notin SystemRoles
    BY <2>1, <2>3 DEF SeedDefaultRbac
  <2> QED BY <2>2, <2>3
<1> QED BY <1>1, <1>2 DEF CInv, SeedDefaultRbac

LEMMA NextCInv == CInv /\ [AdminNext]_adminVars => CInv'
<1> SUFFICES ASSUME CInv, [AdminNext]_adminVars PROVE CInv'
  OBVIOUS
<1>1. CASE UNCHANGED adminVars
  BY <1>1 DEF adminVars, CInv, Asking, HandsOn, NothingFromNowhere, PermsOf
<1> QED BY <1>1, AskKeeps, WriteKeeps, SeedKeeps DEF AdminNext

(* Whoever creates administrators and assigns roles, and whatever is taken *)
(* away from him meanwhile: who is no super admin hands on only what was   *)
(* handed out.                                                             *)
THEOREM PermissionsAreHandedOut == AdminSpec => []NothingFromNowhere
<1>1. AdminInit => CInv
  BY InitCInv
<1>2. CInv => NothingFromNowhere
  BY DEF CInv
<1> QED BY <1>1, <1>2, NextCInv, PTL DEF AdminSpec

(* Rows, targets and columns that handlers have read and will write.       *)
Writes(j) ==
  /\ j.op \in {"create", "patch", "manage", "suspend", "activate", "destroy"} => j.target \in Admins
  /\ j.op = "create" => j.super \in BOOLEAN
  /\ j.op \in {"patch", "manage"} => j.row \in AdminRow
  /\ j.op = "role_update" => j.active \in BOOLEAN

HeldRolesLive == \A u \in Admins : \A r \in holds[u] : role[r].live = TRUE

TInv ==
  /\ admin \in [Admins -> AdminRow] /\ role \in [Roles -> RoleRow]
  /\ \A c \in AdminRequests : asked[c] = Waiting \/ asked[c].op \in AdminOps \cup RoleOps
  /\ \A c \in AdminRequests : Writes(asked[c])
  /\ HeldRolesLive /\ served \in 0 .. MaxServed /\ handed \subseteq Perms

LEMMA InitTInv == ASSUME AdminInit PROVE TInv
<1>1. admin \in [Admins -> AdminRow] /\ holds \in [Admins -> SUBSET SystemRoles]
  BY AdminAssumption DEF AdminInit
<1>2. role \in [Roles -> RoleRow] /\ \A r \in SystemRoles : role[r].live = TRUE
  BY AdminAssumption DEF AdminInit, SeededRole, NoRole, RoleRow, Roles
<1>3. \A c \in AdminRequests : asked[c] = Waiting /\ Writes(asked[c])
  BY DEF AdminInit, Writes, Waiting
<1>4. handed \subseteq Perms
  <2>1. handed = UNION {role[r].perms : r \in UNION {holds[u] : u \in Admins}}
    BY DEF AdminInit
  <2>2. \A r \in UNION {holds[u] : u \in Admins} : role[r].perms \subseteq Perms
    BY <1>1, <1>2 DEF RoleRow, Roles
  <2> QED BY <2>1, <2>2
<1>5. served \in 0 .. MaxServed
  BY AdminAssumption DEF AdminInit
<1> QED BY <1>1, <1>2, <1>3, <1>4, <1>5 DEF TInv, HeldRolesLive

LEMMA AskTypes ==
  ASSUME CInv, TInv, NEW c \in AdminRequests, NEW u \in Admins, AskStep(c, u)
  PROVE  TInv'
<1>0. served < MaxServed /\ served \in Nat /\ MaxServed \in Nat
  <2>1. served < MaxServed
    BY DEF AskStep
  <2> QED BY <2>1, AdminAssumption DEF TInv
<1>1. ASSUME NEW j, Enter(c, u, j), Writes(j), j.op \in AdminOps \cup RoleOps PROVE TInv'
  <2>1. UNCHANGED <<admin, holds, role, handed>> /\ asked' = [asked EXCEPT ![c] = j] /\ served' = served + 1
    BY <1>1 DEF Enter
  <2>2. \A d \in AdminRequests : asked'[d] = asked[d] \/ asked'[d] = j
    BY <2>1 DEF CInv, Asking
  <2>3. \A d \in AdminRequests : /\ asked'[d] = Waiting \/ asked'[d].op \in AdminOps \cup RoleOps
                                 /\ Writes(asked'[d])
    BY <1>1, <2>2 DEF TInv
  <2>4. \A d \in AdminRequests : Writes(asked[d])'
    BY <2>3 DEF Writes
  <2> QED BY <1>0, <2>1, <2>3, <2>4 DEF TInv, HeldRolesLive
<1> USE DEF Writes, AdminOps, RoleOps
<1>2. ASSUME NEW t \in Admins, NEW super \in BOOLEAN, NEW rs \in SUBSET Giveable, AskCreate(c, u, t, super, rs)
      PROVE  TInv'
  <2>1. PICK j : /\ Enter(c, u, j) /\ j.op = "create" /\ j.target = t /\ j.super = super
    BY <1>2 DEF AskCreate
  <2> QED BY <1>1, <2>1
<1>3. ASSUME NEW t \in Admins, NEW rs \in SUBSET Giveable, AskAssign(c, u, t, rs) PROVE TInv'
  <2>1. PICK j : Enter(c, u, j) /\ j.op = "assign"
    BY <1>3 DEF AskAssign
  <2> QED BY <1>1, <2>1
<1>4. ASSUME NEW t \in Admins, NEW a \in BOOLEAN, NEW s \in BOOLEAN,
             AskPatch(c, u, t, [admin[t] EXCEPT !.active = a, !.super = s]) PROVE TInv'
  <2>1. PICK row : row = [admin[t] EXCEPT !.active = a, !.super = s]
    OBVIOUS
  <2>2. row \in AdminRow
    <3>1. admin[t] \in AdminRow
      BY DEF TInv
    <3> QED BY <2>1, <3>1 DEF AdminRow
  <2>3. Enter(c, u, [op |-> "patch", target |-> t, row |-> row])
    BY <1>4, <2>1 DEF AskPatch
  <2> QED BY <1>1, <2>2, <2>3
<1>5. ASSUME NEW t \in Admins, NEW a \in BOOLEAN, AskManage(c, u, t, a) PROVE TInv'
  <2>1. PICK row : row = [admin[t] EXCEPT !.active = a]
    OBVIOUS
  <2>2. row \in AdminRow
    <3>1. admin[t] \in AdminRow
      BY DEF TInv
    <3> QED BY <2>1, <3>1 DEF AdminRow
  <2>3. Enter(c, u, [op |-> "manage", target |-> t, row |-> row])
    BY <1>5, <2>1 DEF AskManage
  <2> QED BY <1>1, <2>2, <2>3
<1>6. ASSUME NEW t \in Admins, NEW op \in {"suspend", "activate"}, AskActive(c, u, t, op) PROVE TInv'
  BY <1>1, <1>6 DEF AskActive
<1>7. ASSUME NEW t \in Admins, AskDestroy(c, u, t) PROVE TInv'
  BY <1>1, <1>7 DEF AskDestroy, Destroying
<1>8. ASSUME NEW r \in Roles, NEW ps \in PermSets, AskRoleCreate(c, u, r, ps) PROVE TInv'
  BY <1>1, <1>8 DEF AskRoleCreate
<1>9. ASSUME NEW r \in Roles, NEW ps \in PermSets, NEW a \in BOOLEAN, AskRoleUpdate(c, u, r, a, ps) PROVE TInv'
  BY <1>1, <1>9 DEF AskRoleUpdate
<1>10. ASSUME NEW r \in CustomRoles, AskRoleDelete(c, u, r) PROVE TInv'
  BY <1>1, <1>10 DEF AskRoleDelete
<1> QED BY <1>2, <1>3, <1>4, <1>5, <1>6, <1>7, <1>8, <1>9, <1>10 DEF AskStep

(* A handler has written, and what it wrote is typed. *)
LEMMA WrittenTypes ==
  ASSUME CInv, TInv, NEW c \in AdminRequests, asked' = [asked EXCEPT ![c] = Waiting], served' = served,
         admin' \in [Admins -> AdminRow], role' \in [Roles -> RoleRow], HeldRolesLive', handed' \subseteq Perms
  PROVE  TInv'
<1>1. \A d \in AdminRequests : asked'[d] = asked[d] \/ asked'[d] = Waiting
  BY DEF CInv, Asking
<1>2. \A d \in AdminRequests : Writes(asked'[d]) /\ (asked'[d] = Waiting \/ asked'[d].op \in AdminOps \cup RoleOps)
  BY <1>1 DEF TInv, Writes, Waiting
<1>3. \A d \in AdminRequests : Writes(asked[d])'
  BY <1>2 DEF Writes
<1> QED BY <1>2, <1>3 DEF TInv

(* Roles are given only while they are there (assign_roles_to_user).       *)
LEMMA GrantTypes ==
  ASSUME CInv, TInv, NEW j, HandsOn(j), j.op \in {"create", "assign"},
         NEW had, \A r \in had : role[r].live = TRUE,
         \E rs \in Granted(j, had) : holds' = [holds EXCEPT ![j.target] = rs],
         HandedBy(j), role' = role
  PROVE  HeldRolesLive' /\ handed' \subseteq Perms
<1>1. PICK rs \in Granted(j, had) : holds' = [holds EXCEPT ![j.target] = rs]
  OBVIOUS
<1>2. PICK there : there = {r \in j.roles : role[r].live}
  OBVIOUS
<1>3. \A r \in j.roles : role[r].live \in BOOLEAN
  BY DEF HandsOn, TInv, RoleRow
<1>4. \A r \in there : role[r].live = TRUE
  BY <1>2, <1>3
<1>5. rs \subseteq (had \cap j.roles) \cup there
  BY <1>1, <1>2 DEF Granted
<1>6. HeldRolesLive'
  BY <1>1, <1>4, <1>5 DEF HeldRolesLive, TInv, CInv, HandsOn
<1>7. PermsOf(j.roles) \subseteq Perms
  BY DEF PermsOf, HandsOn, TInv, RoleRow
<1>8. handed' \subseteq handed \cup PermsOf(j.roles)
  BY DEF HandedBy
<1> QED BY <1>6, <1>7, <1>8 DEF TInv

LEMMA WriteTypes ==
  ASSUME CInv, TInv, NEW c \in AdminRequests, WriteStep(c)
  PROVE  TInv'
<1>0. /\ HandsOn(asked[c]) /\ Writes(asked[c])
      /\ admin \in [Admins -> AdminRow] /\ role \in [Roles -> RoleRow] /\ handed \subseteq Perms /\ HeldRolesLive
  BY DEF CInv, Asking, TInv
<1>1. CASE Create(c)
  <2>1. /\ asked[c].op = "create" /\ asked' = [asked EXCEPT ![c] = Waiting] /\ served' = served /\ role' = role
        /\ admin' = [admin EXCEPT ![asked[c].target] = [live |-> TRUE, made |-> TRUE, active |-> TRUE, super |-> asked[c].super]]
        /\ \E rs \in Granted(asked[c], {}) : holds' = [holds EXCEPT ![asked[c].target] = rs]
        /\ HandedBy(asked[c])
    BY <1>1 DEF Create, Serve
  <2>2. admin' \in [Admins -> AdminRow]
    BY <1>0, <2>1 DEF Writes, AdminRow
  <2>3. HeldRolesLive' /\ handed' \subseteq Perms
    <3>1. PICK had : had = {}
      OBVIOUS
    <3>2. \A r \in had : role[r].live = TRUE
      BY <3>1
    <3>3. \E rs \in Granted(asked[c], had) : holds' = [holds EXCEPT ![asked[c].target] = rs]
      BY <2>1, <3>1
    <3>4. asked[c].op \in {"create", "assign"} /\ HandedBy(asked[c]) /\ role' = role
      BY <2>1
    <3> QED BY <1>0, <3>2, <3>3, <3>4, GrantTypes
  <2> QED BY <1>0, <2>1, <2>2, <2>3, WrittenTypes
<1>2. CASE Assign(c)
  <2>1. /\ asked[c].op = "assign" /\ asked' = [asked EXCEPT ![c] = Waiting] /\ served' = served /\ role' = role
        /\ admin' = admin /\ HandedBy(asked[c])
        /\ \E rs \in Granted(asked[c], holds[asked[c].target]) : holds' = [holds EXCEPT ![asked[c].target] = rs]
    BY <1>2 DEF Assign, Serve
  <2>2. \A r \in holds[asked[c].target] : role[r].live = TRUE
    BY <1>0, <2>1 DEF HandsOn, HeldRolesLive
  <2>3. HeldRolesLive' /\ handed' \subseteq Perms
    BY <1>0, <2>1, <2>2, GrantTypes
  <2> QED BY <1>0, <2>1, <2>3, WrittenTypes
<1>3. CASE SaveRow(c) \/ SetAdminActive(c) \/ Destroy(c) \/ Fail(c)
  <2>1. UNCHANGED <<holds, role, handed, served>> /\ asked' = [asked EXCEPT ![c] = Waiting]
    BY <1>3 DEF SaveRow, SetAdminActive, Destroy, Fail, Serve
  <2>2. admin' \in [Admins -> AdminRow]
    <3>1. CASE SaveRow(c)
      BY <1>0, <3>1 DEF SaveRow, Serve, Writes
    <3>2. CASE SetAdminActive(c)
      <4>1. PICK t : t = asked[c].target
        OBVIOUS
      <4>2. PICK b \in BOOLEAN : b = (asked[c].op = "activate")
        BY Zenon
      <4>3. admin' = [admin EXCEPT ![asked[c].target].active = (asked[c].op = "activate")]
        BY <3>2 DEF SetAdminActive
      <4>4. t \in Admins /\ admin' = [admin EXCEPT ![t].active = b]
        <5>1. asked[c].target \in Admins
          BY <1>0, <3>2 DEF SetAdminActive, Serve, Writes
        <5> QED BY <5>1, <4>1, <4>2, <4>3
      <4>5. admin[t] \in AdminRow
        BY <1>0, <4>4
      <4>6. [admin[t] EXCEPT !.active = b] \in AdminRow
        BY <4>5 DEF AdminRow
      <4> QED BY <1>0, <4>4, <4>6
    <3>3. CASE Destroy(c)
      BY <1>0, <3>3 DEF Destroy, AdminRow
    <3>4. CASE Fail(c)
      BY <1>0, <3>4 DEF Fail
    <3> QED BY <1>3, <3>1, <3>2, <3>3, <3>4
  <2>3. HeldRolesLive'
    BY <1>0, <2>1 DEF HeldRolesLive
  <2> QED BY <1>0, <2>1, <2>2, <2>3, WrittenTypes
<1>4. CASE SaveRole(c)
  <2>1. PICK row, t : /\ row = [live |-> TRUE, active |-> IF asked[c].op = "role_create" THEN TRUE ELSE asked[c].active,
                                perms |-> asked[c].perms]
                      /\ t = asked[c].target
    OBVIOUS
  <2>2. /\ asked[c].op \in {"role_create", "role_update"} /\ asked' = [asked EXCEPT ![c] = Waiting] /\ served' = served
        /\ role' = [role EXCEPT ![t] = row] /\ UNCHANGED <<admin, holds>>
        /\ handed' \subseteq handed \cup asked[c].perms
    BY <1>4, <2>1 DEF SaveRole, Serve
  <2>3. t \in Roles /\ row \in RoleRow /\ row.live = TRUE /\ asked[c].perms \subseteq Perms
    BY <1>0, <2>1, <2>2 DEF HandsOn, Writes, RoleOps, RoleRow
  <2>4. role' \in [Roles -> RoleRow] /\ HeldRolesLive'
    BY <1>0, <2>2, <2>3 DEF HeldRolesLive
  <2> QED BY <1>0, <2>2, <2>3, <2>4, WrittenTypes
<1>5. CASE DeleteRole(c)
  <2>1. PICK d : d = asked[c].target
    OBVIOUS
  <2>2. /\ role' = [role EXCEPT ![d] = NoRole] /\ holds' = [u \in Admins |-> holds[u] \ {d}]
        /\ asked' = [asked EXCEPT ![c] = Waiting] /\ UNCHANGED <<admin, handed, served>>
    BY <1>5, <2>1 DEF DeleteRole, Serve
  <2>3. NoRole \in RoleRow
    BY DEF NoRole, RoleRow
  <2>4. role' \in [Roles -> RoleRow] /\ \A r \in Roles \ {d} : role'[r] = role[r]
    BY <1>0, <2>2, <2>3
  <2>5. HeldRolesLive'
    <3> SUFFICES ASSUME NEW u \in Admins, NEW r \in holds'[u] PROVE role'[r].live = TRUE
      BY DEF HeldRolesLive
    <3>1. r \in holds[u] /\ r # d
      BY <2>2
    <3>2. r \in Roles /\ role[r].live = TRUE
      BY <1>0, <3>1 DEF CInv, HeldRolesLive
    <3> QED BY <2>4, <3>1, <3>2
  <2> QED BY <1>0, <2>2, <2>4, <2>5, WrittenTypes
<1> QED BY <1>1, <1>2, <1>3, <1>4, <1>5 DEF WriteStep

LEMMA NextTInv == CInv /\ TInv /\ [AdminNext]_adminVars => TInv'
<1> SUFFICES ASSUME CInv, TInv, [AdminNext]_adminVars PROVE TInv'
  OBVIOUS
<1>1. CASE UNCHANGED adminVars
  <2>1. \A c \in AdminRequests : Writes(asked[c])'
    BY <1>1 DEF adminVars, TInv, Writes
  <2> QED BY <1>1, <2>1 DEF adminVars, TInv, HeldRolesLive
<1>2. CASE SeedDefaultRbac
  <2>1. \A r \in SystemRoles : SeededRole(r) \in RoleRow /\ SeededRole(r).live = TRUE /\ DefaultPerms[r] \subseteq Perms
    BY AdminAssumption DEF SeededRole, RoleRow
  <2>2. UNCHANGED <<admin, holds, asked, served>> /\ role' \in [Roles -> RoleRow] /\ handed' \subseteq Perms
    BY <1>2, <2>1 DEF SeedDefaultRbac, TInv
  <2>3. HeldRolesLive'
    BY <1>2, <2>1 DEF SeedDefaultRbac, TInv, CInv, HeldRolesLive
  <2>4. \A c \in AdminRequests : Writes(asked[c])'
    BY <2>2 DEF TInv, Writes
  <2> QED BY <2>2, <2>3, <2>4 DEF TInv
<1> QED BY <1>1, <1>2, AskTypes, WriteTypes DEF AdminNext

(* Rows and what handlers hold keep their types; and whoever is given,     *)
(* edits or deletes a role at once: every role that is held is there.      *)
THEOREM AdminTypeCorrect == AdminSpec => []AdminTypeOK
<1>1. AdminInit => CInv /\ TInv
  BY InitCInv, InitTInv
<1>2. CInv /\ TInv => AdminTypeOK
  BY DEF CInv, Asking, TInv, HeldRolesLive, AdminTypeOK
<1> QED BY <1>1, <1>2, NextCInv, NextTInv, PTL DEF AdminSpec

(* A deletion was asked for when another super admin, if there was any,    *)
(* would remain.                                                           *)
Deleting(j) == j.op = "destroy" => j.supers = {} \/ j.supers \ {j.target} # {}

EInv ==
  /\ DOMAIN admin = Admins
  /\ DOMAIN asked = AdminRequests
  /\ \A c \in AdminRequests : Deleting(asked[c])

LEMMA InitEInv == AdminInit => EInv
BY AdminAssumption DEF AdminInit, EInv, Deleting, Waiting

LEMMA AskDeleting ==
  ASSUME EInv, NEW c \in AdminRequests, NEW u \in Admins, AskStep(c, u)
  PROVE  EInv'
<1>1. ASSUME NEW j, Deleting(j), Enter(c, u, j) PROVE EInv'
  BY <1>1 DEF Enter, EInv, Deleting
<1>2. ASSUME NEW t \in Admins, AskDestroy(c, u, t) PROVE EInv'
  <2>1. Supers = {} \/ Supers \ {t} # {}
    BY <1>2 DEF AskDestroy, MayTouch, Supers
  <2>2. Deleting(Destroying(t))
    BY <2>1 DEF Deleting, Destroying
  <2> QED BY <1>1, <1>2, <2>2 DEF AskDestroy
<1>3. ASSUME NEW t \in Admins, NEW super \in BOOLEAN, NEW rs \in SUBSET Giveable, AskCreate(c, u, t, super, rs)
      PROVE  EInv'
  <2> DEFINE j == [op |-> "create", target |-> t, super |-> super, roles |-> rs,
                   any |-> IsSuper(u), perms |-> PermsOf(rs)]
  <2>1. Deleting(j)
    BY DEF Deleting
  <2> QED BY <1>1, <1>3, <2>1 DEF AskCreate
<1>4. ASSUME NEW t \in Admins, NEW rs \in SUBSET Giveable, AskAssign(c, u, t, rs) PROVE EInv'
  <2> DEFINE j == [op |-> "assign", target |-> t, roles |-> rs,
                   any |-> IsSuper(u), perms |-> PermsOf(rs)]
  <2>1. Deleting(j)
    BY DEF Deleting
  <2> QED BY <1>1, <1>4, <2>1 DEF AskAssign
<1>5. ASSUME NEW t \in Admins, NEW row, AskPatch(c, u, t, row) PROVE EInv'
  BY <1>1, <1>5 DEF AskPatch, Deleting
<1>6. ASSUME NEW t \in Admins, NEW a \in BOOLEAN, AskManage(c, u, t, a) PROVE EInv'
  BY <1>1, <1>6 DEF AskManage, Deleting
<1>7. ASSUME NEW t \in Admins, NEW op \in {"suspend", "activate"}, AskActive(c, u, t, op) PROVE EInv'
  BY <1>1, <1>7 DEF AskActive, Deleting
<1>8. ASSUME NEW r \in Roles, NEW ps \in PermSets, AskRoleCreate(c, u, r, ps) PROVE EInv'
  BY <1>1, <1>8 DEF AskRoleCreate, Deleting
<1>9. ASSUME NEW r \in Roles, NEW ps \in PermSets, NEW a \in BOOLEAN, AskRoleUpdate(c, u, r, a, ps) PROVE EInv'
  BY <1>1, <1>9 DEF AskRoleUpdate, Deleting
<1>10. ASSUME NEW r \in CustomRoles, AskRoleDelete(c, u, r) PROVE EInv'
  BY <1>1, <1>10 DEF AskRoleDelete, Deleting
<1> QED BY <1>2, <1>3, <1>4, <1>5, <1>6, <1>7, <1>8, <1>9, <1>10 DEF AskStep

LEMMA WriteDeleting ==
  ASSUME EInv, NEW c \in AdminRequests, WriteStep(c)
  PROVE  EInv' /\ asked' = [asked EXCEPT ![c] = Waiting]
<1>1. asked' = [asked EXCEPT ![c] = Waiting]
  BY DEF WriteStep, Create, SaveRow, SetAdminActive, Destroy, Assign, SaveRole, DeleteRole, Fail, Serve
<1>2. DOMAIN admin' = DOMAIN admin
  <2>1. CASE Create(c) \/ SaveRow(c) \/ SetAdminActive(c) \/ Destroy(c)
    BY <2>1 DEF Create, SaveRow, SetAdminActive, Destroy
  <2>2. CASE Assign(c) \/ SaveRole(c) \/ DeleteRole(c) \/ Fail(c)
    BY <2>2 DEF Assign, SaveRole, DeleteRole, Fail
  <2> QED BY <2>1, <2>2 DEF WriteStep
<1> QED BY <1>1, <1>2 DEF EInv, Deleting, Waiting

LEMMA NextEInv == EInv /\ [AdminNext]_adminVars => EInv'
<1> SUFFICES ASSUME EInv, [AdminNext]_adminVars PROVE EInv'
  OBVIOUS
<1>1. CASE UNCHANGED <<admin, asked>>
  BY <1>1 DEF EInv, Deleting
<1> QED BY <1>1, AskDeleting, WriteDeleting DEF AdminNext, SeedDefaultRbac, adminVars

(* The end of a deletion that nobody interfered with.                      *)
LEMMA DeletionLeaves ==
  ASSUME EInv, NEW c \in AdminRequests, WriteStep(c), asked[c].op = "destroy",
         Supers # {}, asked[c].supers = Supers
  PROVE  Supers' # {}
<1>1. CASE Destroy(c)
  <2> DEFINE t == asked[c].target
  <2>1. PICK u \in Admins : u \in Supers \ {t}
    BY DEF EInv, Deleting, Supers
  <2>2. admin' = [admin EXCEPT ![t].live = FALSE] /\ UNCHANGED <<holds, role>>
    BY <1>1 DEF Destroy
  <2>3. admin'[u] = admin[u]
    BY <2>1, <2>2 DEF EInv
  <2>4. IsSuper(u)'
    BY <2>1, <2>2, <2>3 DEF Supers, IsSuper, ActiveRolesOf
  <2> QED BY <2>4 DEF Supers
<1>2. CASE Fail(c)
  BY <1>2 DEF Fail, Supers, IsSuper, ActiveRolesOf
<1> QED BY <1>1, <1>2 DEF WriteStep, Create, SaveRow, SetAdminActive, Assign, SaveRole, DeleteRole, Serve

(* An administrator's deletion leaves a super admin, unless another        *)
(* handler made or unmade one since it was asked for.                      *)
THEOREM DeletionsLeaveSuperAdmin == AdminSpec => DeletionLeavesSuperAdmin
<1>1. EInv /\ [AdminNext]_adminVars =>
        [\A c \in AdminRequests :
           (asked[c].op = "destroy" /\ asked'[c] = Waiting /\ Supers # {} /\ asked[c].supers = Supers)
           => Supers' # {}]_adminVars
  <2> SUFFICES ASSUME EInv, AdminNext, NEW c \in AdminRequests, asked[c].op = "destroy",
                      asked'[c] = Waiting, Supers # {}, asked[c].supers = Supers
               PROVE  Supers' # {}
    OBVIOUS
  <2>1. asked[c] # Waiting
    BY DEF Waiting
  <2>2. CASE WriteStep(c)
    BY <2>2, DeletionLeaves
  <2>3. ASSUME NEW d \in AdminRequests \ {c}, WriteStep(d) PROVE FALSE
    BY <2>1, <2>3, WriteDeleting DEF EInv
  <2>4. ASSUME NEW d \in AdminRequests, NEW u \in Admins, AskStep(d, u) PROVE FALSE
    <3>1. d # c
      BY <2>1, <2>4 DEF AskStep
    <3>2. \E j : asked' = [asked EXCEPT ![d] = j]
      BY <2>4 DEF AskStep, AskCreate, AskPatch, AskManage, AskActive, AskDestroy, AskAssign,
                  AskRoleCreate, AskRoleUpdate, AskRoleDelete, Enter
    <3> QED BY <2>1, <3>1, <3>2 DEF EInv
  <2>5. CASE SeedDefaultRbac
    BY <2>1, <2>5 DEF SeedDefaultRbac
  <2> QED BY <2>2, <2>3, <2>4, <2>5 DEF AdminNext
<1> QED BY <1>1, InitEInv, NextEInv, PTL DEF AdminSpec, DeletionLeavesSuperAdmin

----------------------------------------------------------------------------
(* The subscription.  EventsTellPlan is nearly inductive: a save puts back *)
(* a row that was read long ago, so the argument needs that those are rows *)
(* (Jobs), and that a subscription once made has a row for good.           *)

RowJobs  == [op : {"change", "cancel", "patch"}, row : MemberRow]
TierJobs == [op : {"deactivate", "delete"}, plan : Tiers]

Jobs ==
  /\ planClerk \in [PlanClerks -> RowJobs \cup TierJobs \cup {Unoccupied}]
  /\ \A h \in PlanClerks : planClerk[h] \in RowJobs => member \in MemberRow

PInv ==
  /\ tier \in [Tiers -> TierStates]
  /\ member = NoMember \/ member \in MemberRow
  /\ told \in Event
  /\ Jobs
  /\ EventsTellPlan

LEMMA FreeIsATier == FreeTier \in Tiers
BY SubscriptionAssumption

LEMMA InitPInv == SubscriptionInit => PInv
<1> SUFFICES ASSUME SubscriptionInit PROVE PInv
  OBVIOUS
<1>1. tier \in [Tiers -> TierStates] /\ told \in Event
  BY FreeIsATier DEF SubscriptionInit, TierStates, Event
<1>2. Jobs
  <2>1. Unoccupied \notin RowJobs
    BY DEF Unoccupied, RowJobs
  <2> QED BY <2>1 DEF SubscriptionInit, Jobs
<1> QED BY <1>1, <1>2 DEF PInv, SubscriptionInit, NoMember, EventsTellPlan

LEMMA OpsDiffer ==
  /\ Unoccupied \notin RowJobs
  /\ \A j \in RowJobs \cup TierJobs \cup {Unoccupied} :
       /\ j.op \in {"change", "cancel", "patch"} => j \in RowJobs
       /\ j.op \in {"deactivate", "delete"} => j \in TierJobs
BY DEF Unoccupied, RowJobs, TierJobs

(* A handler that ends leaves the others as they were. *)
LEMMA EndKeeps ==
  ASSUME PInv, NEW h \in PlanClerks,
         planClerk' = [planClerk EXCEPT ![h] = Unoccupied],
         member \in MemberRow => member' \in MemberRow
  PROVE  Jobs'
BY OpsDiffer DEF PInv, Jobs

LEMMA OccupyKeeps ==
  ASSUME PInv, NEW h \in PlanClerks, UNCHANGED member,
         NEW j, Occupy(h, j), j \in TierJobs \/ (j \in RowJobs /\ member \in MemberRow)
  PROVE  Jobs'
<1>1. CASE j \in RowJobs /\ member \in MemberRow
  BY <1>1 DEF Occupy, PInv, Jobs
<1>2. CASE j \in TierJobs
  <2>1. j \notin RowJobs
    BY <1>2 DEF TierJobs, RowJobs
  <2> QED BY <1>2, <2>1 DEF Occupy, PInv, Jobs
<1> QED BY <1>1, <1>2

(* A member that is live has a row. *)
LEMMA LiveIsRow ==
  ASSUME PInv, member.live PROVE member \in MemberRow
BY DEF PInv, NoMember

LEMMA SameTold ==
  ASSUME PInv, UNCHANGED <<member, told>> PROVE EventsTellPlan'
BY DEF PInv, EventsTellPlan, EntitledTier

LEMMA SubscribeKeeps == ASSUME PInv, Subscribe PROVE PInv'
<1> USE DEF Subscribe
<1>1. tier' \in [Tiers -> TierStates]
  BY DEF PInv, WithFree, Seeded, TierStates
<1>2. told' \in Event
  BY FreeIsATier DEF Event
<1>3. /\ member' \in MemberRow
      /\ member'.plan = FreeTier
  <2>1. CASE member = NoMember
    BY <2>1, FreeIsATier DEF OnFree, MemberRow, AllStatuses, Spans
  <2>2. CASE member # NoMember
    <3>1. member \in MemberRow
      BY <2>2 DEF PInv
    <3>2. member' = [member EXCEPT !.live = TRUE, !.plan = FreeTier, !.status = "active"]
      BY <2>2
    <3> QED BY <3>1, <3>2, FreeIsATier DEF MemberRow, AllStatuses
  <2> QED BY <2>1, <2>2
<1>4. Jobs'
  BY <1>3 DEF PInv, Jobs
<1>5. EventsTellPlan'
  BY <1>3 DEF EventsTellPlan
<1> QED BY <1>1, <1>2, <1>3, <1>4, <1>5 DEF PInv

LEMMA TimeKeeps == ASSUME PInv, TimePasses PROVE PInv'
<1> USE DEF TimePasses
<1>1. member \in MemberRow
  BY DEF PInv
<1>2. /\ member' \in MemberRow
      /\ member'.plan = member.plan /\ member'.live = member.live /\ member'.status = member.status
      /\ member.period = "over" => member'.period = "over"
      /\ member.trial = "over" => member'.trial = "over"
  <2>1. CASE member' = [member EXCEPT !.period = "over"]
    BY <1>1, <2>1 DEF MemberRow, Spans
  <2>2. CASE member' = [member EXCEPT !.trial = "over"]
    BY <1>1, <2>2 DEF MemberRow, Spans
  <2> QED BY <2>1, <2>2
<1>3. Entitled(member') => Entitled(member)
  BY <1>2 DEF Entitled
<1>4. EventsTellPlan'
  BY <1>2, <1>3 DEF EventsTellPlan, EntitledTier, PInv
<1>5. Jobs'
  BY <1>2 DEF PInv, Jobs
<1> QED BY <1>2, <1>4, <1>5 DEF PInv

LEMMA RemoveKeeps == ASSUME PInv, RemoveMember PROVE PInv'
<1> USE DEF RemoveMember
<1>1. member \in MemberRow
  BY LiveIsRow
<1>2. member' \in MemberRow /\ ~ member'.live
  BY <1>1 DEF MemberRow
<1> QED BY <1>2 DEF PInv, Jobs, EventsTellPlan

(* What an administrator reads, and what becomes of the plans, touches     *)
(* neither the row nor the events.                                         *)
LEMMA PlansKeep ==
  ASSUME PInv, UNCHANGED <<member, told>>, tier' \in [Tiers -> TierStates], Jobs'
  PROVE  PInv'
BY SameTold DEF PInv

LEMMA AskRowKeeps ==
  ASSUME PInv, NEW h \in PlanClerks, NEW p \in Tiers, NEW s \in SubStatuses, NEW e \in SubEnds,
         AskChange(h, p, s, e) \/ AskMemberPatch(h, s, e)
  PROVE  PInv'
<1>1. s \in AllStatuses /\ e \in Spans
  BY SubscriptionAssumption DEF AllStatuses, Spans
<1>2. member \in MemberRow
  BY LiveIsRow DEF AskChange, AskMemberPatch
<1>3. UNCHANGED <<member, told, tier>>
  BY DEF AskChange, AskMemberPatch
<1>4. CASE AskChange(h, p, s, e)
  <2> DEFINE row == [member EXCEPT !.plan = p, !.status = s, !.period = e]
  <2>1. row \in MemberRow
    BY <1>1, <1>2 DEF MemberRow
  <2>2. [op |-> "change", row |-> row] \in RowJobs
    BY <2>1 DEF RowJobs
  <2> QED BY <1>2, <1>3, <1>4, <2>2, OccupyKeeps, PlansKeep DEF AskChange, PInv
<1>5. CASE AskMemberPatch(h, s, e)
  <2> DEFINE row == [member EXCEPT !.status = s, !.trial = e]
  <2>1. row \in MemberRow
    BY <1>1, <1>2 DEF MemberRow
  <2>2. [op |-> "patch", row |-> row] \in RowJobs
    BY <2>1 DEF RowJobs
  <2> QED BY <1>2, <1>3, <1>5, <2>2, OccupyKeeps, PlansKeep DEF AskMemberPatch, PInv
<1> QED BY <1>4, <1>5

LEMMA SaveChangeKeeps == ASSUME PInv, NEW h \in PlanClerks, SaveChange(h) PROVE PInv'
<1> USE DEF SaveChange, Ends
<1>1. planClerk[h].row \in MemberRow
  BY OpsDiffer DEF PInv, Jobs, RowJobs
<1>2. told' \in Event /\ told'.plan = member'.plan /\ ~ told'.canceled
  BY <1>1 DEF MemberRow, Event
<1>3. Jobs'
  BY <1>1, EndKeeps
<1> QED BY <1>1, <1>2, <1>3 DEF PInv, EventsTellPlan

LEMMA CancelKeeps == ASSUME PInv, NEW h \in PlanClerks, SaveCancel(h) PROVE PInv'
<1> USE DEF SaveCancel, Ends
<1>1. member \in MemberRow
  BY OpsDiffer DEF PInv, Jobs
<1>2. /\ member' \in MemberRow /\ member'.status = "canceled"
      /\ member'.plan = member.plan /\ member'.live = member.live
  BY <1>1 DEF MemberRow, AllStatuses
<1>3. /\ told' \in Event /\ told'.plan = told.plan /\ told'.sure = told.sure
  BY DEF PInv, Event
<1>4. EventsTellPlan'
  BY <1>2, <1>3 DEF PInv, EventsTellPlan, EntitledTier, Entitled
<1>5. Jobs'
  BY <1>2, EndKeeps
<1> QED BY <1>2, <1>3, <1>4, <1>5 DEF PInv

LEMMA PatchKeeps == ASSUME PInv, NEW h \in PlanClerks, SaveMemberPatch(h) PROVE PInv'
<1> USE DEF SaveMemberPatch, Ends
<1>1. planClerk[h].row \in MemberRow
  BY OpsDiffer DEF PInv, Jobs, RowJobs
<1>2. told' \in Event /\ ~ told'.sure
  BY DEF PInv, Event
<1>3. Jobs'
  BY <1>1, EndKeeps
<1> QED BY <1>1, <1>2, <1>3 DEF PInv, EventsTellPlan

LEMMA TiersKeep ==
  ASSUME PInv,
         \/ SeedPlans
         \/ \E p \in Tiers : CreateTier(p) \/ \E s \in {"active", "inactive"} : PatchTier(p, s)
  PROVE  PInv'
<1>1. tier' \in [Tiers -> TierStates]
  BY DEF SeedPlans, CreateTier, PatchTier, Seeded, PInv, TierStates
<1>2. UNCHANGED <<member, told, planClerk>>
  BY DEF SeedPlans, CreateTier, PatchTier
<1>3. Jobs'
  BY <1>2 DEF PInv, Jobs
<1> QED BY <1>1, <1>2, <1>3, PlansKeep

LEMMA DestroyKeeps ==
  ASSUME PInv, NEW h \in PlanClerks,
         ChangeFails(h) \/ DestroyTier(h) \/ \E p \in Tiers : AskTierDestroy(h, p)
  PROVE  PInv'
<1>1. CASE ChangeFails(h)
  <2>1. UNCHANGED <<tier, member, told>> /\ planClerk' = [planClerk EXCEPT ![h] = Unoccupied]
    BY <1>1 DEF ChangeFails, Ends
  <2> QED BY <2>1, EndKeeps, PlansKeep DEF PInv
<1>2. CASE DestroyTier(h)
  <2>1. UNCHANGED <<member, told>> /\ planClerk' = [planClerk EXCEPT ![h] = Unoccupied]
    BY <1>2 DEF DestroyTier, Ends
  <2>2. planClerk[h].plan \in Tiers
    BY <1>2, OpsDiffer DEF DestroyTier, Ends, PInv, Jobs, TierJobs
  <2>3. tier' \in [Tiers -> TierStates]
    BY <1>2, <2>2 DEF DestroyTier, PInv, TierStates
  <2> QED BY <2>1, <2>3, EndKeeps, PlansKeep
<1>3. ASSUME NEW p \in Tiers, AskTierDestroy(h, p) PROVE PInv'
  <2> DEFINE j == [op |-> IF Subscribed(p) /\ member.live THEN "deactivate" ELSE "delete", plan |-> p]
  <2>1. j \in TierJobs
    BY DEF TierJobs
  <2>2. UNCHANGED <<tier, member, told>> /\ Occupy(h, j)
    BY <1>3 DEF AskTierDestroy
  <2> QED BY <2>1, <2>2, OccupyKeeps, PlansKeep DEF PInv
<1> QED BY <1>1, <1>2, <1>3

LEMMA PInvInductive == PInv /\ [SubscriptionNext]_subscriptionVars => PInv'
<1> SUFFICES ASSUME PInv, [SubscriptionNext]_subscriptionVars PROVE PInv'
  OBVIOUS
<1>1. CASE UNCHANGED subscriptionVars
  <2>1. Jobs'
    BY <1>1 DEF subscriptionVars, PInv, Jobs
  <2> QED BY <1>1, <2>1, PlansKeep DEF subscriptionVars, PInv
<1>2. CASE Subscribe \/ TimePasses \/ RemoveMember
  BY <1>2, SubscribeKeeps, TimeKeeps, RemoveKeeps
<1>3. CASE \/ SeedPlans
           \/ \E p \in Tiers : CreateTier(p) \/ \E s \in {"active", "inactive"} : PatchTier(p, s)
  BY <1>3, TiersKeep
<1>4. ASSUME NEW h \in PlanClerks,
             \/ \E p \in Tiers, s \in SubStatuses, e \in SubEnds : AskChange(h, p, s, e)
             \/ \E s \in SubStatuses, e \in SubEnds : AskMemberPatch(h, s, e)
      PROVE  PInv'
  BY <1>4, AskRowKeeps, FreeIsATier
<1>5. ASSUME NEW h \in PlanClerks, AskCancel(h) PROVE PInv'
  <2> DEFINE row == [member EXCEPT !.status = "canceled"]
  <2>1. member \in MemberRow
    BY <1>5, LiveIsRow DEF AskCancel
  <2>2. row \in MemberRow
    BY <2>1 DEF MemberRow, AllStatuses
  <2>3. [op |-> "cancel", row |-> row] \in RowJobs
    BY <2>2 DEF RowJobs
  <2> QED BY <1>5, <2>1, <2>3, OccupyKeeps, PlansKeep DEF AskCancel, PInv
<1>6. ASSUME NEW h \in PlanClerks,
             SaveChange(h) \/ SaveCancel(h) \/ SaveMemberPatch(h) \/ ChangeFails(h) \/ DestroyTier(h)
             \/ \E p \in Tiers : AskTierDestroy(h, p)
      PROVE  PInv'
  BY <1>6, SaveChangeKeeps, CancelKeeps, PatchKeeps, DestroyKeeps
<1> QED BY <1>1, <1>2, <1>3, <1>4, <1>5, <1>6 DEF SubscriptionNext

----------------------------------------------------------------------------
(* Types: whatever rows are put back, a subscription has a plan, a status  *)
(* and ends, and a plan that is referred to is one that could exist.       *)
THEOREM SubscriptionTypeCorrect == SubscriptionSpec => []SubscriptionTypeOK
<1>1. PInv => SubscriptionTypeOK
  BY DEF PInv, Jobs, SubscriptionTypeOK
<1> QED BY <1>1, InitPInv, PInvInductive, PTL DEF SubscriptionSpec

(* For any number of administrators at once: the events tell the plan a    *)
(* live subscription has, and after a cancellation only the free plan's    *)
(* limits apply, unless a PATCH without a plan changed the row since.      *)
THEOREM EventsAlwaysTellPlan == SubscriptionSpec => []EventsTellPlan
<1>1. PInv => EventsTellPlan
  BY DEF PInv
<1> QED BY <1>1, InitPInv, PInvInductive, PTL DEF SubscriptionSpec

----------------------------------------------------------------------------
(* Projects.  What the command has behind it is scoped, as its transaction *)
(* sees it; a request that leaves a row without a project meets the        *)
(* command, or asks for no project.                                        *)

Passed(stage) ==
  CASE stage = "source"   -> {"folder"}
    [] stage = "job"      -> {"folder", "source"}
    [] stage = "artifact" -> {"folder", "source", "job"}
    [] stage \in {"commit", "done"} -> Kinds
    [] OTHER              -> {}

CommandTypes ==
  /\ command.at \in Stages /\ command.read \in BOOLEAN
  /\ command = [at |-> command.at, read |-> command.read, target |-> command.target,
                general |-> command.general, wrote |-> command.wrote]
  /\ Written \subseteq Kinds /\ \A k \in Written : command.wrote[k] \in ProjectIds
  /\ command.at \in {"source", "job", "artifact", "commit"} => command.general \in ProjectIds
  /\ command.read = TRUE => command.at \in {"source", "job", "artifact"} /\ command.target \in ProjectIds
  /\ ~ Running => Written = {}

PassedIsScoped == crossed \/ \A k \in Passed(command.at) : Seen(k) # Unscoped

BackfillInv ==
  /\ DOMAIN scope = Kinds /\ DOMAIN over = Kinds /\ crossed \in BOOLEAN /\ here \in BOOLEAN
  /\ CommandTypes /\ PassedIsScoped

LEMMA InitBackfillInv == ProjectsInit => BackfillInv
<1> SUFFICES ASSUME ProjectsInit PROVE BackfillInv
  OBVIOUS
<1>1. DOMAIN scope = Kinds /\ DOMAIN over = Kinds /\ crossed = FALSE /\ here = TRUE /\ command = NotRunning
  BY DEF ProjectsInit
<1>2. CommandTypes /\ Passed(command.at) = {}
  BY <1>1 DEF CommandTypes, NotRunning, Written, Running, Stages, Passed
<1> QED BY <1>1, <1>2 DEF BackfillInv, PassedIsScoped

(* The command goes on, and leaves the rows to the owner. *)
LEMMA CommandGoesOn ==
  ASSUME BackfillInv, UNCHANGED <<scope, over, here, crossed>>, CommandTypes',
         \A k \in Passed(command'.at) : Seen(k)' # Unscoped \/ (k \in Passed(command.at) /\ Seen(k)' = Seen(k))
  PROVE  BackfillInv'
BY DEF BackfillInv, PassedIsScoped

LEMMA CommandIsNotRunning ==
  ASSUME BackfillInv, UNCHANGED <<scope, over, here>>, crossed' \in BOOLEAN, command' = NotRunning
  PROVE  BackfillInv'
<1>1. CommandTypes' /\ Passed(command'.at) = {}
  BY DEF CommandTypes, NotRunning, Written, Running, Stages, Passed
<1> QED BY <1>1 DEF BackfillInv, PassedIsScoped

LEMMA BeginKeeps ==
  ASSUME BackfillInv, BeginBackfill PROVE BackfillInv'
<1>1. /\ UNCHANGED <<scope, over, here>> /\ crossed' \in BOOLEAN
      /\ command' = [NotRunning EXCEPT !.at = IF \A k \in Kinds : scope[k] # Unscoped THEN "done"
                                              ELSE IF here THEN "folder" ELSE "skipped"]
  BY DEF BeginBackfill
<1>2. ASSUME NEW stage \in {"folder", "skipped"}, command' = [NotRunning EXCEPT !.at = stage]
      PROVE  BackfillInv'
  <2>1. CommandTypes' /\ Passed(command'.at) = {}
    BY <1>2 DEF CommandTypes, NotRunning, Written, Running, Stages, Passed
  <2> QED BY <1>1, <2>1 DEF BackfillInv, PassedIsScoped
<1>3. CASE \A k \in Kinds : scope[k] # Unscoped
  <2>1. command' = [NotRunning EXCEPT !.at = "done"]
    BY <1>1, <1>3
  <2>2. CommandTypes' /\ Written' = {} /\ Passed(command'.at) = Kinds
    BY <2>1 DEF CommandTypes, NotRunning, Written, Running, Stages, Passed
  <2>3. \A k \in Kinds : Seen(k)' # Unscoped
    BY <1>1, <1>3, <2>2 DEF Seen
  <2> QED BY <1>1, <2>2, <2>3 DEF BackfillInv, PassedIsScoped
<1>4. CASE ~ \A k \in Kinds : scope[k] # Unscoped
  <2>1. \E stage \in {"folder", "skipped"} : command' = [NotRunning EXCEPT !.at = stage]
    BY <1>1, <1>4
  <2> QED BY <1>2, <2>1
<1> QED BY <1>3, <1>4

LEMMA ScopedIsNot == \A p \in ProjectIds : p # Unscoped /\ p # Absent
BY ProjectsAssumption

(* A step of the command leaves a command. *)
LEMMA CommandIsOne ==
  ASSUME NEW at \in {"source", "job", "artifact", "commit"}, NEW read \in BOOLEAN, NEW target,
         NEW general \in ProjectIds, NEW wrote,
         command' = [at |-> at, read |-> read, target |-> target, general |-> general, wrote |-> wrote],
         DOMAIN wrote \subseteq Kinds, \A i \in DOMAIN wrote : wrote[i] \in ProjectIds,
         read = TRUE => at # "commit" /\ target \in ProjectIds
  PROVE  CommandTypes'
<1>1. /\ command'.at = at /\ command'.read = read /\ command'.target = target
      /\ command'.general = general /\ command'.wrote = wrote
  OBVIOUS
<1>2. Written' = DOMAIN wrote /\ \A i \in Written' : command'.wrote[i] \in ProjectIds
  BY <1>1 DEF Written
<1>3. Running' /\ at \in Stages
  BY <1>1 DEF Running, Stages
<1> QED BY <1>1, <1>2, <1>3, Zenon DEF CommandTypes

LEMMA WrittenIsScoped ==
  BackfillInv => DOMAIN command.wrote \subseteq Kinds /\ \A i \in DOMAIN command.wrote : command.wrote[i] \in ProjectIds
BY DEF BackfillInv, CommandTypes, Written

LEMMA FoldersKeep ==
  ASSUME BackfillInv, BackfillFolders PROVE BackfillInv'
<1>1. PICK p \in ProjectIds :
        command' = [command EXCEPT !.at = "source", !.general = p,
                      !.wrote = IF scope["folder"] = Unscoped THEN WithWritten("folder", p) ELSE @]
  BY DEF BackfillFolders, Generals, Spare
<1>2. /\ command.at = "folder" /\ UNCHANGED <<scope, over, here, crossed>>
      /\ command.read = FALSE
  BY DEF BackfillFolders, BackfillInv, CommandTypes
<1>3. PICK wrote : wrote = IF scope["folder"] = Unscoped THEN WithWritten("folder", p) ELSE command.wrote
  OBVIOUS
<1>4. /\ command'.at = "source" /\ command'.general = p /\ command'.wrote = wrote
      /\ command'.read = FALSE /\ command'.target = command.target
      /\ command' = [at |-> "source", read |-> FALSE, target |-> command.target, general |-> p, wrote |-> wrote]
  BY <1>1, <1>2, <1>3 DEF BackfillInv, CommandTypes
<1>5. /\ DOMAIN wrote \subseteq Kinds /\ \A i \in DOMAIN wrote : wrote[i] \in ProjectIds
      /\ IF "folder" \in DOMAIN wrote THEN wrote["folder"] # Unscoped ELSE scope["folder"] # Unscoped
  <2>1. Written \subseteq Kinds /\ \A i \in Written : command.wrote[i] \in ProjectIds
    BY DEF BackfillInv, CommandTypes
  <2>2. CASE scope["folder"] = Unscoped
    <3>1. wrote = WithWritten("folder", p) /\ "folder" \in Kinds
      BY <1>3, <2>2 DEF Kinds
    <3>2. /\ DOMAIN wrote = Written \cup {"folder"} /\ wrote["folder"] = p
          /\ \A i \in Written : i # "folder" => wrote[i] = command.wrote[i]
      BY <3>1 DEF WithWritten
    <3>5. \A i \in DOMAIN wrote : i \in Kinds /\ wrote[i] \in ProjectIds
      BY <2>1, <3>1, <3>2
    <3>6. "folder" \in DOMAIN wrote /\ wrote["folder"] # Unscoped
      BY <3>2, ScopedIsNot
    <3> QED BY <3>5, <3>6
  <2>3. CASE scope["folder"] # Unscoped
    BY <1>3, <2>1, <2>3, ProjectsAssumption DEF Written
  <2> QED BY <2>2, <2>3
<1>6. CommandTypes'
  <2>1. command'.read = FALSE /\ DOMAIN wrote \subseteq Kinds /\ \A i \in DOMAIN wrote : wrote[i] \in ProjectIds
    BY <1>4, <1>5
  <2> QED BY <1>4, <2>1, CommandIsOne
<1>7. Passed(command'.at) = {"folder"}
  BY <1>4 DEF Passed
<1>8. Seen("folder")' # Unscoped
  BY <1>2, <1>4, <1>5 DEF Seen, Written
<1> QED BY <1>2, <1>6, <1>7, <1>8, CommandGoesOn

LEMMA ReadRowKeeps ==
  ASSUME BackfillInv, ReadRow PROVE BackfillInv'
<1>0. PICK k : k = command.at
  OBVIOUS
<1>1. /\ k \in {"source", "job", "artifact"} /\ command.read = FALSE /\ UNCHANGED <<scope, over, here, crossed>>
      /\ command' = IF scope[k] = Unscoped
                      THEN [command EXCEPT !.read = TRUE, !.target = TargetOf(k)]
                      ELSE [command EXCEPT !.at = NextStage[k]]
  BY <1>0 DEF ReadRow, BackfillInv, CommandTypes
<1>2. command.general \in ProjectIds /\ TargetOf(k) \in ProjectIds
  BY <1>0, <1>1 DEF BackfillInv, CommandTypes, TargetOf
<1>3. CASE scope[k] = Unscoped
  <2>1. PICK target \in ProjectIds : target = TargetOf(k)
    BY <1>2
  <2>2. /\ command' = [at |-> k, read |-> TRUE, target |-> target,
                       general |-> command.general, wrote |-> command.wrote]
    BY <1>0, <1>1, <1>3, <2>1 DEF BackfillInv, CommandTypes
  <2>3. /\ command'.at = k /\ command'.read = TRUE /\ command'.target = target
        /\ command'.general = command.general /\ command'.wrote = command.wrote
    BY <2>2
  <2>4. CommandTypes'
    <3>1. k \in {"source", "job", "artifact", "commit"} /\ k # "commit"
      BY <1>1
    <3> QED BY <1>2, <2>1, <2>2, <3>1, WrittenIsScoped, CommandIsOne
  <2>5. \A i : Seen(i)' = Seen(i)
    BY <1>1, <2>3 DEF Seen, Written
  <2> QED BY <1>0, <1>1, <2>3, <2>4, <2>5, CommandGoesOn
<1>4. CASE scope[k] # Unscoped
  <2>0. PICK next \in {"source", "job", "artifact", "commit"} : next = NextStage[k]
    BY <1>1 DEF NextStage
  <2>1. command' = [command EXCEPT !.at = next]
    BY <1>1, <1>4, <2>0
  <2>2. command' = [at |-> next, read |-> FALSE, target |-> command.target,
                    general |-> command.general, wrote |-> command.wrote]
    BY <1>1, <2>1 DEF BackfillInv, CommandTypes
  <2>3. CommandTypes' /\ command'.at = next /\ command'.wrote = command.wrote
    <3>1. PICK general \in ProjectIds : general = command.general
      BY <1>2
    <3>2. PICK wrote, target : wrote = command.wrote /\ target = command.target
      OBVIOUS
    <3>3. command' = [at |-> next, read |-> FALSE, target |-> target, general |-> general, wrote |-> wrote]
      BY <2>2, <3>1, <3>2
    <3>4. DOMAIN wrote \subseteq Kinds /\ \A i \in DOMAIN wrote : wrote[i] \in ProjectIds
      BY <3>2, WrittenIsScoped
    <3>5. CommandTypes'
      BY <3>3, <3>4, CommandIsOne
    <3> QED BY <2>2, <3>5
  <2>4. \A i : Seen(i)' = Seen(i)
    BY <1>1, <2>3 DEF Seen, Written
  <2>5. Seen(k) # Unscoped
    BY <1>4, WrittenIsScoped, ScopedIsNot DEF Seen, Written
  <2>6. Passed(command'.at) = Passed(command.at) \cup {k}
    BY <1>0, <1>1, <2>0, <2>3 DEF Passed, NextStage, Kinds
  <2> QED BY <1>1, <2>3, <2>4, <2>5, <2>6, CommandGoesOn
<1> QED BY <1>3, <1>4

LEMMA WriteRowKeeps ==
  ASSUME BackfillInv, WriteRow PROVE BackfillInv'
<1>0. PICK k : k = command.at
  OBVIOUS
<1>1. /\ command.read = TRUE /\ k \in {"source", "job", "artifact"} /\ UNCHANGED <<scope, over, here, crossed>>
      /\ command.target \in ProjectIds /\ command.general \in ProjectIds
      /\ command' = IF scope[k] = Absent THEN NotRunning
                    ELSE [command EXCEPT !.at = NextStage[k], !.read = FALSE, !.target = Unscoped,
                                         !.wrote = WithWritten(k, command.target)]
  BY <1>0 DEF WriteRow, BackfillInv, CommandTypes
<1>2. CASE scope[k] = Absent
  BY <1>1, <1>2, CommandIsNotRunning DEF BackfillInv
<1>3. CASE scope[k] # Absent
  <2>0. PICK next \in {"source", "job", "artifact", "commit"} : next = NextStage[k]
    BY <1>1 DEF NextStage
  <2>1. PICK wrote, target : wrote = WithWritten(k, target) /\ target = command.target
    OBVIOUS
  <2>2. command' = [at |-> next, read |-> FALSE, target |-> Unscoped,
                    general |-> command.general, wrote |-> wrote]
    <3>1. command' = [command EXCEPT !.at = next, !.read = FALSE, !.target = Unscoped, !.wrote = wrote]
      BY <1>1, <1>3, <2>0, <2>1
    <3> QED BY <3>1 DEF BackfillInv, CommandTypes
  <2>3. command'.at = next /\ command'.wrote = wrote
    BY <2>2
  <2>4. /\ DOMAIN wrote = Written \cup {k} /\ wrote[k] = target
        /\ \A i \in Written : i # k => wrote[i] = command.wrote[i]
    BY <2>1 DEF WithWritten
  <2>5. CommandTypes'
    <3>1. Written \subseteq Kinds /\ \A i \in Written : command.wrote[i] \in ProjectIds
      BY DEF BackfillInv, CommandTypes
    <3>2. k \in Kinds
      BY <1>1 DEF Kinds
    <3>4. \A i \in DOMAIN wrote : i \in Kinds /\ wrote[i] \in ProjectIds
      BY <1>1, <2>1, <2>4, <3>1, <3>2
    <3>5. DOMAIN wrote \subseteq Kinds /\ \A i \in DOMAIN wrote : wrote[i] \in ProjectIds
      BY <3>4
    <3> QED BY <1>1, <2>0, <2>2, <3>5, CommandIsOne
  <2>6. Seen(k)' # Unscoped /\ \A i \in Passed(command.at) : i # k => Seen(i)' = Seen(i)
    <3>1. Written' = Written \cup {k} /\ command'.wrote = wrote
      BY <2>3, <2>4 DEF Written
    <3>2. Seen(k)' = target
      BY <2>4, <3>1 DEF Seen
    <3>3. \A i : i # k => Seen(i)' = Seen(i)
      BY <1>1, <2>4, <3>1 DEF Seen
    <3> QED BY <1>1, <2>1, <3>2, <3>3, ScopedIsNot
  <2>7. Passed(command'.at) = Passed(command.at) \cup {k} /\ k \notin Passed(command.at)
    BY <1>0, <1>1, <2>0, <2>3 DEF Passed, NextStage, Kinds
  <2> QED BY <1>0, <1>1, <2>5, <2>6, <2>7, CommandGoesOn
<1> QED BY <1>2, <1>3

LEMMA CommitKeepsScopes ==
  ASSUME BackfillInv, CommitBackfill PROVE BackfillInv'
<1>1. /\ command.at = "commit" /\ UNCHANGED <<over, here, crossed>>
      /\ scope' = [k \in Kinds |-> Seen(k)] /\ command' = [NotRunning EXCEPT !.at = "done"]
  BY DEF CommitBackfill
<1>2. CommandTypes' /\ Written' = {} /\ Passed(command'.at) = Kinds
  BY <1>1 DEF CommandTypes, NotRunning, Written, Running, Stages, Passed
<1>3. crossed \/ \A k \in Kinds : Seen(k) # Unscoped
  BY <1>1 DEF BackfillInv, PassedIsScoped, Passed
<1>4. \A k \in Kinds : Seen(k)' = Seen(k)
  <2>1. \A k \in Kinds : scope'[k] = Seen(k)
    BY <1>1
  <2>2. \A k \in Kinds : Seen(k)' = scope'[k]
    BY <1>2 DEF Seen
  <2> QED BY <2>1, <2>2
<1>5. DOMAIN scope' = Kinds
  BY <1>1
<1> QED BY <1>1, <1>2, <1>3, <1>4, <1>5 DEF BackfillInv, PassedIsScoped

(* The owner leaves the command alone.  Unless a request meets it, or asks *)
(* for no project, a row that is not written keeps having a project.       *)
LEMMA OwnerKeeps ==
  ASSUME BackfillInv, UNCHANGED command, crossed' \in BOOLEAN, here' \in BOOLEAN, DOMAIN scope' = Kinds, DOMAIN over' = Kinds,
         crossed => crossed',
         crossed' = FALSE => \A k \in Kinds : k \in Written \/ scope'[k] = scope[k] \/ scope'[k] # Unscoped
  PROVE  BackfillInv'
<1>1. CommandTypes'
  BY DEF BackfillInv, CommandTypes, Written, Running
<1>2. Passed(command.at) \subseteq Kinds
  BY DEF BackfillInv, CommandTypes, Stages, Passed, Kinds
<1>3. PassedIsScoped'
  BY <1>2 DEF BackfillInv, PassedIsScoped, Seen, Written
<1> QED BY <1>1, <1>3 DEF BackfillInv

LEMMA RowRequestsKeep ==
  ASSUME BackfillInv, RowRequest PROVE BackfillInv'
<1>0. crossed \in BOOLEAN /\ here \in BOOLEAN /\ DOMAIN scope = Kinds /\ DOMAIN over = Kinds
  BY DEF BackfillInv
<1>1. ASSUME Met PROVE /\ crossed' \in BOOLEAN /\ here' \in BOOLEAN /\ (crossed => crossed')
                       /\ crossed' = FALSE => ~ Running /\ crossed = FALSE
  BY <1>0, <1>1 DEF Met
<1>7. crossed = FALSE /\ command.at = "done" => \A k \in Kinds : scope[k] # Unscoped
  BY DEF BackfillInv, PassedIsScoped, Passed, CommandTypes, Running, Seen
<1>8. ~ Running /\ command.at # "done" => Passed(command.at) = {}
  BY DEF BackfillInv, CommandTypes, Stages, Running, Passed
<1>2. CASE MaterializeArtifact
  <2>1. /\ scope' = [scope EXCEPT !["artifact"] = scope["job"]]
        /\ over' = [over EXCEPT !["artifact"] = "job"]
        /\ Met /\ UNCHANGED command
    BY <1>2 DEF MaterializeArtifact
  <2>2. crossed' \in BOOLEAN /\ here' \in BOOLEAN /\ DOMAIN scope' = Kinds /\ DOMAIN over' = Kinds /\ CommandTypes'
    BY <1>0, <1>1, <2>1 DEF BackfillInv, CommandTypes, Written, Running
  <2>3. ASSUME crossed' = FALSE, NEW k \in Passed(command.at) PROVE Seen(k)' # Unscoped
    <3>1. crossed = FALSE /\ command.at = "done" /\ Written = {}
      BY <1>1, <1>8, <2>1, <2>3 DEF BackfillInv, CommandTypes
    <3>2. k \in Kinds /\ "job" \in Kinds
      BY <2>3, <3>1 DEF Passed, Kinds
    <3>3. scope'[k] # Unscoped
      BY <1>0, <1>7, <2>1, <3>1, <3>2
    <3> QED BY <2>1, <3>1, <3>3 DEF Seen, Written
  <2> QED BY <2>1, <2>2, <2>3 DEF BackfillInv, PassedIsScoped
<1>3. ASSUME NEW k \in Kinds, DeleteRow(k) PROVE BackfillInv'
  <2>1. /\ scope' = [scope EXCEPT ![k] = Absent] /\ DOMAIN over' = Kinds /\ Met /\ UNCHANGED command
    BY <1>3 DEF DeleteRow, Made
  <2>2. DOMAIN scope' = Kinds /\ scope'[k] = Absent /\ \A i \in Kinds \ {k} : scope'[i] = scope[i]
    BY <1>0, <2>1
  <2>3. Absent # Unscoped
    BY DEF Absent, Unscoped
  <2> QED BY <1>1, <2>1, <2>2, <2>3, OwnerKeeps
<1>4. ASSUME NEW k \in Kinds, NEW a \in Kinds \cup {Alone}, NEW p \in ProjectIds, CreateRow(k, a, p)
      PROVE  BackfillInv'
  <2>1. /\ scope' = [scope EXCEPT ![k] = Validated(a, p)] /\ over' = [over EXCEPT ![k] = a]
        /\ Met /\ UNCHANGED command
    BY <1>4 DEF CreateRow, Made
  <2>2. Validated(a, p) # Unscoped
    BY ProjectsAssumption DEF Validated
  <2>3. /\ DOMAIN scope' = Kinds /\ DOMAIN over' = Kinds /\ scope'[k] # Unscoped
        /\ \A i \in Kinds \ {k} : scope'[i] = scope[i]
    BY <1>0, <2>1, <2>2
  <2> QED BY <1>1, <2>1, <2>3, OwnerKeeps
<1>5. ASSUME NEW h \in OwnerRequests, NEW k \in Kinds, NEW p \in ProjectIds \cup {Unscoped}, AskPatchRow(h, k, p)
      PROVE  BackfillInv'
  <2>1. Met /\ UNCHANGED <<scope, over, command>>
    BY <1>5 DEF AskPatchRow, Ask, Made
  <2> QED BY <1>0, <1>1, <2>1, OwnerKeeps
<1>6. ASSUME NEW h \in OwnerRequests, PatchRow(h) PROVE BackfillInv'
  <2>0. PICK k, to, above :
          /\ k = owner[h].kind /\ to = owner[h].to
          /\ above = IF owner[h].above # Alone /\ scope[owner[h].above] = Absent THEN Alone ELSE owner[h].above
    OBVIOUS
  <2>1. /\ scope' = [scope EXCEPT ![k] = to] /\ over' = [over EXCEPT ![k] = above]
        /\ crossed' = (crossed \/ to = Unscoped) /\ UNCHANGED <<command, here>>
    BY <1>6, <2>0 DEF PatchRow, Answered
  <2>2. crossed' \in BOOLEAN /\ (crossed => crossed') /\ (crossed' = FALSE => to # Unscoped)
    BY <1>0, <2>1
  <2>3. /\ DOMAIN scope' = Kinds /\ DOMAIN over' = Kinds
        /\ \A i \in Kinds : scope'[i] = scope[i] \/ scope'[i] = to
    BY <1>0, <2>1
  <2> QED BY <1>0, <2>1, <2>2, <2>3, OwnerKeeps
<1>9. CASE OwnerComesOrGoes
  <2>1. here' \in BOOLEAN /\ UNCHANGED <<scope, over, command, crossed>>
    BY <1>0, <1>9 DEF OwnerComesOrGoes
  <2> QED BY <1>0, <2>1, OwnerKeeps
<1> QED BY <1>2, <1>3, <1>4, <1>5, <1>6, <1>9 DEF RowRequest

LEMMA ProjectRequestsKeep ==
  ASSUME BackfillInv, ProjectRequest PROVE BackfillInv'
<1>1. UNCHANGED <<scope, over, command, here>> /\ (Met \/ UNCHANGED crossed)
  BY DEF ProjectRequest, ChangeProject, CreateProject, AskPatchProject, SaveProject, Ask, Answered, Made, Met
<1>2. crossed' \in BOOLEAN /\ here' \in BOOLEAN /\ (crossed => crossed') /\ DOMAIN scope' = Kinds /\ DOMAIN over' = Kinds
  BY <1>1 DEF BackfillInv, Met
<1> QED BY <1>1, <1>2, OwnerKeeps

LEMMA BackfillInvInductive == BackfillInv /\ [ProjectsNext]_projectsVars => BackfillInv'
<1> SUFFICES ASSUME BackfillInv, [ProjectsNext]_projectsVars PROVE BackfillInv'
  OBVIOUS
<1>1. CASE TitleIsTwice \/ BackfillDies
  BY <1>1, CommandIsNotRunning DEF TitleIsTwice, BackfillDies, BackfillInv
<1>2. CASE UNCHANGED projectsVars
  BY <1>2, OwnerKeeps DEF projectsVars, BackfillInv
<1> QED BY <1>1, <1>2, BeginKeeps, FoldersKeep, ReadRowKeeps, WriteRowKeeps, CommitKeepsScopes,
           RowRequestsKeep, ProjectRequestsKeep DEF ProjectsNext, CommandStep

(* Types of what the owner writes.  A row that is patched is put back as   *)
(* it was fetched, by then deleted, say: it has a project or none.         *)

ProjectRows == ProjectRow \cup {NotMade}
PatchesOf(k) == [op: {"patch"}, kind: {k}, above: Above[k], to: ProjectIds \cup {Unscoped}]
ProjectEdits == [op: {"edit project"}, as: ProjectIds, row: ProjectRow]
Fetched == {Resting} \cup PatchesOf("folder") \cup PatchesOf("source") \cup ProjectEdits

RowsTyped ==
  /\ project \in [ProjectIds -> ProjectRows]
  /\ scope \in [Kinds -> ProjectIds \cup {Unscoped, Absent}]
  /\ \A k \in Kinds : over[k] \in Above[k] /\ (scope[k] = Absent => over[k] = Alone)

ScopingInv == BackfillInv /\ RowsTyped /\ owner \in [OwnerRequests -> Fetched]

LEMMA InitScopingInv == ProjectsInit => ScopingInv
<1> SUFFICES ASSUME ProjectsInit PROVE ScopingInv
  OBVIOUS
<1>1. BackfillInv
  BY InitBackfillInv
<1>2. project \in [ProjectIds -> ProjectRows]
  BY DEF ProjectsInit, ProjectRows, ProjectRow, NotMade, Own
<1>3. scope \in [Kinds -> ProjectIds \cup {Unscoped, Absent}]
  BY DEF ProjectsInit
<1>4. ASSUME NEW k \in Kinds PROVE over[k] \in Above[k] /\ (scope[k] = Absent => over[k] = Alone)
  <2>1. PICK above : above = {a \in Above[k] \ {Alone} : Absent \notin {scope[k], scope[a]}}
    OBVIOUS
  <2>2. over[k] = IF above = {} THEN Alone ELSE IF "source" \in above THEN "source" ELSE CHOOSE a \in above : TRUE
    BY <2>1 DEF ProjectsInit
  <2>3. above # {} => over[k] \in above
    BY <2>2
  <2>4. Alone \in Above[k]
    BY DEF Above, Kinds
  <2> QED BY <2>1, <2>2, <2>3, <2>4
<1>5. owner \in [OwnerRequests -> Fetched]
  BY DEF ProjectsInit, Fetched
<1> QED BY <1>1, <1>2, <1>3, <1>4, <1>5 DEF ScopingInv, RowsTyped

LEMMA OwnIsRow == \A g \in BOOLEAN : [Own EXCEPT !.general = g] \in ProjectRow
BY DEF Own, ProjectRow

(* What a request reads of a project that is there. *)
LEMMA LiveProjectIsRow ==
  ASSUME RowsTyped, NEW p \in ProjectIds, project[p].live
  PROVE  project[p] \in ProjectRow
BY DEF RowsTyped, ProjectRows, NotMade

LEMMA ProjectEdited ==
  ASSUME NEW row \in ProjectRow, NEW b \in BOOLEAN
  PROVE  /\ [row EXCEPT !.active = b] \in ProjectRow /\ [row EXCEPT !.live = FALSE] \in ProjectRow
         /\ [row EXCEPT !.general = b] \in ProjectRow
BY DEF ProjectRow

LEMMA ProjectWritten ==
  ASSUME RowsTyped, NEW p \in ProjectIds, NEW row \in ProjectRow, project' = [project EXCEPT ![p] = row],
         UNCHANGED <<scope, over>>
  PROVE  RowsTyped'
BY DEF RowsTyped, ProjectRows

LEMMA ScopeWritten ==
  ASSUME RowsTyped, DOMAIN over = Kinds, NEW k \in Kinds, NEW p \in ProjectIds \cup {Unscoped}, NEW a \in Above[k],
         scope' = [scope EXCEPT ![k] = p], over' = [over EXCEPT ![k] = a], UNCHANGED project
  PROVE  RowsTyped'
<1>1. p # Absent
  BY ScopedIsNot DEF Unscoped, Absent
<1>2. scope' \in [Kinds -> ProjectIds \cup {Unscoped, Absent}]
  BY DEF RowsTyped
<1>3. \A i \in Kinds : over'[i] \in Above[i] /\ (scope'[i] = Absent => over'[i] = Alone)
  BY <1>1 DEF RowsTyped
<1> QED BY <1>2, <1>3 DEF RowsTyped

LEMMA ValidatedIsScope ==
  ASSUME NEW above, NEW p \in ProjectIds \cup {Unscoped}
  PROVE  Validated(above, p) \in ProjectIds \cup {Unscoped}
BY DEF Validated

(* What a request fetched says what it goes on to do. *)
LEMMA FetchedFor ==
  ASSUME NEW o \in Fetched
  PROVE  /\ o.op = "patch" => o \in PatchesOf("folder") \cup PatchesOf("source")
         /\ o.op = "edit project" => o \in ProjectEdits
<1>1. Resting.op = "rest"
  BY DEF Resting
<1>2. \A e \in ProjectEdits : e.op = "edit project"
  BY DEF ProjectEdits
<1>3. \A e \in PatchesOf("folder") : e.op = "patch"
  BY DEF PatchesOf
<1>4. \A e \in PatchesOf("source") : e.op = "patch"
  BY DEF PatchesOf
<1>5. o = Resting \/ o \in ProjectEdits \/ o \in PatchesOf("folder") \/ o \in PatchesOf("source")
  BY DEF Fetched
<1> QED BY <1>1, <1>2, <1>3, <1>4, <1>5

LEMMA CommandLeavesTypes ==
  ASSUME ScopingInv, CommandStep
  PROVE  RowsTyped' /\ owner' = owner
<1>1. CASE CommitBackfill
  <2>1. /\ scope' = [k \in Kinds |-> Seen(k)] /\ UNCHANGED <<over, owner>>
        /\ project' = IF command.general \in Reserved
                        THEN [project EXCEPT ![command.general] = [Own EXCEPT !.general = TRUE]] ELSE project
    BY <1>1 DEF CommitBackfill
  <2>2. project' \in [ProjectIds -> ProjectRows]
    BY <2>1, OwnIsRow DEF ScopingInv, RowsTyped, ProjectRows, Reserved
  <2>3. \A k \in Written : command.wrote[k] \in ProjectIds
    BY DEF ScopingInv, BackfillInv, CommandTypes
  <2>4. \A k \in Kinds : scope'[k] = scope[k] \/ scope'[k] \in ProjectIds
    BY <2>1, <2>3 DEF Seen
  <2>5. scope' \in [Kinds -> ProjectIds \cup {Unscoped, Absent}]
    BY <2>1, <2>4 DEF ScopingInv, RowsTyped
  <2>6. \A k \in Kinds : scope'[k] = Absent => scope[k] = Absent
    BY <2>4, ScopedIsNot
  <2> QED BY <2>1, <2>2, <2>5, <2>6 DEF ScopingInv, RowsTyped
<1>2. CASE BeginBackfill \/ BackfillFolders \/ TitleIsTwice \/ ReadRow \/ WriteRow \/ BackfillDies
  <2>1. UNCHANGED <<project, scope, over, owner>>
    BY <1>2 DEF BeginBackfill, BackfillFolders, TitleIsTwice, ReadRow, WriteRow, BackfillDies
  <2> QED BY <2>1 DEF ScopingInv, RowsTyped
<1> QED BY <1>1, <1>2 DEF CommandStep

LEMMA RowRequestTypes ==
  ASSUME ScopingInv, RowRequest
  PROVE  RowsTyped' /\ owner' \in [OwnerRequests -> Fetched]
<1>0. /\ RowsTyped /\ owner \in [OwnerRequests -> Fetched] /\ DOMAIN over = Kinds
      /\ \A k \in Kinds : scope[k] # Absent => scope[k] \in ProjectIds \cup {Unscoped}
  BY DEF ScopingInv, BackfillInv, RowsTyped
<1>1. CASE MaterializeArtifact
  <2>1. /\ scope["job"] # Absent /\ UNCHANGED <<project, owner>>
        /\ scope' = [scope EXCEPT !["artifact"] = scope["job"]] /\ over' = [over EXCEPT !["artifact"] = "job"]
    BY <1>1 DEF MaterializeArtifact
  <2>2. "artifact" \in Kinds /\ "job" \in Kinds /\ "job" \in Above["artifact"]
    BY DEF Kinds, Above
  <2>3. RowsTyped'
    BY <1>0, <2>1, <2>2, ScopeWritten
  <2> QED BY <1>0, <2>1, <2>3
<1>2. ASSUME NEW k \in Kinds, DeleteRow(k) PROVE RowsTyped' /\ owner' = owner
  <2>1. /\ scope' = [scope EXCEPT ![k] = Absent] /\ UNCHANGED <<project, owner>>
        /\ over' = [i \in Kinds |-> IF i = k \/ over[i] = k THEN Alone ELSE over[i]]
    BY <1>2 DEF DeleteRow
  <2>2. \A i \in Kinds : Alone \in Above[i]
    BY DEF Above, Kinds
  <2>3. scope' \in [Kinds -> ProjectIds \cup {Unscoped, Absent}]
    BY <1>0, <2>1 DEF RowsTyped
  <2>4. \A i \in Kinds : over'[i] \in Above[i] /\ (scope'[i] = Absent => over'[i] = Alone)
    BY <1>0, <2>1, <2>2 DEF RowsTyped
  <2> QED BY <1>0, <2>1, <2>3, <2>4 DEF RowsTyped
<1>3. ASSUME NEW k \in Kinds, NEW a \in Kinds \cup {Alone}, NEW p \in ProjectIds, CreateRow(k, a, p)
      PROVE  RowsTyped' /\ owner' = owner
  <2>1. /\ scope' = [scope EXCEPT ![k] = Validated(a, p)] /\ over' = [over EXCEPT ![k] = a]
        /\ a \in Above[k] /\ UNCHANGED <<project, owner>>
    BY <1>3 DEF CreateRow
  <2>2. Validated(a, p) \in ProjectIds \cup {Unscoped}
    BY ValidatedIsScope
  <2> QED BY <1>0, <2>1, <2>2, ScopeWritten
<1>4. ASSUME NEW h \in OwnerRequests, NEW k \in Kinds, NEW p \in ProjectIds \cup {Unscoped}, AskPatchRow(h, k, p)
      PROVE  RowsTyped' /\ owner' \in [OwnerRequests -> Fetched]
  <2>1. PICK a, to : a = over[k] /\ to = Validated(over[k], p)
    OBVIOUS
  <2>2. /\ k \in {"folder", "source"} /\ UNCHANGED <<project, scope, over>>
        /\ owner' = [owner EXCEPT ![h] = [op |-> "patch", kind |-> k, above |-> a, to |-> to]]
    BY <1>4, <2>1 DEF AskPatchRow, Ask
  <2>3. a \in Above[k] /\ to \in ProjectIds \cup {Unscoped}
    BY <1>0, <2>1, ValidatedIsScope DEF RowsTyped
  <2>4. [op |-> "patch", kind |-> k, above |-> a, to |-> to] \in Fetched
    BY <2>2, <2>3 DEF Fetched, PatchesOf
  <2>5. owner' \in [OwnerRequests -> Fetched]
    BY <1>0, <2>2, <2>4
  <2> QED BY <1>0, <2>2, <2>5 DEF RowsTyped
<1>5. ASSUME NEW h \in OwnerRequests, PatchRow(h)
      PROVE  RowsTyped' /\ owner' \in [OwnerRequests -> Fetched]
  <2>1. PICK o : o = owner[h]
    OBVIOUS
  <2>2. PICK a : a = IF o.above # Alone /\ scope[o.above] = Absent THEN Alone ELSE o.above
    OBVIOUS
  <2>3. /\ o.op = "patch" /\ owner' = [owner EXCEPT ![h] = Resting] /\ UNCHANGED project
        /\ scope' = [scope EXCEPT ![o.kind] = o.to] /\ over' = [over EXCEPT ![o.kind] = a]
    BY <1>5, <2>1, <2>2 DEF PatchRow, Answered
  <2>4. o \in PatchesOf("folder") \cup PatchesOf("source")
    <3>1. o \in Fetched
      BY <1>0, <2>1
    <3> QED BY <2>3, <3>1, FetchedFor
  <2>5. o.kind \in Kinds /\ o.above \in Above[o.kind] /\ o.to \in ProjectIds \cup {Unscoped}
    BY <2>4 DEF PatchesOf, Kinds
  <2>6. a \in Above[o.kind]
    BY <2>2, <2>5 DEF Above, Kinds
  <2>7. RowsTyped'
    BY <1>0, <2>3, <2>5, <2>6, ScopeWritten
  <2>8. owner' \in [OwnerRequests -> Fetched]
    BY <1>0, <2>3 DEF Fetched
  <2> QED BY <2>7, <2>8
<1>6. CASE OwnerComesOrGoes
  BY <1>0, <1>6 DEF OwnerComesOrGoes, RowsTyped
<1> QED BY <1>0, <1>1, <1>2, <1>3, <1>4, <1>5, <1>6 DEF RowRequest

LEMMA ProjectRequestTypes ==
  ASSUME ScopingInv, ProjectRequest
  PROVE  RowsTyped' /\ owner' \in [OwnerRequests -> Fetched]
<1>0. RowsTyped /\ owner \in [OwnerRequests -> Fetched]
  BY DEF ScopingInv
<1>1. ASSUME NEW p \in ProjectIds, ChangeProject(p) PROVE RowsTyped' /\ owner' = owner
  <2>1. project[p] \in ProjectRow /\ UNCHANGED <<scope, over, owner>>
    BY <1>0, <1>1, LiveProjectIsRow DEF ChangeProject
  <2>2. PICK row \in ProjectRow : project' = [project EXCEPT ![p] = row]
    <3>1. CASE \E active \in BOOLEAN : project' = [project EXCEPT ![p].active = active]
      <4>1. PICK active \in BOOLEAN : project' = [project EXCEPT ![p] = [project[p] EXCEPT !.active = active]]
        BY <3>1
      <4> QED BY <2>1, <4>1, ProjectEdited
    <3>2. CASE project' = [project EXCEPT ![p].live = FALSE]
      <4>1. project' = [project EXCEPT ![p] = [project[p] EXCEPT !.live = FALSE]]
        BY <3>2
      <4>2. [project[p] EXCEPT !.live = FALSE] \in ProjectRow
        BY <2>1, ProjectEdited
      <4> QED BY <4>1, <4>2
    <3> QED BY <1>1, <3>1, <3>2 DEF ChangeProject
  <2> QED BY <1>0, <2>1, <2>2, ProjectWritten
<1>2. ASSUME NEW p \in ProjectIds, NEW g \in BOOLEAN, CreateProject(p, g) PROVE RowsTyped' /\ owner' = owner
  <2>1. project' = [project EXCEPT ![p] = [Own EXCEPT !.general = g]] /\ UNCHANGED <<scope, over, owner>>
    BY <1>2 DEF CreateProject
  <2> QED BY <1>0, <2>1, OwnIsRow, ProjectWritten
<1>3. ASSUME NEW h \in OwnerRequests, NEW p \in ProjectIds, NEW g \in BOOLEAN, AskPatchProject(h, p, g)
      PROVE  RowsTyped' /\ owner' \in [OwnerRequests -> Fetched]
  <2>1. PICK row : row = [project[p] EXCEPT !.general = g]
    OBVIOUS
  <2>2. /\ project[p].live /\ UNCHANGED <<project, scope, over>>
        /\ owner' = [owner EXCEPT ![h] = [op |-> "edit project", as |-> p, row |-> row]]
    BY <1>3, <2>1 DEF AskPatchProject, Ask
  <2>3. row \in ProjectRow
    BY <1>0, <2>1, <2>2, LiveProjectIsRow, ProjectEdited
  <2>4. [op |-> "edit project", as |-> p, row |-> row] \in Fetched
    BY <2>3 DEF Fetched, ProjectEdits
  <2> QED BY <1>0, <2>2, <2>4 DEF RowsTyped
<1>4. ASSUME NEW h \in OwnerRequests, SaveProject(h)
      PROVE  RowsTyped' /\ owner' \in [OwnerRequests -> Fetched]
  <2>1. PICK o : o = owner[h]
    OBVIOUS
  <2>2. /\ o.op = "edit project" /\ owner' = [owner EXCEPT ![h] = Resting]
        /\ project' = [project EXCEPT ![o.as] = o.row] /\ UNCHANGED <<scope, over>>
    BY <1>4, <2>1 DEF SaveProject, Answered
  <2>3. o \in ProjectEdits
    <3>1. o \in Fetched
      BY <1>0, <2>1
    <3> QED BY <2>2, <3>1, FetchedFor
  <2>4. o.as \in ProjectIds /\ o.row \in ProjectRow
    BY <2>3 DEF ProjectEdits
  <2>5. RowsTyped'
    BY <1>0, <2>2, <2>4, ProjectWritten
  <2>6. owner' \in [OwnerRequests -> Fetched]
    BY <1>0, <2>2 DEF Fetched
  <2> QED BY <2>5, <2>6
<1> QED BY <1>0, <1>1, <1>2, <1>3, <1>4 DEF ProjectRequest

LEMMA ScopingInvInductive == ScopingInv /\ [ProjectsNext]_projectsVars => ScopingInv'
<1> SUFFICES ASSUME ScopingInv, [ProjectsNext]_projectsVars PROVE ScopingInv'
  OBVIOUS
<1>1. BackfillInv'
  BY BackfillInvInductive DEF ScopingInv
<1>2. CASE UNCHANGED projectsVars
  BY <1>1, <1>2 DEF ScopingInv, projectsVars, RowsTyped
<1>3. CASE CommandStep
  BY <1>1, <1>3, CommandLeavesTypes DEF ScopingInv
<1>4. CASE RowRequest \/ ProjectRequest
  BY <1>1, <1>4, RowRequestTypes, ProjectRequestTypes DEF ScopingInv
<1> QED BY <1>2, <1>3, <1>4 DEF ProjectsNext

(* Types of projects, of what they scope and of the command, whatever the  *)
(* owner saves over it.                                                    *)
THEOREM ProjectsTypeCorrect == ProjectsSpec => []ProjectsTypeOK
<1>1. ScopingInv => ProjectsTypeOK
  BY DEF ScopingInv, BackfillInv, RowsTyped, ProjectRows, CommandTypes, Written, ProjectsTypeOK
<1> QED BY <1>1, InitScopingInv, ScopingInvInductive, PTL DEF ProjectsSpec

(* After a run of backfill_project_scoping that no request met, nothing is *)
(* without a project, for any number of projects and requests at a time,   *)
(* until the owner asks for none.                                          *)
THEOREM BackfillScopes == ProjectsSpec => []StaysScoped
<1>1. BackfillInv => StaysScoped
  BY DEF BackfillInv, PassedIsScoped, StaysScoped, Passed, CommandTypes, Running, Seen
<1> QED BY <1>1, InitBackfillInv, BackfillInvInductive, PTL DEF ProjectsSpec

=============================================================================
