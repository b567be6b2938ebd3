------------------------------- MODULE Account ------------------------------
(***************************************************************************)
(* One account from registration to deletion (apps/users/services.py,      *)
(* views.py, serializers.py, models.py), with what administrators do to it *)
(* (apps/admin_dashboard/views.py, and restore and delete of the Django    *)
(* admin).                                                                 *)
(*                                                                         *)
(* Each handler reads the user row when the request is authenticated or    *)
(* looked up, and writes later, without a lock: a few columns              *)
(* (update_fields), or, for a profile or an administrator's edit, the      *)
(* whole row as it was read.  Accounts share nothing but the uniqueness of *)
(* their address, so one stands for all.  Passwords and codes are numbered *)
(* in the order they are made; code 0 is a guess that matches none.        *)
(***************************************************************************)
EXTENDS Integers, FiniteSets

CONSTANTS
  UserRequests,    \* handlers at a time
  OTP_MAX_ATTEMPTS,
  Tokens,          \* refresh tokens at a time
  MaxCodes, MaxPasswords   \* bounds of the exploration

ASSUME AccountAssumption ==
  /\ {OTP_MAX_ATTEMPTS, MaxCodes, MaxPasswords} \subseteq Nat \ {0}
  /\ UserRequests # {}

VARIABLES
  account,   \* the User row
  otp,       \* its EmailOTP rows, in the order of their creation
  cooling,   \* the newest code is younger than the resend cooldown
  links,     \* password versions for which a reset link was mailed
  token,     \* its refresh tokens that are not blacklisted; a "stray" one is of
             \* a handler that was late
  caller,    \* what each handler read and does next
  resigned,  \* history: the owner deleted the account, and it is still so
  late,      \* history: handlers at work since before the owner deleted it
  tries,     \* history: the wrong guesses at each code
  contested  \* history: the codes at which two wrong guesses were made at once

accountVars == <<account, otp, cooling, links, token, caller, resigned, late, tries, contested>>

NoAccount == [live |-> FALSE, active |-> FALSE, verified |-> FALSE, named |-> FALSE, password |-> 0]
Rest      == [op |-> "rest"]
Codes     == 1 .. MaxCodes

AccountRow == [live: BOOLEAN, active: BOOLEAN, verified: BOOLEAN, named: BOOLEAN,
               password: 0 .. MaxPasswords]
OtpRow     == [made: BOOLEAN, attempts: 0 .. OTP_MAX_ATTEMPTS, expired: BOOLEAN, consumed: BOOLEAN]
CallerOps  == {"issue", "guess", "token", "refresh", "rotate", "leave", "remove",
               "password", "profile", "managed", "suspend", "activate"}

AccountTypeOK ==
  /\ account \in AccountRow
  /\ otp \in [Codes -> OtpRow]
  /\ cooling \in BOOLEAN
  /\ links \subseteq 1 .. MaxPasswords
  /\ token \in [Tokens -> {"none", "live", "stray"}]
  /\ \A r \in UserRequests : caller[r] = Rest \/ caller[r].op \in CallerOps
  /\ resigned \in BOOLEAN /\ late \subseteq UserRequests
  /\ tries \in [Codes -> Nat] /\ contested \subseteq Codes

NoOtp == [made |-> FALSE, attempts |-> 0, expired |-> FALSE, consumed |-> FALSE]

AccountInit ==
  /\ account = NoAccount
  /\ otp = [c \in Codes |-> NoOtp]
  /\ cooling = FALSE
  /\ links = {}
  /\ token = [t \in Tokens |-> "none"]
  /\ caller = [r \in UserRequests |-> Rest]
  /\ resigned = FALSE /\ late = {}
  /\ tries = [c \in Codes |-> 0] /\ contested = {}

----------------------------------------------------------------------------
(* Handlers *)

Exists  == account.password # 0
Calling == {r \in UserRequests : caller[r] # Rest}

(* JWTAuthentication.get_user, and the lookups by address: User.objects   *)
(* hides a deleted row, and the user must be active.                      *)
CanCall == Exists /\ account.live /\ account.active

Doing(op)     == [op |-> op]
Read(op)      == [op |-> op, seen |-> account]   \* keeps the row it read
Call(r, h)    == caller[r] = Rest /\ caller' = [caller EXCEPT ![r] = h] /\ UNCHANGED late
Answer(r)     == caller' = [caller EXCEPT ![r] = Rest] /\ late' = late \ {r}
Holding(r, o) == caller[r] # Rest /\ caller[r].op = o

guesses     == <<tries, contested>>
rowsOfCodes == <<otp, cooling, guesses>>
rowsOfKeys  == <<links, token, resigned>>
callers     == <<caller, late>>

(* latest_pending_otp *)
Pending == {c \in Codes : otp[c].made /\ ~ otp[c].consumed}
Latest  == CHOOSE c \in Pending : \A d \in Pending : d <= c

(* RegisterSerializer.create: the row is committed before its code. *)
Register(r) ==
  /\ ~ Exists
  /\ account' = [live |-> TRUE, active |-> TRUE, verified |-> FALSE, named |-> TRUE, password |-> 1]
  /\ Call(r, Doing("issue"))
  /\ UNCHANGED <<rowsOfCodes, rowsOfKeys>>

(* ResendEmailOTPView: silent for an account that needs no code; refused  *)
(* while resend_cooldown_remaining_seconds is positive.                   *)
Resend(r) ==
  /\ CanCall /\ ~ account.verified
  /\ Pending # {} => ~ cooling
  /\ Call(r, Doing("issue"))
  /\ UNCHANGED <<account, rowsOfCodes, rowsOfKeys>>

(* issue_email_otp, and the message that will mail the code. *)
IssueCode(r) ==
  /\ Holding(r, "issue")
  /\ \E c \in Codes :
       /\ ~ otp[c].made /\ \A d \in 1 .. c - 1 : otp[d].made
       /\ otp' = [otp EXCEPT ![c].made = TRUE]
  /\ cooling' = TRUE
  /\ Answer(r)
  /\ UNCHANGED <<account, guesses, rowsOfKeys>>

(* Time passes: the cooldown ends, and later the code expires. *)
Cool == cooling /\ cooling' = FALSE
        /\ UNCHANGED <<account, otp, callers, guesses, rowsOfKeys>>
Expire(c) ==
  /\ otp[c].made /\ ~ otp[c].expired /\ ~ otp[c].consumed /\ ~ cooling
  /\ otp' = [otp EXCEPT ![c].expired = TRUE]
  /\ UNCHANGED <<account, cooling, callers, guesses, rowsOfKeys>>

----------------------------------------------------------------------------
(* Verification *)

(* The guess is compared with the code of the row that was read. *)
GuessAgainst(r, guess, c) ==
  Call(r, [op |-> "guess", code |-> c, right |-> guess = c, attempts |-> otp[c].attempts])

Wrong(c) == {r \in UserRequests : Holding(r, "guess") /\ ~ caller[r].right /\ caller[r].code = c}

(* VerifyEmailOTPView and verify_email_otp up to the comparison: the code *)
(* checked is the newest pending one, and must be alive.  An account that *)
(* is verified already is logged in.                                      *)
Guess(r, guess) ==
  /\ caller[r] = Rest /\ CanCall
  /\ guess \in {0} \cup {c \in Codes : otp[c].made}
  /\ IF account.verified
       THEN Call(r, Doing("token")) /\ UNCHANGED guesses
       ELSE /\ Pending # {}
            /\ otp[Latest].attempts < OTP_MAX_ATTEMPTS /\ ~ otp[Latest].expired
            /\ GuessAgainst(r, guess, Latest)
            /\ contested' = contested \cup {c \in {Latest} : guess # c /\ Wrong(c) # {}}
            /\ UNCHANGED tries
  /\ UNCHANGED <<account, otp, cooling, rowsOfKeys>>

(* Mutant: the newest code is looked up again, to count the guess. *)
WrongGuessAtLatest(r) ==
  LET h == caller[r] IN
  /\ Holding(r, "guess") /\ ~ h.right /\ Pending # {}
  /\ otp' = [otp EXCEPT ![Latest].attempts = h.attempts + 1]
  /\ tries' = [tries EXCEPT ![h.code] = @ + 1]
  /\ Answer(r)
  /\ UNCHANGED <<account, cooling, contested, rowsOfKeys>>

(* verify_email_otp with a wrong code: attempts is what was read, plus one. *)
WrongGuess(r) ==
  LET h == caller[r] IN
  /\ Holding(r, "guess") /\ ~ h.right
  /\ otp' = [otp EXCEPT ![h.code].attempts = h.attempts + 1]
  /\ tries' = [tries EXCEPT ![h.code] = @ + 1]
  /\ Answer(r)
  /\ UNCHANGED <<account, cooling, contested, rowsOfKeys>>

(* With the right code: the code is consumed and the user verified in one *)
(* transaction.                                                           *)
RightGuess(r) ==
  LET h == caller[r] IN
  /\ Holding(r, "guess") /\ h.right
  /\ otp' = [otp EXCEPT ![h.code].consumed = TRUE]
  /\ account' = [account EXCEPT !.verified = TRUE]
  /\ caller' = [caller EXCEPT ![r] = Doing("token")]
  /\ UNCHANGED <<cooling, late, guesses, rowsOfKeys>>

----------------------------------------------------------------------------
(* Tokens *)

(* CustomTokenObtainPairSerializer.validate: an unverified user is refused. *)
Login(r) ==
  /\ CanCall /\ account.verified
  /\ Call(r, Doing("token"))
  /\ UNCHANGED <<account, rowsOfCodes, rowsOfKeys>>

(* A token that a handler is about to blacklist is not a new one. *)
Unused(t) == token[t] = "none" /\ \A r \in UserRequests : Holding(r, "refresh") => caller[r].token # t

(* get_token, and the record of a rotated token. *)
GiveToken(r) ==
  /\ Holding(r, "token") \/ Holding(r, "rotate")
  /\ \E t \in Tokens : Unused(t) /\ token' = [token EXCEPT ![t] = IF r \in late THEN "stray" ELSE "live"]
  /\ Answer(r)
  /\ UNCHANGED <<account, rowsOfCodes, links, resigned>>

(* TokenRefreshView with rotation: the token must not be blacklisted, and *)
(* the user found and active ...                                          *)
Refresh(r, t) ==
  /\ CanCall /\ token[t] # "none"
  /\ Call(r, [op |-> "refresh", token |-> t])
  /\ UNCHANGED <<account, rowsOfCodes, rowsOfKeys>>

(* ... then the old token is blacklisted, and a new one recorded, in      *)
(* transactions of their own (GiveToken).                                 *)
Rotate(r) ==
  /\ Holding(r, "refresh")
  /\ token' = [token EXCEPT ![caller[r].token] = "none"]
  /\ caller' = [caller EXCEPT ![r] = Doing("rotate")]
  /\ UNCHANGED <<account, rowsOfCodes, links, resigned, late>>

(* LogoutView *)
Logout(t) ==
  /\ CanCall /\ token[t] # "none"
  /\ token' = [token EXCEPT ![t] = "none"]
  /\ UNCHANGED <<account, rowsOfCodes, links, resigned, callers>>

----------------------------------------------------------------------------
(* Deletion *)

(* UserMeView.delete, once the caller is authenticated. *)
Leave(r) == CanCall /\ Call(r, Doing("leave")) /\ UNCHANGED <<account, rowsOfCodes, rowsOfKeys>>

Anonymized == [account EXCEPT !.live = FALSE, !.active = FALSE, !.named = FALSE]

LeavingOthersLate(r) ==
  /\ Holding(r, "leave")
  /\ caller' = [caller EXCEPT ![r] = Rest]
  /\ resigned' = TRUE /\ late' = Calling \ {r}

(* Mutant: the tokens are left as they are. *)
DeleteKeepingTokens(r) ==
  /\ LeavingOthersLate(r) /\ account' = Anonymized
  /\ UNCHANGED <<rowsOfCodes, links, token>>

(* delete_user_account with _revoke_all_tokens, in one transaction. *)
DeleteMe(r) ==
  /\ LeavingOthersLate(r) /\ account' = Anonymized
  /\ token' = [t \in Tokens |-> "none"]
  /\ UNCHANGED <<rowsOfCodes, links>>

(* AdminUserViewSet.destroy, or a delete of the Django admin: the account  *)
(* of an administrator, or anyone's.  No token is revoked.                 *)
DeleteUser(r) ==
  /\ Holding(r, "remove")
  /\ account' = [account EXCEPT !.live = FALSE]
  /\ Answer(r)
  /\ UNCHANGED <<rowsOfCodes, rowsOfKeys>>

----------------------------------------------------------------------------
(* Passwords *)

(* PasswordResetRequestView: the link is bound to the current password. *)
AskReset ==
  /\ CanCall /\ links' = links \cup {account.password}
  /\ UNCHANGED <<account, rowsOfCodes, token, resigned, callers>>

(* ChangePasswordView *)
AskPassword(r) == CanCall /\ Call(r, Read("password")) /\ UNCHANGED <<account, rowsOfCodes, rowsOfKeys>>

(* PasswordResetConfirmView, with a link that check_token still accepts;  *)
(* the account is looked up by its id.                                    *)
ConfirmReset(r) ==
  /\ CanCall /\ account.password \in links
  /\ Call(r, Read("password"))
  /\ UNCHANGED <<account, rowsOfCodes, rowsOfKeys>>

(* Mutant: the whole row is saved with the password. *)
SaveUserWithPassword(r) ==
  /\ Holding(r, "password") /\ account.password < MaxPasswords
  /\ account' = [caller[r].seen EXCEPT !.password = account.password + 1]
  /\ Answer(r)
  /\ UNCHANGED <<rowsOfCodes, rowsOfKeys>>

(* set_password and save(update_fields=password). *)
SavePassword(r) ==
  /\ Holding(r, "password") /\ account.password < MaxPasswords
  /\ account' = [account EXCEPT !.password = @ + 1]
  /\ Answer(r)
  /\ UNCHANGED <<rowsOfCodes, rowsOfKeys>>

----------------------------------------------------------------------------
(* Profile and administration *)

(* UserMeView.get_object *)
EditProfile(r) == CanCall /\ Call(r, Read("profile")) /\ UNCHANGED <<account, rowsOfCodes, rowsOfKeys>>

(* UserSerializer.update: every column of the row that was read. *)
SaveProfile(r) ==
  /\ Holding(r, "profile")
  /\ account' = caller[r].seen /\ resigned' = FALSE
  /\ Answer(r)
  /\ UNCHANGED <<rowsOfCodes, links, token>>

(* get_queryset of both viewsets: an account that is not deleted. *)
Manage(r, op) ==
  /\ Exists /\ account.live
  /\ Call(r, IF op = "managed" THEN Read(op) ELSE Doing(op)) /\ UNCHANGED <<account, rowsOfCodes, rowsOfKeys>>

(* ManagedUserViewSet.partial_update: the whole row, is_active included. *)
SaveManaged(r, active) ==
  /\ Holding(r, "managed")
  /\ account' = [caller[r].seen EXCEPT !.active = active] /\ resigned' = FALSE
  /\ Answer(r)
  /\ UNCHANGED <<rowsOfCodes, links, token>>

(* suspend and activate: is_active alone. *)
SetActive(r) ==
  /\ Holding(r, "suspend") \/ Holding(r, "activate")
  /\ account' = [account EXCEPT !.active = caller[r].op = "activate"]
  /\ Answer(r)
  /\ UNCHANGED <<rowsOfCodes, rowsOfKeys>>

(* restore_selected_users of the Django admin. *)
Restore ==
  /\ Exists /\ ~ account.live
  /\ account' = [account EXCEPT !.live = TRUE] /\ resigned' = FALSE
  /\ UNCHANGED <<rowsOfCodes, links, token, callers>>

(* Registration and first login, the profile and the deletion. *)
JoinStep ==
  \/ \E r \in UserRequests :
       \/ Register(r) \/ IssueCode(r) \/ Guess(r, 1) \/ RightGuess(r) \/ GiveToken(r)
       \/ EditProfile(r) \/ SaveProfile(r) \/ Leave(r) \/ DeleteMe(r)

(* More codes, wrong and late guesses. *)
CodeStep ==
  \/ \E r \in UserRequests :
       \/ Resend(r) \/ WrongGuess(r)
       \/ \E guess \in {0} \cup (Codes \ {1}) : Guess(r, guess)
  \/ \E c \in Codes : Expire(c)
  \/ Cool

(* Passwords, tokens and administration. *)
KeyStep ==
  \/ \E r \in UserRequests :
       \/ Login(r)
       \/ AskPassword(r) \/ ConfirmReset(r) \/ SavePassword(r)
       \/ \E op \in {"managed", "suspend", "activate", "remove"} : Manage(r, op)
       \/ \E active \in BOOLEAN : SaveManaged(r, active)
       \/ SetActive(r) \/ DeleteUser(r) \/ Rotate(r)
       \/ \E t \in Tokens : Refresh(r, t)
  \/ \E t \in Tokens : Logout(t)
  \/ AskReset \/ Restore

AccountNext == JoinStep \/ CodeStep \/ KeyStep

AccountSpec == AccountInit /\ [][AccountNext]_accountVars

----------------------------------------------------------------------------
(* Properties *)

(* What a handler decided on a row it had read undoes a deletion or brings *)
(* an old password back only where the whole row is saved: an edit of the  *)
(* profile, or an administrator's, that read the row before.               *)
UndoneByStaleEditOnly ==
  [][(account.password > account'.password \/ (~ account.named /\ account'.named /\ Exists))
     => \E r \in UserRequests :
          /\ Holding(r, "profile") \/ Holding(r, "managed")
          /\ caller'[r] = Rest
          /\ caller[r].seen.password < account.password \/ ~ account.named]_accountVars

(* As long as an account is deleted by its owner, whatever is done to it,  *)
(* it has no refresh token but of handlers that had read the user before:  *)
(* a login, or a refresh, that was under way (services.py:                 *)
(* _revoke_all_tokens).  A deletion by an administrator revokes none.      *)
DeletedIsLockedOut == resigned => \A t \in Tokens : token[t] # "live"

(* No wrong guess is counted against a code that it was not made at, so    *)
(* that no code is given up (verify_email_otp) before OTP_MAX_ATTEMPTS of  *)
(* them; and none is lost, so that no more are answered, but where two     *)
(* were made at once.                                                      *)
GuessesAreCounted ==
  \A c \in Codes :
    /\ otp[c].attempts <= tries[c]
    /\ c \notin contested => otp[c].attempts = tries[c] /\ tries[c] <= OTP_MAX_ATTEMPTS

=============================================================================
