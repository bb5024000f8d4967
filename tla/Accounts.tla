------------------------------ MODULE Accounts ------------------------------
(***************************************************************************)
(* Operator accounts: the endpoints under /api/v1/auth (users/), the       *)
(* one-time codes of users/otp.py, the tokens of Simple JWT as             *)
(* config/settings.py sets them up, common/utils/authentication.py, which  *)
(* every other endpoint goes through, and the administrator's change form. *)
(*                                                                         *)
(* A step of a request is one query, one cache call or one computation     *)
(* during which the clock may move (hashing a password takes its time).    *)
(*                                                                         *)
(* Time is counted in parts of a second, PerSecond to the second:          *)
(* token_refresh_date has the parts, the times inside a token have not.    *)
(* Addresses are those validate_email makes of them, in lower case.        *)
(***************************************************************************)
EXTENDS Integers, FiniteSets, Sequences

CONSTANTS
  Emails,           \* addresses
  Ids,              \* primary keys to draw from (their number bounds the accounts)
  Nothing,          \* no row, no code, no form
  Secrets,          \* passwords
  Workers,          \* concurrent requests
  Administrators,   \* open change forms of UserAdmin
  PerSecond,        \* parts of a second that are told apart
  OTPExpiry,        \* OTP_EXPIRY_MINUTES, in parts of a second
  AccessLifetime,   \* ACCESS_TOKEN_LIFETIME and
  RefreshLifetime,  \* REFRESH_TOKEN_LIFETIME, in whole seconds
  MaxNow,           \* bound on the clock, for TLC
  MaxCodes,         \* bound on the codes sent
  MaxTokens,        \* bound on the tokens issued
  MaxForms,         \* bound on the forms opened
  MaxRequests       \* bound on the requests that arrive

ASSUME TimesAssumption ==
  /\ PerSecond \in Nat \ {0} /\ OTPExpiry \in Nat \ {0}
  /\ AccessLifetime \in Nat \ {0} /\ RefreshLifetime \in Nat \ {0}
ASSUME BoundsAssumption ==
  /\ MaxNow \in Nat /\ MaxCodes \in Nat /\ MaxTokens \in Nat
  /\ MaxForms \in Nat /\ MaxRequests \in Nat
ASSUME WorkersAssumption == IsFiniteSet(Workers)

VARIABLES
  now,     \* the clock
  user,    \* user[i]: the row with primary key i
  cache,   \* cache[key]: the one-time code stored under it
  codes,   \* codes[c]: the c-th code sent: what for, and how often it was taken
  tokens,  \* the tokens issued
  req,     \* req[w]: where request w is
  form,    \* form[a]: the row administrator a's form will write
  forms,   \* how many forms were opened
  arrived, \* how many requests arrived
  former   \* former[i]: history: the addresses that forms took from account i

vars == <<now, user, cache, codes, tokens, req, form, forms, arrived, former>>

Purposes == {"registration", "password_reset"}
Times == 0 .. MaxNow
Codes == 1 .. MaxCodes

\* A salted hash: no two calls of set_password give the same, so `made` names it.
Hash == [secret : Secrets, made : Times]

\* The usernames told apart are those that registrations use: addresses.
User == [email : Emails, username : Emails, password : Hash,
         token_refresh_date : Times, is_active : BOOLEAN, is_blocked : BOOLEAN]

Code == [purpose : Purposes, email : Emails, taken : Nat]

\* exp is in seconds.  `issued` and `since` are not in the token: when it was issued,
\* and when the login or verification was that it goes back to.
Token == [token_type : {"access", "refresh"}, user : Ids, exp : Nat,
          issued : Times, since : Times]

ASSUME NothingAssumption == Nothing \notin User /\ Nothing \notin Ids

Exists(i) == user[i] # Nothing

\* Where a request can be: its pc, the account and the address it is about, the password
\* it was sent, the code it found, the hash it made, and the row it has in memory.
Request == [pc : {"idle", "register", "send", "check", "take", "activate", "issue",
                  "hash", "save"},
            user : Ids \cup {Nothing}, email : Emails \cup {Nothing},
            secret : Secrets \cup {Nothing}, purpose : Purposes \cup {Nothing},
            code : 0 .. MaxCodes, hash : Hash \cup {Nothing}, seen : User \cup {Nothing}]

Idle == [pc |-> "idle", user |-> Nothing, email |-> Nothing, secret |-> Nothing,
         purpose |-> Nothing, code |-> 0, hash |-> Nothing, seen |-> Nothing]

Goto(w, r) == req' = [req EXCEPT ![w] = r]

-----------------------------------------------------------------------------
(* The row, the codes and the tokens.                                      *)

Accounts(e) == {i \in Ids : user[i] # Nothing /\ user[i].email = e}

\* The second an instant is in.
Second(t) == t \div PerSecond

\* Mutant of Repassworded: update_fields lacks token_refresh_date.
RepasswordedUndated(r, hash) == [r EXCEPT !.password = hash]

\* What set_password and save(update_fields=...) change in a row.
Repassworded(r, hash) == [r EXCEPT !.password = hash, !.token_refresh_date = hash.made]

\* Mutant of NewUser: the date is left null, as the column allows.
NewUserUndated(e, hash) ==
  [email |-> e, username |-> e, password |-> hash,
   token_refresh_date |-> Nothing, is_active |-> FALSE, is_blocked |-> FALSE]

\* create_user, as RegisterSerializer.create calls it.
NewUser(e, hash) ==
  [email |-> e, username |-> e, password |-> hash,
   token_refresh_date |-> hash.made, is_active |-> FALSE, is_blocked |-> FALSE]

\* _key: registration and password-reset codes never collide.
key(purpose, email) == <<purpose, email>>

\* The cache's TTL.
Live(k) == cache[k] # Nothing /\ now < cache[k].expires

\* generate_otp replaces any prior code.  The text of every code is the same (line 28),
\* so a request cannot tell two codes apart; the model numbers them.
generate_otp(email, purpose) ==
  /\ Len(codes) < MaxCodes
  /\ codes' = Append(codes, [purpose |-> purpose, email |-> email, taken |-> 0])
  /\ cache' = [cache EXCEPT ![key(purpose, email)] =
                 [code |-> Len(codes) + 1, expires |-> now + OTPExpiry]]

\* A token made now.
TokenOf(type, i, since) ==
  [token_type |-> type, user |-> i, issued |-> now, since |-> since,
   exp |-> Second(now) + IF type = "access" THEN AccessLifetime ELSE RefreshLifetime]

Issued(new) ==
  /\ Cardinality(tokens \cup new) <= MaxTokens
  /\ tokens' = tokens \cup new

\* Mutant of Rejected: token_refresh_date cut to seconds, like the token's times.
RejectedBySecond(exp, date) == exp - AccessLifetime < Second(date)

\* issued_at < token_refresh_date.
Rejected(exp, date) == (exp - AccessLifetime) * PerSecond < date

Valid(t) == Second(now) < t.exp

\* CustomJWTAuthentication.authenticate lets the token through.
Accepts(t) ==
  LET u == user[t.user]
  IN  /\ t.token_type = "access" /\ Valid(t)
      /\ u.is_active /\ ~u.is_blocked
      /\ ~Rejected(t.exp, u.token_refresh_date)

-----------------------------------------------------------------------------
(* Registration and one-time codes.                                        *)

\* RegisterSerializer: nobody has the address.
RegisterLooksUp(w, e, s) ==
  /\ req[w].pc = "idle"
  /\ Accounts(e) = {}
  /\ Goto(w, [Idle EXCEPT !.pc = "register", !.email = e, !.secret = s])
  /\ UNCHANGED <<now, user, cache, codes, tokens, form, forms, former>>

\* Mutant of Free: the email column is AbstractUser's, which is not unique.
FreeName(e, n, others) == \A j \in others : user[j] # Nothing => user[j].username # n

\* The unique constraints: none of the others has the address or the username.
Free(e, n, others) ==
  \A j \in others : user[j] # Nothing => user[j].email # e /\ user[j].username # n

\* ... and the account is created, not yet active.
Registers(w) ==
  /\ req[w].pc = "register"
  /\ Free(req[w].email, req[w].email, Ids)
  /\ \E i \in Ids :
       /\ user[i] = Nothing
       /\ user' = [user EXCEPT ![i] =
                     NewUser(req[w].email, [secret |-> req[w].secret, made |-> now])]
       /\ Goto(w, [Idle EXCEPT !.pc = "send", !.user = i, !.email = req[w].email,
                               !.purpose = "registration"])
  /\ UNCHANGED <<now, cache, codes, tokens, form, forms, arrived, former>>

\* IntegrityError: somebody has the address by now, or somebody's username is it.
RegisterRefused(w) ==
  /\ req[w].pc = "register"
  /\ ~Free(req[w].email, req[w].email, Ids)
  /\ Goto(w, Idle)
  /\ UNCHANGED <<now, user, cache, codes, tokens, form, forms, arrived, former>>

\* ResendOTPView finds an unverified account.
ResendFinds(i) == ~user[i].is_active /\ ~user[i].is_blocked

\* ForgotPasswordView finds an active one, blocked or not.
ForgotFinds(i) == user[i].is_active

\* A code is asked for: by one of them, for an account it finds.
CodeAskedFor(w, i, purpose) ==
  /\ req[w].pc = "idle"
  /\ user[i] # Nothing
  /\ IF purpose = "registration" THEN ResendFinds(i) ELSE ForgotFinds(i)
  /\ Goto(w, [Idle EXCEPT !.pc = "send", !.user = i, !.email = user[i].email,
                          !.purpose = purpose])
  /\ UNCHANGED <<now, user, cache, codes, tokens, form, forms, former>>

\* The code is stored and sent.
Sends(w) ==
  /\ req[w].pc = "send"
  /\ generate_otp(req[w].email, req[w].purpose)
  /\ Goto(w, Idle)
  /\ UNCHANGED <<now, user, tokens, form, forms, arrived, former>>

\* VerifyEmailView finds an inactive account, blocked or not.
VerifyReads(w, i) ==
  /\ req[w].pc = "idle"
  /\ user[i] # Nothing /\ ~user[i].is_active
  /\ Goto(w, [Idle EXCEPT !.pc = "check", !.user = i, !.email = user[i].email,
                          !.purpose = "registration", !.seen = user[i]])
  /\ UNCHANGED <<now, user, cache, codes, tokens, form, forms, former>>

\* ResetPasswordView finds an active one.
ResetReads(w, i, s) ==
  /\ req[w].pc = "idle"
  /\ user[i] # Nothing /\ user[i].is_active
  /\ Goto(w, [Idle EXCEPT !.pc = "check", !.user = i, !.email = user[i].email,
                          !.secret = s, !.purpose = "password_reset"])
  /\ UNCHANGED <<now, user, cache, codes, tokens, form, forms, former>>

\* verify_otp: cache.get, and the text is the one the request was sent.
CodeMatches(w) ==
  LET k == key(req[w].purpose, req[w].email)
  IN  /\ req[w].pc = "check"
      /\ Live(k)
      /\ Goto(w, [req[w] EXCEPT !.pc = "take", !.code = cache[k].code])
      /\ UNCHANGED <<now, user, cache, codes, tokens, form, forms, arrived, former>>

\* There is no code, or another one.
CodeRefused(w) ==
  /\ req[w].pc = "check"
  /\ Goto(w, Idle)
  /\ UNCHANGED <<now, user, cache, codes, tokens, form, forms, arrived, former>>

\* After its code, a request saves is_active or makes a new password.
AfterCode(w) ==
  [Idle EXCEPT !.pc = IF req[w].purpose = "registration" THEN "activate" ELSE "hash",
               !.user = req[w].user, !.email = req[w].email, !.secret = req[w].secret,
               !.seen = req[w].seen]

\* Mutant of CodeTaken: the code stays in the cache until it expires.
CodeTakenKept(w) ==
  /\ req[w].pc = "take"
  /\ codes' = [codes EXCEPT ![req[w].code].taken = @ + 1]
  /\ Goto(w, AfterCode(w))
  /\ UNCHANGED <<now, user, cache, tokens, form, forms, arrived, former>>

\* verify_otp: cache.delete of whatever is stored by now, and True.
CodeTaken(w) ==
  /\ req[w].pc = "take"
  /\ cache' = [cache EXCEPT ![key(req[w].purpose, req[w].email)] = Nothing]
  /\ codes' = [codes EXCEPT ![req[w].code].taken = @ + 1]
  /\ Goto(w, AfterCode(w))
  /\ UNCHANGED <<now, user, tokens, form, forms, arrived, former>>

\* Mutant of Activates: save() without update_fields writes the row as it was read.
ActivatesRow(w) ==
  /\ req[w].pc = "activate"
  /\ user' = [user EXCEPT ![req[w].user] = [req[w].seen EXCEPT !.is_active = TRUE]]
  /\ Goto(w, [Idle EXCEPT !.pc = "issue", !.user = req[w].user])
  /\ UNCHANGED <<now, cache, codes, tokens, form, forms, arrived, former>>

\* Mutant of Activates: filter(email=email).update(is_active=True) in place of the save.
ActivatesByAddress(w) ==
  /\ req[w].pc = "activate"
  /\ user' = [i \in Ids |-> IF i \in Accounts(req[w].email)
                            THEN [user[i] EXCEPT !.is_active = TRUE] ELSE user[i]]
  /\ Goto(w, [Idle EXCEPT !.pc = "issue", !.user = req[w].user])
  /\ UNCHANGED <<now, cache, codes, tokens, form, forms, arrived, former>>

\* VerifyEmailView: save(update_fields=["is_active"]).
Activates(w) ==
  /\ req[w].pc = "activate"
  /\ user' = [user EXCEPT ![req[w].user].is_active = TRUE]
  /\ Goto(w, [Idle EXCEPT !.pc = "issue", !.user = req[w].user])
  /\ UNCHANGED <<now, cache, codes, tokens, form, forms, arrived, former>>

-----------------------------------------------------------------------------
(* Tokens and passwords.                                                   *)

\* LoginSerializer: the row is read, the password is checked against it.
LoginReads(w, i, s) ==
  /\ req[w].pc = "idle"
  /\ user[i] # Nothing
  /\ user[i].password.secret = s
  /\ user[i].is_active /\ ~user[i].is_blocked
  /\ Goto(w, [Idle EXCEPT !.pc = "issue", !.user = i])
  /\ UNCHANGED <<now, user, cache, codes, tokens, form, forms, former>>

\* RefreshToken.for_user, and its access token, after a login or a verification.
Issues(w) ==
  /\ req[w].pc = "issue"
  /\ Issued({TokenOf("access", req[w].user, now), TokenOf("refresh", req[w].user, now)})
  /\ Goto(w, Idle)
  /\ UNCHANGED <<now, user, cache, codes, form, forms, arrived, former>>

\* CustomTokenRefreshSerializer: another access token; no new refresh token.
Refreshes(t) ==
  /\ t \in tokens /\ t.token_type = "refresh" /\ Valid(t)
  /\ user[t.user].is_active /\ ~user[t.user].is_blocked
  /\ Issued({TokenOf("access", t.user, t.since)})
  /\ UNCHANGED <<now, user, cache, codes, req, form, forms, arrived, former>>

\* ChangePasswordView: request.user is read, and old_password is checked against it.
ChangeReads(w, t, old, new) ==
  /\ req[w].pc = "idle"
  /\ t \in tokens /\ Accepts(t)
  /\ user[t.user].password.secret = old
  /\ Goto(w, [Idle EXCEPT !.pc = "hash", !.user = t.user, !.secret = new])
  /\ UNCHANGED <<now, user, cache, codes, tokens, form, forms, former>>

\* set_password: the hash and the date, in memory.
Hashes(w) ==
  /\ req[w].pc = "hash"
  /\ Goto(w, [req[w] EXCEPT !.pc = "save",
                            !.hash = [secret |-> req[w].secret, made |-> now]])
  /\ UNCHANGED <<now, user, cache, codes, tokens, form, forms, arrived, former>>

\* save(update_fields=["password", "token_refresh_date"]).
Saves(w) ==
  /\ req[w].pc = "save"
  /\ user' = [user EXCEPT ![req[w].user] = Repassworded(@, req[w].hash)]
  /\ Goto(w, Idle)
  /\ UNCHANGED <<now, cache, codes, tokens, form, forms, arrived, former>>

\* The request ends without its next step.
Crash(w) ==
  /\ req[w].pc # "idle"
  /\ Goto(w, Idle)
  /\ UNCHANGED <<now, user, cache, codes, tokens, form, forms, arrived, former>>

-----------------------------------------------------------------------------
(* The administrator, the cache and the clock.                             *)

\* UserAdmin: the form is submitted and the row is read; the address, the username and the
\* flags are those of the form (BaseUserAdmin.fieldsets), the password and its date those
\* of the row (UserChangeForm, readonly_fields).
FormReads(a, i) ==
  /\ form[a] = Nothing
  /\ forms < MaxForms
  /\ user[i] # Nothing
  /\ \E e, n \in Emails, active, blocked \in BOOLEAN :
       form' = [form EXCEPT ![a] =
                  [user |-> i,
                   row |-> [user[i] EXCEPT !.email = e, !.username = n,
                                           !.is_active = active, !.is_blocked = blocked]]]
  /\ forms' = forms + 1
  /\ UNCHANGED <<now, user, cache, codes, tokens, req, arrived, former>>

\* What the form will write meets the unique constraints.
FormFits(a) == Free(form[a].row.email, form[a].row.username, Ids \ {form[a].user})

\* save(): an UPDATE of every column.
FormSaves(a) ==
  /\ form[a] # Nothing
  /\ FormFits(a)
  /\ LET i == form[a].user
     IN  /\ user' = [user EXCEPT ![i] = form[a].row]
         /\ former' = [former EXCEPT ![i] = @ \cup ({user[i].email} \ {form[a].row.email})]
  /\ form' = [form EXCEPT ![a] = Nothing]
  /\ UNCHANGED <<now, cache, codes, tokens, req, forms, arrived>>

\* The address or the username is another account's.
FormRefused(a) ==
  /\ form[a] # Nothing
  /\ ~FormFits(a)
  /\ form' = [form EXCEPT ![a] = Nothing]
  /\ UNCHANGED <<now, user, cache, codes, tokens, req, forms, arrived, former>>

\* The in-process cache does not survive a restart.
CacheLost ==
  /\ \E k \in DOMAIN cache : cache[k] # Nothing
  /\ cache' = [k \in DOMAIN cache |-> Nothing]
  /\ UNCHANGED <<now, user, codes, tokens, req, form, forms, arrived, former>>

Tick ==
  /\ now < MaxNow
  /\ now' = now + 1
  /\ UNCHANGED <<user, cache, codes, tokens, req, form, forms, arrived, former>>

Init ==
  /\ now = 0
  /\ user = [i \in Ids |-> Nothing]
  /\ cache = [k \in Purposes \X Emails |-> Nothing]
  /\ codes = <<>>
  /\ tokens = {}
  /\ req = [w \in Workers |-> Idle]
  /\ form = [a \in Administrators |-> Nothing]
  /\ forms = 0
  /\ arrived = 0
  /\ former = [i \in Ids |-> {}]

\* A request arrives.
Arrive(w) ==
  /\ arrived < MaxRequests
  /\ arrived' = arrived + 1
  /\ \/ \E e \in Emails, s \in Secrets : RegisterLooksUp(w, e, s)
     \/ \E i \in Ids :
          \/ \E purpose \in Purposes : CodeAskedFor(w, i, purpose)
          \/ VerifyReads(w, i)
          \/ \E s \in Secrets : ResetReads(w, i, s) \/ LoginReads(w, i, s)
     \/ \E t \in tokens, old, new \in Secrets : ChangeReads(w, t, old, new)

\* A request under way takes its next step.
Continue(w) ==
  \/ Registers(w) \/ RegisterRefused(w) \/ Sends(w)
  \/ CodeMatches(w) \/ CodeRefused(w) \/ CodeTaken(w) \/ Activates(w)
  \/ Issues(w) \/ Hashes(w) \/ Saves(w)

Next ==
  \/ \E w \in Workers : Arrive(w) \/ Continue(w) \/ Crash(w)
  \/ \E t \in tokens : Refreshes(t)
  \/ \E a \in Administrators :
       \/ \E i \in Ids : FormReads(a, i)
       \/ FormSaves(a) \/ FormRefused(a)
  \/ CacheLost
  \/ Tick

Spec == Init /\ [][Next]_vars

-----------------------------------------------------------------------------
(* Properties.                                                             *)

\* Every variable has its type.
TypeOK ==
  /\ now \in Times
  /\ user \in [Ids -> User \cup {Nothing}]
  /\ cache \in [Purposes \X Emails -> [code : Codes, expires : Nat] \cup {Nothing}]
  /\ codes \in Seq(Code) /\ Len(codes) <= MaxCodes
  /\ tokens \subseteq Token
  /\ req \in [Workers -> Request]
  /\ form \in [Administrators -> [user : Ids, row : User] \cup {Nothing}]
  /\ forms \in 0 .. MaxForms
  /\ arrived \in 0 .. MaxRequests
  /\ former \in [Ids -> SUBSET Emails]

\* Two registrations of one address that both found it free make one account, and a form
\* gives no account the address of another (RegisterSerializer, UserAdmin, the unique
\* email).
OneUserPerEmail == \A e \in Emails : Cardinality(Accounts(e)) <= 1

\* The requests that have found code c in the cache and not deleted it yet.
Holding(c) == {w \in Workers : req[w].pc = "take" /\ req[w].code = c}

\* get and delete are two calls, so a code can be good for more than one request: for
\* those that read it before the first of them deleted it, and for no later one; and
\* only for what it was sent for (verify_otp).
CodesAreSpentTogether ==
  \A c \in DOMAIN codes :
    /\ codes[c].taken + Cardinality(Holding(c)) <= Cardinality(Workers)
    /\ \A w \in Holding(c) :
         codes[c].purpose = req[w].purpose /\ codes[c].email = req[w].email

\* An administrator's form for account i is saved by this step.
FormSaved(i) ==
  \E a \in Administrators :
    form[a] # Nothing /\ form[a].user = i /\ form'[a] = Nothing /\ user'[i] = form[a].row

\* Request w shows that account i is its owner's: it took a registration code that was
\* sent to the account's address, or to one that a form has taken from it since.
Verifies(w, i) ==
  /\ req[w].pc = "activate" /\ req[w].user = i
  /\ req[w].email \in former[i] \cup {user[i].email}
  /\ \E c \in DOMAIN codes : /\ codes[c].purpose = "registration"
                             /\ codes[c].email = req[w].email
                             /\ codes[c].taken > 0

\* An account becomes active only by a request that verified its address, or because an
\* administrator's form for it says so (VerifyEmailView, create_user, UserAdmin).
NobodyActiveUnverified ==
  [][\A i \in Ids :
       /\ user'[i] # Nothing /\ user'[i].is_active
       /\ user[i] = Nothing \/ ~user[i].is_active
       => FormSaved(i) \/ \E w \in Workers : Verifies(w, i)]_vars

\* The date the tokens are compared with is that of the password beside it, whoever
\* saves the row, in whole or in part (set_password, update_fields, UserAdmin).
PasswordAndDateTogether ==
  \A i \in Ids : user[i] # Nothing => user[i].token_refresh_date = user[i].password.made

\* A token issued before the password was set is refused; one issued after it is
\* accepted, unless it was issued within the same second (authenticate: the token's
\* times have whole seconds, token_refresh_date has not).
RefusalIsExplained ==
  \A t \in tokens :
    LET u == user[t.user]
    IN  t.token_type = "access" /\ Valid(t) /\ u.is_active /\ ~u.is_blocked =>
          /\ t.issued < u.password.made => ~Accepts(t)
          /\ ~Accepts(t) => \/ t.issued < u.password.made
                            \/ Second(t.issued) = Second(u.password.made)

\* What an administrator blocked stays blocked until an administrator's form says
\* otherwise: no request writes the flag back that it read before (VerifyEmailView,
\* ChangePasswordView, ResetPasswordView).
NoBlockIsLost ==
  [][\A i \in Ids :
       user[i] # Nothing /\ user[i].is_blocked /\ ~user'[i].is_blocked => FormSaved(i)]_vars

\* common/utils/authentication.py: "changing a password instantly invalidates all
\* outstanding tokens".
PasswordChangeEndsSessions ==
  \A t \in tokens : Accepts(t) => t.since >= user[t.user].token_refresh_date

=============================================================================
