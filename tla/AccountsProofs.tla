--------------------------- MODULE AccountsProofs ---------------------------
(***************************************************************************)
(* Proofs about Accounts: types and references, one account per address,   *)
(* the password and the date beside it, one-time codes, and what makes an  *)
(* account active or unblocks it.                                          *)
(***************************************************************************)
EXTENDS Accounts, FiniteSetTheorems, TLAPS

\* A request under way holds what its next step needs, in a state where user is u and
\* codes is cs.
Holds(q, u, cs) ==
  /\ q.pc = "register" => q.email \in Emails /\ q.secret \in Secrets
  /\ q.pc \in {"send", "check", "take"} => q.email \in Emails /\ q.purpose \in Purposes
  /\ q.pc \in {"check", "take"} /\ q.purpose # "registration" => q.secret \in Secrets
  /\ q.pc = "take" => q.code \in DOMAIN cs
  /\ q.pc \in {"check", "take", "activate", "issue", "hash", "save"} =>
       q.user \in Ids /\ u[q.user] # Nothing
  /\ q.pc = "hash" => q.secret \in Secrets
  /\ q.pc = "save" => q.hash \in Hash

\* Requests, the cache, forms and tokens refer to codes and rows that are there.
Refers ==
  /\ \A w \in Workers : Holds(req[w], user, codes)
  /\ \A k \in Purposes \X Emails : cache[k] # Nothing => cache[k].code \in DOMAIN codes
  /\ \A a \in Administrators : form[a] # Nothing => Exists(form[a].user)
  /\ \A t \in tokens : Exists(t.user)

IInv == TypeOK /\ Refers

-----------------------------------------------------------------------------
(* Types and references.                                                   *)

\* An instant lies in a second.
LEMMA SecondTyped == ASSUME NEW t \in Nat PROVE Second(t) \in Nat
  BY TimesAssumption DEF Second

\* A new row is a row.
LEMMA NewUserTyped ==
  ASSUME NEW e \in Emails, NEW h \in Hash
  PROVE  NewUser(e, h) \in User /\ NewUser(e, h) # Nothing
<1>1. h.made \in Times
  BY DEF Hash
<1>2. NewUser(e, h) \in User
  BY <1>1 DEF NewUser, User
<1> QED
  BY <1>2, NothingAssumption

\* So is one with another password.
LEMMA RepasswordedTyped ==
  ASSUME NEW u \in User, NEW h \in Hash
  PROVE  Repassworded(u, h) \in User
<1>1. h.made \in Times
  BY DEF Hash
<1> QED
  BY <1>1 DEF Repassworded, User

\* A token made for an account is a token, and for that account.
LEMMA TokenTyped ==
  ASSUME TypeOK, NEW i \in Ids, NEW since \in Times, NEW type \in {"access", "refresh"}
  PROVE  TokenOf(type, i, since) \in Token /\ TokenOf(type, i, since).user = i
<1>1. now \in Nat /\ now \in Times
  BY BoundsAssumption DEF TypeOK, Times
<1>2. Second(now) + AccessLifetime \in Nat /\ Second(now) + RefreshLifetime \in Nat
  BY <1>1, SecondTyped, TimesAssumption
<1> QED
  BY <1>1, <1>2 DEF TokenOf, Token

\* It goes on holding it while accounts and codes are only added.
LEMMA HoldsOn ==
  ASSUME NEW q, NEW u, NEW v, NEW cs, NEW ds, Holds(q, u, cs),
         \A i \in Ids : u[i] # Nothing => v[i] # Nothing, DOMAIN cs \subseteq DOMAIN ds
  PROVE  Holds(q, v, ds)
  BY DEF Holds

\* The idle request.
LEMMA IdleTyped == Idle \in Request /\ \A u, cs : Holds(Idle, u, cs)
  BY BoundsAssumption DEF Idle, Request, Holds

\* A step that moves one request, and otherwise only adds accounts and codes.
LEMMA RequestsKeep ==
  ASSUME IInv, NEW w \in Workers, NEW r \in Request, Goto(w, r), Holds(r, user', codes'),
         \A i \in Ids : user[i] # Nothing => user'[i] # Nothing,
         DOMAIN codes \subseteq DOMAIN codes'
  PROVE  /\ req' \in [Workers -> Request]
         /\ \A v \in Workers : Holds(req'[v], user', codes')
<1>1. req' \in [Workers -> Request]
  BY DEF IInv, TypeOK, Goto
<1>2. ASSUME NEW v \in Workers PROVE Holds(req'[v], user', codes')
  <2>1. CASE v = w
    BY <2>1 DEF IInv, TypeOK, Goto
  <2>2. CASE v # w
    <3>1. req'[v] = req[v] /\ Holds(req[v], user, codes)
      BY <2>2 DEF IInv, TypeOK, Goto, Refers
    <3> QED
      BY <3>1, HoldsOn
  <2> QED
    BY <2>1, <2>2
<1> QED
  BY <1>1, <1>2

\* A step that only moves one request.
LEMMA GotoKeeps ==
  ASSUME IInv, NEW w \in Workers, NEW r \in Request, Holds(r, user, codes), Goto(w, r),
         arrived' = arrived \/ arrived' \in 0 .. MaxRequests,
         UNCHANGED <<now, user, cache, codes, tokens, form, forms, former>>
  PROVE  IInv'
<1>1. req' \in [Workers -> Request] /\ \A v \in Workers : Holds(req'[v], user', codes')
  BY RequestsKeep
<1>2. TypeOK'
  BY <1>1 DEF IInv, TypeOK
<1>3. Refers'
  BY <1>1 DEF IInv, Refers, Exists
<1> QED
  BY <1>2, <1>3 DEF IInv

\* In the beginning there is nothing.
LEMMA InitIInv == Init => IInv
<1> SUFFICES ASSUME Init PROVE IInv
  OBVIOUS
<1>1. TypeOK
  BY IdleTyped, BoundsAssumption DEF Init, TypeOK, Times, Code
<1>2. Refers
  BY IdleTyped DEF Init, Refers
<1> QED
  BY <1>1, <1>2 DEF IInv

\* A request that arrives.
LEMMA ArriveKeeps == ASSUME IInv, NEW w \in Workers, Arrive(w) PROVE IInv'
<1>0. arrived' \in 0 .. MaxRequests
  BY BoundsAssumption DEF IInv, TypeOK, Arrive
<1>1. CASE \E e \in Emails, s \in Secrets : RegisterLooksUp(w, e, s)
  <2>1. PICK e \in Emails, s \in Secrets : RegisterLooksUp(w, e, s)
    BY <1>1
  <2> DEFINE r == [Idle EXCEPT !.pc = "register", !.email = e, !.secret = s]
  <2>2. r \in Request
    BY IdleTyped DEF Request
  <2>3. Holds(r, user, codes)
    BY DEF Holds, Idle
  <2> QED
    BY <1>0, <2>1, <2>2, <2>3, GotoKeeps DEF RegisterLooksUp
<1>2. ASSUME NEW i \in Ids, NEW purpose \in Purposes, CodeAskedFor(w, i, purpose) PROVE IInv'
  <2> DEFINE r == [Idle EXCEPT !.pc = "send", !.user = i, !.email = user[i].email,
                               !.purpose = purpose]
  <2>1. user[i] \in User
    BY <1>2 DEF CodeAskedFor, IInv, TypeOK
  <2>2. r \in Request
    BY <1>2, <2>1, IdleTyped DEF Request, User, CodeAskedFor
  <2>3. Holds(r, user, codes)
    BY <1>2, <2>1 DEF Holds, Idle, Exists, User, CodeAskedFor
  <2> QED
    BY <1>0, <1>2, <2>2, <2>3, GotoKeeps DEF CodeAskedFor
<1>3. ASSUME NEW i \in Ids, VerifyReads(w, i) PROVE IInv'
  <2> DEFINE r == [Idle EXCEPT !.pc = "check", !.user = i, !.email = user[i].email,
                               !.purpose = "registration", !.seen = user[i]]
  <2>1. user[i] \in User /\ user[i] # Nothing
    BY <1>3 DEF VerifyReads, IInv, TypeOK
  <2>2. r \in Request
    BY <2>1, IdleTyped DEF Request, Purposes, User
  <2>3. Holds(r, user, codes)
    BY <2>1 DEF Holds, Idle, Purposes, Exists, User
  <2> QED
    BY <1>0, <1>3, <2>2, <2>3, GotoKeeps DEF VerifyReads
<1>4. ASSUME NEW i \in Ids, NEW s \in Secrets, ResetReads(w, i, s) PROVE IInv'
  <2> DEFINE r == [Idle EXCEPT !.pc = "check", !.user = i, !.email = user[i].email,
                               !.secret = s, !.purpose = "password_reset"]
  <2>1. user[i] \in User /\ user[i] # Nothing
    BY <1>4 DEF ResetReads, IInv, TypeOK
  <2>2. r \in Request
    BY <2>1, IdleTyped DEF Request, Purposes, User
  <2>3. Holds(r, user, codes)
    BY <2>1 DEF Holds, Idle, Purposes, Exists, User
  <2> QED
    BY <1>0, <1>4, <2>2, <2>3, GotoKeeps DEF ResetReads
<1>5. ASSUME NEW i \in Ids, NEW s \in Secrets, LoginReads(w, i, s) PROVE IInv'
  <2> DEFINE r == [Idle EXCEPT !.pc = "issue", !.user = i]
  <2>1. r \in Request
    BY <1>5, IdleTyped DEF Request, LoginReads
  <2>2. Holds(r, user, codes)
    BY <1>5 DEF Holds, Idle, LoginReads, Exists
  <2> QED
    BY <1>0, <1>5, <2>1, <2>2, GotoKeeps DEF LoginReads
<1>6. ASSUME NEW t \in tokens, NEW old \in Secrets, NEW new \in Secrets,
             ChangeReads(w, t, old, new)
      PROVE  IInv'
  <2> DEFINE r == [Idle EXCEPT !.pc = "hash", !.user = t.user, !.secret = new]
  <2>1. t.user \in Ids /\ Exists(t.user)
    BY DEF IInv, TypeOK, Token, Refers
  <2>2. r \in Request
    BY <2>1, IdleTyped DEF Request
  <2>3. Holds(r, user, codes)
    BY <2>1 DEF Holds, Idle, Exists
  <2> QED
    BY <1>0, <1>6, <2>2, <2>3, GotoKeeps DEF ChangeReads
<1> QED
  BY <1>1, <1>2, <1>3, <1>4, <1>5, <1>6 DEF Arrive

\* The account a registration makes.
LEMMA RegistersKeeps == ASSUME IInv, NEW w \in Workers, Registers(w) PROVE IInv'
<1> DEFINE q == req[w]
           h == [secret |-> q.secret, made |-> now]
<1>1. PICK i \in Ids :
        /\ user[i] = Nothing
        /\ user' = [user EXCEPT ![i] = NewUser(q.email, h)]
        /\ Goto(w, [Idle EXCEPT !.pc = "send", !.user = i, !.email = q.email,
                                !.purpose = "registration"])
  BY DEF Registers
<1> DEFINE r == [Idle EXCEPT !.pc = "send", !.user = i, !.email = q.email,
                             !.purpose = "registration"]
<1>2. q.email \in Emails /\ h \in Hash
  BY DEF IInv, TypeOK, Refers, Holds, Registers, Hash
<1>3. NewUser(q.email, h) \in User /\ NewUser(q.email, h) # Nothing
  BY <1>2, NewUserTyped
<1>4. /\ user' \in [Ids -> User \cup {Nothing}]
      /\ \A j \in Ids : user[j] # Nothing => user'[j] # Nothing
  BY <1>1, <1>3 DEF IInv, TypeOK
<1>5. r \in Request
  BY <1>2, IdleTyped DEF Request, Purposes
<1>6. Holds(r, user', codes')
  BY <1>2 DEF Holds, Idle, Purposes
<1>7. req' \in [Workers -> Request] /\ \A v \in Workers : Holds(req'[v], user', codes')
  BY <1>1, <1>4, <1>5, <1>6, RequestsKeep DEF Registers
<1>8. TypeOK'
  BY <1>4, <1>7 DEF IInv, TypeOK, Registers
<1>9. Refers'
  BY <1>4, <1>7 DEF IInv, TypeOK, Refers, Exists, Registers, Token
<1> QED
  BY <1>8, <1>9 DEF IInv

\* The row a request saves.
LEMMA RowSavedKeeps ==
  ASSUME IInv, NEW w \in Workers, NEW i \in Ids, NEW u \in User,
         user' = [user EXCEPT ![i] = u],
         UNCHANGED <<now, cache, codes, tokens, form, forms, arrived, former>>,
         NEW r \in Request, Holds(r, user', codes'), Goto(w, r)
  PROVE  IInv'
<1>1. /\ user' \in [Ids -> User \cup {Nothing}]
      /\ \A j \in Ids : user[j] # Nothing => user'[j] # Nothing
  BY NothingAssumption DEF IInv, TypeOK
<1>2. req' \in [Workers -> Request] /\ \A v \in Workers : Holds(req'[v], user', codes')
  BY <1>1, RequestsKeep
<1>3. TypeOK'
  BY <1>1, <1>2 DEF IInv, TypeOK
<1>4. Refers'
  BY <1>1, <1>2 DEF IInv, TypeOK, Refers, Exists, Token
<1> QED
  BY <1>3, <1>4 DEF IInv

LEMMA ActivatesKeeps == ASSUME IInv, NEW w \in Workers, Activates(w) PROVE IInv'
<1> DEFINE i == req[w].user
           r == [Idle EXCEPT !.pc = "issue", !.user = i]
<1>1. i \in Ids /\ user[i] \in User
  BY DEF IInv, TypeOK, Refers, Holds, Activates
<1>2. /\ [user[i] EXCEPT !.is_active = TRUE] \in User
      /\ user' = [user EXCEPT ![i] = [user[i] EXCEPT !.is_active = TRUE]]
  BY <1>1 DEF Activates, User
<1>3. r \in Request
  BY <1>1, IdleTyped DEF Request
<1>4. user'[i] # Nothing
  BY <1>1, <1>2, NothingAssumption DEF IInv, TypeOK
<1>5. Holds(r, user', codes')
  BY <1>1, <1>4 DEF Holds, Idle
<1> QED
  BY <1>1, <1>2, <1>3, <1>5, RowSavedKeeps DEF Activates

LEMMA SavesKeeps == ASSUME IInv, NEW w \in Workers, Saves(w) PROVE IInv'
<1> DEFINE i == req[w].user
<1>1. i \in Ids /\ user[i] \in User /\ req[w].hash \in Hash
  BY DEF IInv, TypeOK, Refers, Holds, Saves
<1>2. Repassworded(user[i], req[w].hash) \in User
  BY <1>1, RepasswordedTyped
<1>3. user' = [user EXCEPT ![i] = Repassworded(user[i], req[w].hash)]
  BY DEF Saves
<1> QED
  BY <1>1, <1>2, <1>3, IdleTyped, RowSavedKeeps DEF Saves

\* A code that is sent is the last one, and is in the cache under its purpose and address.
LEMMA CodeSent ==
  ASSUME IInv, NEW e \in Emails, NEW p \in Purposes, generate_otp(e, p)
  PROVE  /\ Len(codes) + 1 \in Codes
         /\ codes' \in Seq(Code) /\ Len(codes') = Len(codes) + 1
         /\ codes'[Len(codes) + 1] = [purpose |-> p, email |-> e, taken |-> 0]
         /\ \A c \in DOMAIN codes : c \in DOMAIN codes' /\ codes'[c] = codes[c]
         /\ cache' = [cache EXCEPT ![key(p, e)] =
                        [code |-> Len(codes) + 1, expires |-> now + OTPExpiry]]
         /\ key(p, e) \in Purposes \X Emails
         /\ now + OTPExpiry \in Nat
<1>1. codes \in Seq(Code) /\ Len(codes) < MaxCodes /\ now \in Nat
  BY BoundsAssumption DEF IInv, TypeOK, Times, generate_otp
<1>2. [purpose |-> p, email |-> e, taken |-> 0] \in Code
  BY DEF Code
<1>3. codes' = Append(codes, [purpose |-> p, email |-> e, taken |-> 0])
  BY DEF generate_otp
<1>4. Len(codes) + 1 \in Codes
  BY <1>1, BoundsAssumption DEF Codes
<1> QED
  BY <1>1, <1>2, <1>3, <1>4, TimesAssumption DEF generate_otp, key

LEMMA SendsKeeps == ASSUME IInv, NEW w \in Workers, Sends(w) PROVE IInv'
<1> DEFINE e == req[w].email
           p == req[w].purpose
           new == [code |-> Len(codes) + 1, expires |-> now + OTPExpiry]
<1>1. e \in Emails /\ p \in Purposes /\ generate_otp(e, p) /\ Goto(w, Idle)
  BY DEF IInv, Refers, Holds, Sends
<1>2. /\ codes' \in Seq(Code) /\ Len(codes') = Len(codes) + 1 /\ Len(codes) + 1 \in Codes
      /\ \A c \in DOMAIN codes : c \in DOMAIN codes'
      /\ cache' = [cache EXCEPT ![key(p, e)] = new]
      /\ new \in [code : Codes, expires : Nat]
  <2>1. now + OTPExpiry \in Nat /\ Len(codes) + 1 \in Codes
    BY <1>1, CodeSent
  <2> QED
    BY <1>1, <2>1, CodeSent
<1>3. Len(codes) + 1 \in DOMAIN codes'
  BY <1>2 DEF IInv, TypeOK
<1>4. req' \in [Workers -> Request] /\ \A v \in Workers : Holds(req'[v], user', codes')
  BY <1>1, <1>2, IdleTyped, RequestsKeep DEF Sends
<1>5. cache' \in [Purposes \X Emails -> [code : Codes, expires : Nat] \cup {Nothing}]
  BY <1>2 DEF IInv, TypeOK
<1>6. Len(codes') <= MaxCodes
  BY <1>2, BoundsAssumption DEF Codes
<1>7. TypeOK'
  BY <1>2, <1>4, <1>5, <1>6 DEF IInv, TypeOK, Sends
<1>8. \A k \in Purposes \X Emails : cache'[k] # Nothing => cache'[k].code \in DOMAIN codes'
  BY <1>2, <1>3 DEF IInv, TypeOK, Refers
<1>9. Refers'
  BY <1>4, <1>8 DEF IInv, Refers, Exists, Sends
<1> QED
  BY <1>7, <1>9 DEF IInv

LEMMA CodeMatchesKeeps == ASSUME IInv, NEW w \in Workers, CodeMatches(w) PROVE IInv'
<1> DEFINE k == key(req[w].purpose, req[w].email)
           r == [req[w] EXCEPT !.pc = "take", !.code = cache[k].code]
<1>1. req[w] \in Request /\ Holds(req[w], user, codes) /\ req[w].pc = "check"
  BY DEF IInv, TypeOK, Refers, CodeMatches
<1>2. k \in Purposes \X Emails /\ cache[k] # Nothing
  BY <1>1 DEF Holds, key, Live, CodeMatches
<1>3. cache[k].code \in Codes /\ cache[k].code \in DOMAIN codes
  BY <1>2 DEF IInv, TypeOK, Refers
<1>4. cache[k].code \in 0 .. MaxCodes
  BY <1>3, BoundsAssumption DEF Codes
<1>5. r \in Request
  BY <1>1, <1>4 DEF Request
<1>6. Holds(r, user, codes)
  BY <1>1, <1>3 DEF Holds, Request
<1> QED
  BY <1>5, <1>6, GotoKeeps DEF CodeMatches

\* What a request is after its code.
LEMMA AfterCodeTyped ==
  ASSUME IInv, NEW w \in Workers, req[w].pc = "take"
  PROVE  AfterCode(w) \in Request /\ Holds(AfterCode(w), user, codes)
<1>1. req[w] \in Request /\ Holds(req[w], user, codes)
  BY DEF IInv, TypeOK, Refers
<1>2. AfterCode(w) \in Request
  <2> DEFINE pc == IF req[w].purpose = "registration" THEN "activate" ELSE "hash"
  <2>1. pc \in {"activate", "hash"}
    OBVIOUS
  <2> HIDE DEF pc
  <2>2. [Idle EXCEPT !.pc = pc, !.user = req[w].user, !.email = req[w].email,
                     !.secret = req[w].secret, !.seen = req[w].seen] \in Request
    BY <1>1, <2>1, IdleTyped DEF Request
  <2> QED
    BY <2>2 DEF AfterCode, pc
<1>3. Holds(AfterCode(w), user, codes)
  BY <1>1 DEF Holds, AfterCode, Idle, Purposes
<1> QED
  BY <1>2, <1>3

\* A code that is taken is counted and nothing else changes in the codes.
LEMMA CodeCounted ==
  ASSUME IInv, NEW w \in Workers, CodeTaken(w)
  PROVE  /\ req[w].code \in DOMAIN codes
         /\ codes' \in Seq(Code) /\ DOMAIN codes' = DOMAIN codes /\ Len(codes') = Len(codes)
         /\ \A c \in DOMAIN codes :
              /\ codes'[c].purpose = codes[c].purpose /\ codes'[c].email = codes[c].email
              /\ codes'[c].taken = codes[c].taken + IF c = req[w].code THEN 1 ELSE 0
<1> DEFINE c0 == req[w].code
<1>1. c0 \in DOMAIN codes /\ codes \in Seq(Code)
  BY DEF IInv, TypeOK, Refers, Holds, CodeTaken
<1>2. codes[c0] \in Code /\ \A c \in DOMAIN codes : codes[c] \in Code
  BY <1>1
<1>3. codes' = [codes EXCEPT ![c0] = [codes[c0] EXCEPT !.taken = codes[c0].taken + 1]]
  BY DEF CodeTaken
<1>4. [codes[c0] EXCEPT !.taken = codes[c0].taken + 1] \in Code
  BY <1>2 DEF Code
<1>5. codes' \in Seq(Code) /\ DOMAIN codes' = DOMAIN codes /\ Len(codes') = Len(codes)
  BY <1>1, <1>3, <1>4
<1>6. ASSUME NEW c \in DOMAIN codes
      PROVE  /\ codes'[c].purpose = codes[c].purpose /\ codes'[c].email = codes[c].email
             /\ codes'[c].taken = codes[c].taken + IF c = c0 THEN 1 ELSE 0
  <2>1. CASE c = c0
    BY <1>1, <1>2, <1>3, <2>1 DEF Code
  <2>2. CASE c # c0
    BY <1>1, <1>2, <1>3, <2>2 DEF Code
  <2> QED
    BY <2>1, <2>2
<1> QED
  BY <1>1, <1>5, <1>6

LEMMA CodeTakenKeeps == ASSUME IInv, NEW w \in Workers, CodeTaken(w) PROVE IInv'
<1>1. /\ codes' \in Seq(Code) /\ DOMAIN codes' = DOMAIN codes /\ Len(codes') = Len(codes)
  BY CodeCounted
<1>2. AfterCode(w) \in Request /\ Holds(AfterCode(w), user, codes)
  BY AfterCodeTyped DEF CodeTaken
<1>3. Holds(AfterCode(w), user', codes')
  BY <1>1, <1>2, HoldsOn DEF CodeTaken
<1>4. req' \in [Workers -> Request] /\ \A v \in Workers : Holds(req'[v], user', codes')
  BY <1>1, <1>2, <1>3, RequestsKeep DEF CodeTaken
<1>5. TypeOK'
  BY <1>1, <1>4 DEF IInv, TypeOK, CodeTaken
<1>6. Refers'
  BY <1>1, <1>4 DEF IInv, TypeOK, Refers, Exists, CodeTaken
<1> QED
  BY <1>5, <1>6 DEF IInv

LEMMA HashesKeeps == ASSUME IInv, NEW w \in Workers, Hashes(w) PROVE IInv'
<1> DEFINE h == [secret |-> req[w].secret, made |-> now]
           r == [req[w] EXCEPT !.pc = "save", !.hash = h]
<1>1. req[w] \in Request /\ Holds(req[w], user, codes) /\ req[w].pc = "hash"
  BY DEF IInv, TypeOK, Refers, Hashes
<1>2. h \in Hash
  BY <1>1 DEF IInv, TypeOK, Holds, Hash
<1>3. r \in Request
  BY <1>1, <1>2 DEF Request
<1>4. Holds(r, user, codes)
  BY <1>1, <1>2 DEF Holds, Request
<1> QED
  BY <1>3, <1>4, GotoKeeps DEF Hashes

\* Tokens that are issued for an account that is there.
LEMMA IssuedKeeps ==
  ASSUME IInv, NEW new \in SUBSET Token, \A t \in new : Exists(t.user), Issued(new),
         req' \in [Workers -> Request], \A v \in Workers : Holds(req'[v], user, codes),
         UNCHANGED <<now, user, cache, codes, form, forms, arrived, former>>
  PROVE  IInv'
<1>1. TypeOK'
  BY DEF IInv, TypeOK, Issued
<1>2. Refers'
  BY DEF IInv, Refers, Exists, Issued
<1> QED
  BY <1>1, <1>2 DEF IInv

LEMMA IssuesKeeps == ASSUME IInv, NEW w \in Workers, Issues(w) PROVE IInv'
<1> DEFINE i == req[w].user
           new == {TokenOf("access", i, now), TokenOf("refresh", i, now)}
<1>1. i \in Ids /\ Exists(i) /\ now \in Times
  BY DEF IInv, TypeOK, Refers, Holds, Issues, Exists
<1>2. new \in SUBSET Token /\ \A t \in new : t.user = i
  BY <1>1, TokenTyped DEF IInv
<1> HIDE DEF new
<1>3. Issued(new)
  BY DEF Issues, new
<1>4. req' \in [Workers -> Request] /\ \A v \in Workers : Holds(req'[v], user', codes')
  BY IdleTyped, RequestsKeep DEF Issues
<1> QED
  BY <1>1, <1>2, <1>3, <1>4, IssuedKeeps DEF Issues

LEMMA RefreshesKeeps == ASSUME IInv, NEW t \in tokens, Refreshes(t) PROVE IInv'
<1> DEFINE new == {TokenOf("access", t.user, t.since)}
<1>1. t.user \in Ids /\ Exists(t.user) /\ t.since \in Times
  BY DEF IInv, TypeOK, Refers, Token
<1>2. new \in SUBSET Token /\ \A u \in new : u.user = t.user
  BY <1>1, TokenTyped DEF IInv
<1> HIDE DEF new
<1>3. Issued(new) /\ req' = req
  BY DEF Refreshes, new
<1>4. req' \in [Workers -> Request] /\ \A v \in Workers : Holds(req'[v], user, codes)
  BY <1>3 DEF IInv, TypeOK, Refers
<1> QED
  BY <1>1, <1>2, <1>3, <1>4, IssuedKeeps DEF Refreshes

LEMMA FormReadsKeeps ==
  ASSUME IInv, NEW a \in Administrators, NEW i \in Ids, FormReads(a, i) PROVE IInv'
<1>1. PICK e \in Emails, n \in Emails, active \in BOOLEAN, blocked \in BOOLEAN :
        form' = [form EXCEPT ![a] =
                   [user |-> i,
                    row |-> [user[i] EXCEPT !.email = e, !.username = n,
                                            !.is_active = active, !.is_blocked = blocked]]]
  BY DEF FormReads
<1> DEFINE u == [user[i] EXCEPT !.email = e, !.username = n,
                                !.is_active = active, !.is_blocked = blocked]
<1>2. user[i] \in User
  BY DEF FormReads, IInv, TypeOK
<1>3. u \in User
  BY <1>2 DEF User
<1>4. form' = [form EXCEPT ![a] = [user |-> i, row |-> u]] /\ forms' = forms + 1 /\ Exists(i)
  BY <1>1 DEF FormReads, Exists
<1> HIDE DEF u
<1>5. form' \in [Administrators -> [user : Ids, row : User] \cup {Nothing}]
  BY <1>3, <1>4 DEF IInv, TypeOK
<1>6. forms' \in 0 .. MaxForms
  BY <1>4, BoundsAssumption DEF IInv, TypeOK, FormReads
<1>7. TypeOK'
  BY <1>5, <1>6 DEF IInv, TypeOK, FormReads
<1>8. Refers'
  BY <1>4 DEF IInv, TypeOK, Refers, Exists, FormReads
<1> QED
  BY <1>7, <1>8 DEF IInv

\* The form a save ends is a row, for an account that is there.
LEMMA FormTyped ==
  ASSUME IInv, NEW a \in Administrators, form[a] # Nothing
  PROVE  /\ form[a].user \in Ids /\ form[a].row \in User /\ form[a].row # Nothing
         /\ user[form[a].user] \in User
<1>1. form[a] \in [user : Ids, row : User] /\ user[form[a].user] # Nothing
  BY DEF IInv, TypeOK, Refers, Exists
<1> QED
  BY <1>1, NothingAssumption DEF IInv, TypeOK

\* The row a saved form writes, and the address it takes away.
LEMMA FormWrites ==
  ASSUME IInv, NEW a \in Administrators, FormSaves(a)
  PROVE  LET i == form[a].user
             u == form[a].row
         IN  /\ i \in Ids /\ u \in User /\ u # Nothing /\ user[i] \in User
             /\ user' = [user EXCEPT ![i] = u] /\ form' = [form EXCEPT ![a] = Nothing]
             /\ former' = [former EXCEPT ![i] = former[i] \cup ({user[i].email} \ {u.email})]
             /\ \A j \in Ids \ {i} : user[j] # Nothing => user[j].email # u.email
<1>1. /\ form[a].user \in Ids /\ form[a].row \in User /\ form[a].row # Nothing
      /\ user[form[a].user] \in User
  BY FormTyped DEF FormSaves
<1>2. former' = [former EXCEPT ![form[a].user] =
                   former[form[a].user] \cup ({user[form[a].user].email} \ {form[a].row.email})]
  BY <1>1 DEF FormSaves, IInv, TypeOK
<1>3. \A j \in Ids \ {form[a].user} : user[j] # Nothing => user[j].email # form[a].row.email
  BY DEF FormSaves, FormFits, Free
<1> QED
  BY <1>1, <1>2, <1>3 DEF FormSaves

LEMMA FormSavesKeeps ==
  ASSUME IInv, NEW a \in Administrators, FormSaves(a) PROVE IInv'
<1> DEFINE i == form[a].user
           u == form[a].row
<1>1. /\ i \in Ids /\ u \in User /\ u # Nothing /\ user[i] \in User
      /\ user' = [user EXCEPT ![i] = u] /\ form' = [form EXCEPT ![a] = Nothing]
      /\ former' = [former EXCEPT ![i] = former[i] \cup ({user[i].email} \ {u.email})]
  BY FormWrites
<1>2. former' \in [Ids -> SUBSET Emails]
  BY <1>1 DEF User, IInv, TypeOK
<1>3. /\ user' \in [Ids -> User \cup {Nothing}]
      /\ \A j \in Ids : user[j] # Nothing => user'[j] # Nothing
  BY <1>1 DEF IInv, TypeOK
<1>4. ASSUME NEW v \in Workers PROVE Holds(req[v], user', codes)
  BY <1>3, HoldsOn DEF IInv, Refers
<1>5. TypeOK'
  BY <1>1, <1>2, <1>3 DEF IInv, TypeOK, FormSaves
<1>6. \A b \in Administrators : form'[b] # Nothing => form'[b] = form[b] /\ form[b].user \in Ids
  BY <1>1 DEF IInv, TypeOK
<1>7. Refers'
  BY <1>3, <1>4, <1>6 DEF IInv, TypeOK, Refers, Exists, FormSaves, Token
<1> QED
  BY <1>5, <1>7 DEF IInv

LEMMA FormRefusedKeeps ==
  ASSUME IInv, NEW a \in Administrators, FormRefused(a) PROVE IInv'
<1>1. TypeOK'
  BY DEF IInv, TypeOK, FormRefused
<1>2. Refers'
  BY DEF IInv, TypeOK, Refers, Exists, FormRefused
<1> QED
  BY <1>1, <1>2 DEF IInv

LEMMA CacheLostKeeps == ASSUME IInv, CacheLost PROVE IInv'
<1>1. TypeOK'
  BY DEF IInv, TypeOK, CacheLost
<1>2. Refers'
  BY DEF IInv, TypeOK, Refers, Exists, CacheLost
<1> QED
  BY <1>1, <1>2 DEF IInv

LEMMA TickKeeps == ASSUME IInv, Tick PROVE IInv'
<1>1. now' \in Times
  BY BoundsAssumption DEF IInv, TypeOK, Tick, Times
<1>2. TypeOK'
  BY <1>1 DEF IInv, TypeOK, Tick
<1>3. Refers'
  BY DEF IInv, Refers, Exists, Tick
<1> QED
  BY <1>2, <1>3 DEF IInv

\* Every step keeps the types and the references.
LEMMA NextIInv == IInv /\ [Next]_vars => IInv'
<1> SUFFICES ASSUME IInv, [Next]_vars PROVE IInv'
  OBVIOUS
<1>1. ASSUME NEW w \in Workers, Continue(w) PROVE IInv'
  <2>1. CASE Registers(w)
    BY <2>1, RegistersKeeps
  <2>2. CASE RegisterRefused(w) \/ CodeRefused(w)
    BY <2>2, IdleTyped, GotoKeeps DEF RegisterRefused, CodeRefused
  <2>3. CASE Sends(w)
    BY <2>3, SendsKeeps
  <2>4. CASE CodeMatches(w)
    BY <2>4, CodeMatchesKeeps
  <2>5. CASE CodeTaken(w)
    BY <2>5, CodeTakenKeeps
  <2>6. CASE Activates(w)
    BY <2>6, ActivatesKeeps
  <2>7. CASE Issues(w)
    BY <2>7, IssuesKeeps
  <2>8. CASE Hashes(w)
    BY <2>8, HashesKeeps
  <2>9. CASE Saves(w)
    BY <2>9, SavesKeeps
  <2> QED
    BY <1>1, <2>1, <2>2, <2>3, <2>4, <2>5, <2>6, <2>7, <2>8, <2>9 DEF Continue
<1>2. ASSUME NEW w \in Workers, Crash(w) PROVE IInv'
  BY <1>2, IdleTyped, GotoKeeps DEF Crash
<1>3. CASE UNCHANGED vars
  <2>1. TypeOK'
    BY <1>3 DEF IInv, TypeOK, vars
  <2>2. Refers'
    BY <1>3 DEF IInv, Refers, Exists, vars
  <2> QED
    BY <2>1, <2>2 DEF IInv
<1> QED
  BY <1>1, <1>2, <1>3, ArriveKeeps, RefreshesKeeps, FormReadsKeeps, FormSavesKeeps,
     FormRefusedKeeps, CacheLostKeeps, TickKeeps DEF Next

\* Every variable has its type, and every reference is to something there.
LEMMA IInvCorrect == Spec => []IInv
  BY InitIInv, NextIInv, PTL DEF Spec

\* Every variable of Accounts has its type.
THEOREM Typed == Spec => []TypeOK
<1>1. IInv => TypeOK
  BY DEF IInv
<1> QED
  BY <1>1, IInvCorrect, PTL

-----------------------------------------------------------------------------
(* The rows.                                                               *)

\* No two accounts have one address.
Unique ==
  \A i, j \in Ids : user[i] # Nothing /\ user[j] # Nothing /\ user[i].email = user[j].email
                      => i = j

\* The row a form will write has a date that is its password's: both were read together.
FormsFit ==
  \A a \in Administrators :
    form[a] # Nothing => form[a].row.token_refresh_date = form[a].row.password.made

RowsInv == Unique /\ PasswordAndDateTogether /\ FormsFit

\* The steps that write a row.
LEMMA RowWriters ==
  ASSUME [Next]_vars
  PROVE  \/ UNCHANGED user
         \/ \E w \in Workers : Registers(w) \/ Activates(w) \/ Saves(w)
         \/ \E a \in Administrators : FormSaves(a)
BY DEF Next, vars, Arrive, Continue, RegisterLooksUp, RegisterRefused, CodeAskedFor, Sends,
       VerifyReads, ResetReads, CodeMatches, CodeRefused, CodeTaken, LoginReads, Issues,
       Refreshes, ChangeReads, Hashes, Crash, FormReads, FormRefused, CacheLost, Tick

\* The steps that write a form.
LEMMA FormWriters ==
  ASSUME [Next]_vars
  PROVE  \/ UNCHANGED form
         \/ \E a \in Administrators :
              \/ \E i \in Ids : FormReads(a, i)
              \/ FormSaves(a) \/ FormRefused(a)
BY DEF Next, vars, Arrive, Continue, RegisterLooksUp, Registers, RegisterRefused,
       CodeAskedFor, Sends, VerifyReads, ResetReads, CodeMatches, CodeRefused, CodeTaken,
       Activates, LoginReads, Issues, Refreshes, ChangeReads, Hashes, Saves, Crash,
       CacheLost, Tick

\* A row is written for an account that is there, with an address nobody else has.
Rewritten(i, u) ==
  /\ i \in Ids /\ u \in User /\ user[i] # Nothing
  /\ user' = [user EXCEPT ![i] = u]
  /\ \A j \in Ids \ {i} : user[j] # Nothing => user[j].email # u.email

\* No account goes away, and addresses stay apart.
LEMMA Rewriting ==
  ASSUME IInv, NEW i, NEW u, Rewritten(i, u)
  PROVE  /\ \A j \in Ids : user'[j] = IF j = i THEN u ELSE user[j]
         /\ \A j \in Ids : user'[j] # Nothing <=> user[j] # Nothing
         /\ Unique => Unique'
<1>1. /\ \A j \in Ids : user'[j] = IF j = i THEN u ELSE user[j]
      /\ u # Nothing
  BY NothingAssumption DEF IInv, TypeOK, Rewritten
<1>2. \A j \in Ids : user'[j] # Nothing <=> user[j] # Nothing
  BY <1>1 DEF Rewritten
<1>3. Unique => Unique'
  BY <1>1, <1>2 DEF Unique, Rewritten
<1> QED
  BY <1>1, <1>2, <1>3

\* What the three writers of an existing row write.
LEMMA Activated ==
  ASSUME IInv, Unique, NEW w \in Workers, Activates(w)
  PROVE  Rewritten(req[w].user, [user[req[w].user] EXCEPT !.is_active = TRUE])
<1>1. req[w].user \in Ids /\ user[req[w].user] \in User /\ user[req[w].user] # Nothing
  BY DEF IInv, TypeOK, Refers, Holds, Activates
<1>2. user' = [user EXCEPT ![req[w].user] = [user[req[w].user] EXCEPT !.is_active = TRUE]]
  BY <1>1 DEF Activates, User
<1>3. [user[req[w].user] EXCEPT !.is_active = TRUE] \in User
  BY <1>1 DEF User
<1>4. [user[req[w].user] EXCEPT !.is_active = TRUE].email = user[req[w].user].email
  BY <1>1 DEF User
<1> QED
  BY <1>1, <1>2, <1>3, <1>4 DEF Rewritten, Unique

LEMMA Saved ==
  ASSUME IInv, Unique, NEW w \in Workers, Saves(w)
  PROVE  Rewritten(req[w].user, Repassworded(user[req[w].user], req[w].hash))
<1> DEFINE i == req[w].user
<1>1. /\ i \in Ids /\ user[i] \in User /\ user[i] # Nothing /\ req[w].hash \in Hash
      /\ user' = [user EXCEPT ![i] = Repassworded(user[i], req[w].hash)]
  BY DEF IInv, TypeOK, Refers, Holds, Saves
<1>2. Repassworded(user[i], req[w].hash) \in User
  BY <1>1, RepasswordedTyped
<1>3. Repassworded(user[i], req[w].hash).email = user[i].email
  BY <1>1 DEF Repassworded, User
<1> QED
  BY <1>1, <1>2, <1>3 DEF Rewritten, Unique

LEMMA FormWritten ==
  ASSUME IInv, NEW a \in Administrators, FormSaves(a)
  PROVE  Rewritten(form[a].user, form[a].row)
<1>1. user[form[a].user] # Nothing
  BY DEF FormSaves, IInv, Refers, Exists
<1> QED
  BY <1>1, FormWrites DEF Rewritten

\* A new row is written where there was none, for an address nobody has.
LEMMA Registered ==
  ASSUME IInv, NEW w \in Workers, Registers(w)
  PROVE  \E i \in Ids, e \in Emails, h \in Hash :
           /\ user[i] = Nothing /\ user' = [user EXCEPT ![i] = NewUser(e, h)]
           /\ \A j \in Ids : user[j] # Nothing => user[j].email # e
<1>1. req[w].email \in Emails /\ [secret |-> req[w].secret, made |-> now] \in Hash
  BY DEF IInv, TypeOK, Refers, Holds, Registers, Hash
<1>2. \A j \in Ids : user[j] # Nothing => user[j].email # req[w].email
  BY DEF Registers, Free
<1> QED
  BY <1>1, <1>2 DEF Registers

LEMMA RegistersKeepsRows ==
  ASSUME IInv, RowsInv, NEW w \in Workers, Registers(w)
  PROVE  RowsInv'
<1>1. PICK i \in Ids, e \in Emails, h \in Hash :
        /\ user[i] = Nothing /\ user' = [user EXCEPT ![i] = NewUser(e, h)]
        /\ \A j \in Ids : user[j] # Nothing => user[j].email # e
  BY Registered
<1>2. \A j \in Ids : user'[j] = IF j = i THEN NewUser(e, h) ELSE user[j]
  BY <1>1 DEF IInv, TypeOK
<1>3. NewUser(e, h).email = e /\ NewUser(e, h).token_refresh_date = NewUser(e, h).password.made
  BY DEF NewUser
<1>4. Unique'
  BY <1>1, <1>2, <1>3 DEF RowsInv, Unique
<1>5. PasswordAndDateTogether'
  BY <1>2, <1>3 DEF RowsInv, PasswordAndDateTogether
<1>6. FormsFit'
  BY DEF RowsInv, FormsFit, Registers
<1> QED
  BY <1>4, <1>5, <1>6 DEF RowsInv

\* A rewritten row whose date is its password's keeps the invariant.
LEMMA RewritingKeepsRows ==
  ASSUME IInv, RowsInv, NEW i, NEW u, Rewritten(i, u),
         u.token_refresh_date = u.password.made,
         \A a \in Administrators : form'[a] # Nothing => form'[a] = form[a]
  PROVE  RowsInv'
<1>1. Unique'
  BY Rewriting DEF RowsInv
<1>2. PasswordAndDateTogether'
  BY Rewriting DEF RowsInv, PasswordAndDateTogether
<1>3. FormsFit'
  BY DEF RowsInv, FormsFit
<1> QED
  BY <1>1, <1>2, <1>3 DEF RowsInv

LEMMA NextRowsInv == IInv /\ RowsInv /\ [Next]_vars => RowsInv'
<1> SUFFICES ASSUME IInv, RowsInv, [Next]_vars PROVE RowsInv'
  OBVIOUS
<1>1. ASSUME NEW w \in Workers, Registers(w) PROVE RowsInv'
  BY <1>1, RegistersKeepsRows
<1>2. ASSUME NEW w \in Workers, Activates(w) PROVE RowsInv'
  <2> DEFINE i == req[w].user
             u == [user[i] EXCEPT !.is_active = TRUE]
  <2>1. Rewritten(i, u) /\ form' = form
    BY <1>2, Activated DEF Activates, RowsInv
  <2>2. user[i] \in User /\ i \in Ids /\ user[i] # Nothing
    BY <2>1 DEF Rewritten, IInv, TypeOK
  <2>3. u.token_refresh_date = u.password.made
    BY <2>2 DEF User, RowsInv, PasswordAndDateTogether
  <2> QED
    BY <2>1, <2>3, RewritingKeepsRows
<1>3. ASSUME NEW w \in Workers, Saves(w) PROVE RowsInv'
  <2> DEFINE i == req[w].user
             u == Repassworded(user[i], req[w].hash)
  <2>1. Rewritten(i, u) /\ form' = form
    BY <1>3, Saved DEF Saves, RowsInv
  <2>2. user[i] \in User
    BY <2>1 DEF Rewritten, IInv, TypeOK
  <2>3. u.token_refresh_date = u.password.made
    BY <2>2 DEF User, Repassworded
  <2> QED
    BY <2>1, <2>3, RewritingKeepsRows
<1>4. ASSUME NEW a \in Administrators, FormSaves(a) PROVE RowsInv'
  <2>1. Rewritten(form[a].user, form[a].row)
    BY <1>4, FormWritten
  <2>2. form[a].row.token_refresh_date = form[a].row.password.made
    BY <1>4 DEF RowsInv, FormsFit, FormSaves
  <2>3. \A b \in Administrators : form'[b] # Nothing => form'[b] = form[b]
    BY <1>4 DEF FormSaves, IInv, TypeOK
  <2> QED
    BY <2>1, <2>2, <2>3, RewritingKeepsRows
<1>5. ASSUME NEW a \in Administrators, NEW i \in Ids, FormReads(a, i) PROVE RowsInv'
  <2>1. PICK e \in Emails, n \in Emails, active \in BOOLEAN, blocked \in BOOLEAN :
          form' = [form EXCEPT ![a] =
                     [user |-> i,
                      row |-> [user[i] EXCEPT !.email = e, !.username = n,
                                              !.is_active = active, !.is_blocked = blocked]]]
    BY <1>5 DEF FormReads
  <2> DEFINE u == [user[i] EXCEPT !.email = e, !.username = n,
                                  !.is_active = active, !.is_blocked = blocked]
  <2>2. user[i] \in User /\ user[i] # Nothing
    BY <1>5 DEF FormReads, IInv, TypeOK
  <2>3. u.token_refresh_date = u.password.made
    BY <2>2 DEF User, RowsInv, PasswordAndDateTogether
  <2>4. /\ \A b \in Administrators : form'[b] = IF b = a THEN [user |-> i, row |-> u] ELSE form[b]
        /\ user' = user
    BY <1>5, <2>1 DEF FormReads, IInv, TypeOK
  <2> HIDE DEF u
  <2>5. FormsFit'
    BY <2>3, <2>4 DEF RowsInv, FormsFit
  <2> QED
    BY <2>4, <2>5 DEF RowsInv, Unique, PasswordAndDateTogether
<1>6. ASSUME NEW a \in Administrators, FormRefused(a) PROVE RowsInv'
  <2>1. FormsFit'
    BY <1>6 DEF FormRefused, RowsInv, FormsFit, IInv, TypeOK
  <2> QED
    BY <1>6, <2>1 DEF FormRefused, RowsInv, Unique, PasswordAndDateTogether
<1>7. CASE UNCHANGED user /\ UNCHANGED form
  BY <1>7 DEF RowsInv, Unique, PasswordAndDateTogether, FormsFit
<1> QED
  BY <1>1, <1>2, <1>3, <1>4, <1>5, <1>6, <1>7, RowWriters, FormWriters

LEMMA RowsInvCorrect == Spec => []RowsInv
<1>1. Init => RowsInv
  BY DEF Init, RowsInv, Unique, PasswordAndDateTogether, FormsFit
<1> QED
  BY <1>1, IInvCorrect, NextRowsInv, PTL DEF Spec

\* The date tokens are compared with is always the date of the password beside it.
THEOREM DateFollowsPassword == Spec => []PasswordAndDateTogether
<1>1. RowsInv => PasswordAndDateTogether
  BY DEF RowsInv
<1> QED
  BY <1>1, RowsInvCorrect, PTL

\* However many registrations race, an address has at most one account.
THEOREM OneAccountPerAddress == Spec => []OneUserPerEmail
<1>1. RowsInv => OneUserPerEmail
  <2> SUFFICES ASSUME RowsInv, NEW e \in Emails PROVE Cardinality(Accounts(e)) <= 1
    BY DEF OneUserPerEmail
  <2>1. CASE Accounts(e) = {}
    BY <2>1, FS_EmptySet
  <2>2. CASE Accounts(e) # {}
    <3>1. PICK i \in Ids : Accounts(e) = {i}
      BY <2>2 DEF RowsInv, Unique, Accounts
    <3> QED
      BY <3>1, FS_Singleton
  <2> QED
    BY <2>1, <2>2
<1> QED
  BY <1>1, RowsInvCorrect, PTL

-----------------------------------------------------------------------------
(* One-time codes.                                                         *)

\* Where codes is cs, a registration code sent to e has been taken.
Shown(e, cs) == \E c \in DOMAIN cs : /\ cs[c].purpose = "registration"
                                     /\ cs[c].email = e
                                     /\ cs[c].taken > 0

\* A code that is in the cache was stored under what it is for, and nobody took it yet.
Untaken ==
  \A k \in Purposes \X Emails : cache[k] # Nothing =>
    /\ key(codes[cache[k].code].purpose, codes[cache[k].code].email) = k
    /\ codes[cache[k].code].taken = 0

\* The addresses of account i, where user is u and former is f: the one that it has, and
\* those that it had until a form took them.
Addresses(u, f, i) == f[i] \cup {u[i].email}

\* A request checks a code for an address of its account, and activates the account
\* after a code sent to it was taken.
Checked ==
  \A w \in Workers :
    /\ req[w].pc \in {"check", "take", "activate"} =>
         req[w].email \in Addresses(user, former, req[w].user)
    /\ req[w].pc = "activate" => Shown(req[w].email, codes)

CodesInv == Untaken /\ Checked /\ CodesAreSpentTogether

\* A step that leaves the codes alone, and moves requests to nothing but the check of a
\* code for the address of their account.
Quiet ==
  /\ UNCHANGED <<cache, codes>>
  /\ \A v \in Workers : req'[v].pc \in {"check", "take", "activate"} =>
       \/ req'[v] = req[v]
       \/ /\ req'[v].pc = "check"
          /\ user[req'[v].user] # Nothing /\ req'[v].email = user[req'[v].user].email

LEMMA GotoQuiet ==
  ASSUME IInv, NEW w \in Workers, NEW r, Goto(w, r), UNCHANGED <<cache, codes>>,
         \/ r.pc \notin {"check", "take", "activate"}
         \/ r.pc = "check" /\ user[r.user] # Nothing /\ r.email = user[r.user].email
  PROVE  Quiet
<1>1. \A v \in Workers : req'[v] = IF v = w THEN r ELSE req[v]
  BY DEF Goto, IInv, TypeOK
<1> QED
  BY <1>1 DEF Quiet

\* All steps but four are quiet.
LEMMA QuietSteps ==
  ASSUME IInv, [Next]_vars
  PROVE  \/ Quiet
         \/ \E w \in Workers : Sends(w) \/ CodeMatches(w) \/ CodeTaken(w)
         \/ CacheLost
<1>1. ASSUME NEW w \in Workers, Arrive(w) PROVE Quiet
  <2>1. ASSUME NEW e \in Emails, NEW s \in Secrets, RegisterLooksUp(w, e, s) PROVE Quiet
    BY <2>1, GotoQuiet DEF RegisterLooksUp, Idle
  <2>2. ASSUME NEW i \in Ids, NEW p \in Purposes, CodeAskedFor(w, i, p) PROVE Quiet
    BY <2>2, GotoQuiet DEF CodeAskedFor, Idle
  <2>3. ASSUME NEW i \in Ids, VerifyReads(w, i) PROVE Quiet
    BY <2>3, GotoQuiet DEF VerifyReads, Idle
  <2>4. ASSUME NEW i \in Ids, NEW s \in Secrets, ResetReads(w, i, s) PROVE Quiet
    BY <2>4, GotoQuiet DEF ResetReads, Idle
  <2>5. ASSUME NEW i \in Ids, NEW s \in Secrets, LoginReads(w, i, s) PROVE Quiet
    BY <2>5, GotoQuiet DEF LoginReads, Idle
  <2>6. ASSUME NEW t \in tokens, NEW old \in Secrets, NEW new \in Secrets,
               ChangeReads(w, t, old, new)
        PROVE  Quiet
    BY <2>6, GotoQuiet DEF ChangeReads, Idle
  <2> QED
    BY <1>1, <2>1, <2>2, <2>3, <2>4, <2>5, <2>6 DEF Arrive
<1>2. ASSUME NEW w \in Workers, Continue(w)
      PROVE  Quiet \/ Sends(w) \/ CodeMatches(w) \/ CodeTaken(w)
  <2>1. CASE Registers(w)
    BY <2>1, GotoQuiet DEF Registers, Idle
  <2>2. CASE RegisterRefused(w) \/ CodeRefused(w) \/ Issues(w) \/ Saves(w)
    BY <2>2, GotoQuiet DEF RegisterRefused, CodeRefused, Issues, Saves, Idle
  <2>3. CASE Activates(w)
    BY <2>3, GotoQuiet DEF Activates, Idle
  <2>4. CASE Hashes(w)
    <3>1. req[w] \in Request
      BY DEF IInv, TypeOK
    <3> DEFINE r == [req[w] EXCEPT !.pc = "save",
                                   !.hash = [secret |-> req[w].secret, made |-> now]]
    <3>2. r.pc = "save"
      BY <3>1 DEF Request
    <3> QED
      BY <2>4, <3>2, GotoQuiet DEF Hashes
  <2> QED
    BY <1>2, <2>1, <2>2, <2>3, <2>4 DEF Continue
<1>3. ASSUME NEW w \in Workers, Crash(w) PROVE Quiet
  BY <1>3, GotoQuiet DEF Crash, Idle
<1>4. CASE UNCHANGED <<cache, codes, req>>
  BY <1>4 DEF Quiet
<1> QED
  BY <1>1, <1>2, <1>3, <1>4 DEF Next, vars, Refreshes, FormReads, FormSaves,
     FormRefused, Tick

\* No step takes an account away, and the address that a form takes is remembered.
LEMMA AddressesStay ==
  ASSUME IInv, RowsInv, [Next]_vars
  PROVE  \A i \in Ids : user[i] # Nothing =>
           /\ user'[i] # Nothing
           /\ Addresses(user, former, i) \subseteq Addresses(user', former', i)
<1>1. ASSUME NEW w \in Workers, Registers(w)
      PROVE  \A i \in Ids : user[i] # Nothing =>
               /\ user'[i] # Nothing
               /\ Addresses(user, former, i) \subseteq Addresses(user', former', i)
  <2>1. \A i \in Ids : user[i] # Nothing => user'[i] = user[i]
    BY <1>1, Registered DEF IInv, TypeOK
  <2> QED
    BY <1>1, <2>1 DEF Registers, Addresses
<1>2. ASSUME NEW w \in Workers, NEW u, Rewritten(req[w].user, u), former' = former,
             u.email = user[req[w].user].email
      PROVE  \A i \in Ids : user[i] # Nothing =>
               /\ user'[i] # Nothing
               /\ Addresses(user, former, i) \subseteq Addresses(user', former', i)
  BY <1>2, Rewriting DEF Addresses
<1>3. ASSUME NEW w \in Workers, Activates(w)
      PROVE  \A i \in Ids : user[i] # Nothing =>
               /\ user'[i] # Nothing
               /\ Addresses(user, former, i) \subseteq Addresses(user', former', i)
  <2>1. user[req[w].user] \in User
    BY <1>3 DEF Activates, IInv, TypeOK, Refers, Holds
  <2> DEFINE u == [user[req[w].user] EXCEPT !.is_active = TRUE]
  <2>2. u.email = user[req[w].user].email
    BY <2>1 DEF User
  <2>3. Rewritten(req[w].user, u) /\ former' = former
    BY <1>3, Activated DEF Activates, RowsInv
  <2> HIDE DEF u
  <2> QED
    BY <1>2, <2>2, <2>3
<1>4. ASSUME NEW w \in Workers, Saves(w)
      PROVE  \A i \in Ids : user[i] # Nothing =>
               /\ user'[i] # Nothing
               /\ Addresses(user, former, i) \subseteq Addresses(user', former', i)
  <2>1. user[req[w].user] \in User
    BY <1>4 DEF Saves, IInv, TypeOK, Refers, Holds
  <2> DEFINE u == Repassworded(user[req[w].user], req[w].hash)
  <2>2. u.email = user[req[w].user].email
    BY <2>1 DEF User, Repassworded
  <2>3. Rewritten(req[w].user, u) /\ former' = former
    BY <1>4, Saved DEF Saves, RowsInv
  <2> HIDE DEF u
  <2> QED
    BY <1>2, <2>2, <2>3
<1>5. ASSUME NEW a \in Administrators, FormSaves(a)
      PROVE  \A i \in Ids : user[i] # Nothing =>
               /\ user'[i] # Nothing
               /\ Addresses(user, former, i) \subseteq Addresses(user', former', i)
  <2> DEFINE k == form[a].user
             u == form[a].row
  <2>1. /\ k \in Ids /\ u # Nothing /\ user' = [user EXCEPT ![k] = u]
        /\ former' = [former EXCEPT ![k] = former[k] \cup ({user[k].email} \ {u.email})]
    BY <1>5, FormWrites
  <2> HIDE DEF k, u
  <2> QED
    BY <2>1 DEF Addresses, IInv, TypeOK
<1>6. CASE UNCHANGED <<user, former>>
  BY <1>6 DEF Addresses
<1>7. UNCHANGED former \/ \E a \in Administrators : FormSaves(a)
  BY DEF Next, vars, Arrive, Continue, RegisterLooksUp, Registers, RegisterRefused,
         CodeAskedFor, Sends, VerifyReads, ResetReads, CodeMatches, CodeRefused, CodeTaken,
         Activates, LoginReads, Issues, Refreshes, ChangeReads, Hashes, Saves, Crash,
         FormReads, FormRefused, CacheLost, Tick
<1> QED
  BY <1>1, <1>3, <1>4, <1>5, <1>6, <1>7, RowWriters

\* A code that was shown stays shown.
LEMMA ShownStays ==
  ASSUME IInv, [Next]_vars, NEW e, Shown(e, codes) PROVE Shown(e, codes')
<1>1. ASSUME NEW w \in Workers, Sends(w) PROVE Shown(e, codes')
  <2>1. \A c \in DOMAIN codes : c \in DOMAIN codes' /\ codes'[c] = codes[c]
    BY <1>1, CodeSent DEF Sends, IInv, Refers, Holds
  <2> QED
    BY <2>1 DEF Shown
<1>2. ASSUME NEW w \in Workers, CodeTaken(w) PROVE Shown(e, codes')
  <2>1. \A c \in DOMAIN codes : codes[c] \in Code
    BY DEF IInv, TypeOK
  <2> QED
    BY <1>2, <2>1, CodeCounted DEF Shown, Code
<1>3. CASE UNCHANGED codes
  BY <1>3 DEF Shown
<1> QED
  BY <1>1, <1>2, <1>3, QuietSteps DEF Quiet, CodeMatches, CacheLost

\* The codes in the cache stay untaken: the one that is taken leaves it.
LEMMA UntakenKept ==
  ASSUME IInv, CodesInv, [Next]_vars PROVE Untaken'
<1>1. CASE Quiet
  BY <1>1 DEF Quiet, CodesInv, Untaken
<1>2. CASE CacheLost
  BY <1>2 DEF CacheLost, Untaken, IInv, TypeOK
<1>3. ASSUME NEW w \in Workers, CodeMatches(w) PROVE Untaken'
  BY <1>3 DEF CodeMatches, CodesInv, Untaken
<1>4. ASSUME NEW w \in Workers, Sends(w) PROVE Untaken'
  <2> DEFINE e == req[w].email
             p == req[w].purpose
             n == Len(codes) + 1
  <2>1. e \in Emails /\ p \in Purposes /\ generate_otp(e, p)
    BY <1>4 DEF IInv, Refers, Holds, Sends
  <2>2. /\ codes'[n] = [purpose |-> p, email |-> e, taken |-> 0]
        /\ \A c \in DOMAIN codes : codes'[c] = codes[c]
        /\ cache' = [cache EXCEPT ![key(p, e)] = [code |-> n, expires |-> now + OTPExpiry]]
    BY <2>1, CodeSent
  <2>3. ASSUME NEW k \in Purposes \X Emails, cache'[k] # Nothing
        PROVE  /\ key(codes'[cache'[k].code].purpose, codes'[cache'[k].code].email) = k
               /\ codes'[cache'[k].code].taken = 0
    <3>1. CASE k = key(p, e)
      BY <2>2, <3>1 DEF IInv, TypeOK
    <3>2. CASE k # key(p, e)
      <4>1. cache'[k] = cache[k] /\ cache[k].code \in DOMAIN codes
        BY <2>2, <2>3, <3>2 DEF IInv, TypeOK, Refers
      <4> QED
        BY <2>2, <2>3, <4>1 DEF CodesInv, Untaken
    <3> QED
      BY <3>1, <3>2
  <2> QED
    BY <2>3 DEF Untaken, key
<1>5. ASSUME NEW w \in Workers, CodeTaken(w) PROVE Untaken'
  <2> DEFINE c0 == req[w].code
             k0 == key(req[w].purpose, req[w].email)
  <2>1. /\ c0 \in DOMAIN codes
        /\ \A c \in DOMAIN codes :
             /\ codes'[c].purpose = codes[c].purpose /\ codes'[c].email = codes[c].email
             /\ codes'[c].taken = codes[c].taken + IF c = c0 THEN 1 ELSE 0
    BY <1>5, CodeCounted
  <2>2. key(codes[c0].purpose, codes[c0].email) = k0
    BY <1>5, <2>1 DEF CodesInv, CodesAreSpentTogether, Holding, CodeTaken
  <2>3. cache' = [cache EXCEPT ![k0] = Nothing]
    BY <1>5 DEF CodeTaken
  <2>4. ASSUME NEW k \in Purposes \X Emails, cache'[k] # Nothing
        PROVE  /\ key(codes'[cache'[k].code].purpose, codes'[cache'[k].code].email) = k
               /\ codes'[cache'[k].code].taken = 0
    <3>1. k # k0 /\ cache'[k] = cache[k] /\ cache[k].code \in DOMAIN codes
      BY <2>3, <2>4 DEF IInv, TypeOK, Refers
    <3>2. /\ key(codes[cache[k].code].purpose, codes[cache[k].code].email) = k
          /\ codes[cache[k].code].taken = 0
      BY <2>4, <3>1 DEF CodesInv, Untaken
    <3>3. cache[k].code # c0
      BY <2>2, <3>1, <3>2
    <3> QED
      BY <2>1, <3>1, <3>2, <3>3
  <2> QED
    BY <2>4 DEF Untaken, key
<1> QED
  BY <1>1, <1>2, <1>3, <1>4, <1>5, QuietSteps

\* Requests go on checking codes for an address of their account.
LEMMA CheckedKept ==
  ASSUME IInv, IInv', RowsInv, CodesInv, [Next]_vars PROVE Checked'
<1> SUFFICES ASSUME NEW v \in Workers
             PROVE  /\ req'[v].pc \in {"check", "take", "activate"} =>
                         req'[v].email \in Addresses(user', former', req'[v].user)
                    /\ req'[v].pc = "activate" => Shown(req'[v].email, codes')
  BY DEF Checked, Shown, Addresses
<1>1. req'[v].pc \in {"check", "take", "activate"} => req'[v].user \in Ids
  BY DEF IInv, Refers, Holds
<1>2. \A i \in Ids : user[i] # Nothing =>
        Addresses(user, former, i) \subseteq Addresses(user', former', i)
  BY AddressesStay
<1>3. \A e : Shown(e, codes) => Shown(e, codes')
  BY ShownStays
<1>4. CASE req'[v] = req[v]
  <2>1. req[v].pc \in {"check", "take", "activate"} =>
          req[v].user \in Ids /\ user[req[v].user] # Nothing
    BY DEF IInv, Refers, Holds
  <2> QED
    BY <1>2, <1>3, <1>4, <2>1 DEF CodesInv, Checked
<1>5. CASE Quiet
  <2>1. ASSUME req'[v].pc = "check", user[req'[v].user] # Nothing,
               req'[v].email = user[req'[v].user].email
        PROVE  req'[v].email \in Addresses(user', former', req'[v].user)
    <3>1. req'[v].email \in Addresses(user, former, req'[v].user)
      BY <2>1 DEF Addresses
    <3> QED
      BY <1>1, <1>2, <2>1, <3>1
  <2> QED
    BY <1>4, <1>5, <2>1 DEF Quiet
<1>6. CASE \E w \in Workers : Sends(w)
  BY <1>4, <1>6 DEF Sends, Goto, Idle, IInv, TypeOK
<1>7. CASE CacheLost
  BY <1>4, <1>7 DEF CacheLost
<1>8. ASSUME NEW w \in Workers, CodeMatches(w), v = w
      PROVE  req'[v].pc = "take" /\ req'[v].email \in Addresses(user', former', req'[v].user)
  <2>1. req[w] \in Request /\ Holds(req[w], user, codes) /\ req[w].pc = "check"
    BY <1>8 DEF IInv, TypeOK, Refers, CodeMatches
  <2>2. req'[w].pc = "take" /\ req'[w].email = req[w].email /\ req'[w].user = req[w].user
    BY <1>8, <2>1 DEF CodeMatches, Goto, IInv, TypeOK, Request
  <2> QED
    BY <1>2, <1>8, <2>1, <2>2 DEF CodesInv, Checked, Holds
<1>9. ASSUME NEW w \in Workers, CodeTaken(w), v = w
      PROVE  /\ req'[v].pc \in {"activate", "hash"}
             /\ req'[v].email \in Addresses(user', former', req'[v].user)
             /\ req'[v].pc = "activate" => Shown(req'[v].email, codes')
  <2> DEFINE c0 == req[w].code
  <2>1. req[w].pc = "take" /\ Holds(req[w], user, codes)
    BY <1>9 DEF CodeTaken, IInv, Refers
  <2>2. req'[w] = AfterCode(w)
    BY <1>9 DEF CodeTaken, Goto, IInv, TypeOK
  <2>3. /\ req'[w].user = req[w].user /\ req'[w].email = req[w].email
        /\ req'[w].pc \in {"activate", "hash"}
        /\ req'[w].pc = "activate" => req[w].purpose = "registration"
    BY <2>2 DEF AfterCode, Idle
  <2>4. /\ c0 \in DOMAIN codes /\ codes[c0].purpose = req[w].purpose
        /\ codes[c0].email = req[w].email /\ codes[c0].taken \in Nat
    <3>1. c0 \in DOMAIN codes /\ w \in Holding(c0)
      BY <2>1 DEF Holds, Holding
    <3>2. codes[c0] \in Code
      BY <3>1 DEF IInv, TypeOK
    <3> QED
      BY <3>1, <3>2 DEF CodesInv, CodesAreSpentTogether, Code
  <2>5. /\ c0 \in DOMAIN codes' /\ codes'[c0].purpose = req[w].purpose
        /\ codes'[c0].email = req[w].email /\ codes'[c0].taken > 0
    BY <1>9, <2>4, CodeCounted
  <2>6. req[w].email \in Addresses(user', former', req[w].user)
    BY <1>2, <2>1 DEF CodesInv, Checked, Holds
  <2>7. req[w].purpose = "registration" => Shown(req[w].email, codes')
    BY <2>5 DEF Shown
  <2> QED
    BY <1>9, <2>3, <2>6, <2>7
<1>10. CASE \E w \in Workers : CodeMatches(w)
  BY <1>4, <1>8, <1>10 DEF CodeMatches, Goto, IInv, TypeOK
<1>11. CASE \E w \in Workers : CodeTaken(w)
  BY <1>4, <1>9, <1>11 DEF CodeTaken, Goto, IInv, TypeOK
<1> QED
  BY <1>5, <1>6, <1>7, <1>10, <1>11, QuietSteps

\* However get and delete interleave, a code is taken at most once per request.
LEMMA SpentKept ==
  ASSUME IInv, IInv', CodesInv, [Next]_vars PROVE CodesAreSpentTogether'
<1> DEFINE After(c) == {w \in Workers : req'[w].pc = "take" /\ req'[w].code = c}
<1> SUFFICES ASSUME NEW c \in DOMAIN codes'
             PROVE  /\ codes'[c].taken + Cardinality(After(c)) <= Cardinality(Workers)
                    /\ \A v \in After(c) : /\ codes'[c].purpose = req'[v].purpose
                                           /\ codes'[c].email = req'[v].email
  BY DEF CodesAreSpentTogether, Holding
<1>1. /\ IsFiniteSet(After(c)) /\ Cardinality(After(c)) <= Cardinality(Workers)
      /\ Cardinality(After(c)) \in Nat /\ Cardinality(Workers) \in Nat
  BY WorkersAssumption, FS_Subset, FS_CardinalityType
<1>2. /\ IsFiniteSet(Holding(c)) /\ Cardinality(Holding(c)) \in Nat
  BY WorkersAssumption, FS_Subset, FS_CardinalityType DEF Holding
<1>3. codes'[c].taken \in Nat
  <2>1. codes'[c] \in Code
    BY DEF IInv, TypeOK
  <2> QED
    BY <2>1 DEF Code
<1>4. ASSUME c \in DOMAIN codes, codes'[c] = codes[c],
             \A v \in After(c) : req'[v] = req[v]
      PROVE  /\ codes'[c].taken + Cardinality(After(c)) <= Cardinality(Workers)
             /\ \A v \in After(c) : /\ codes'[c].purpose = req'[v].purpose
                                    /\ codes'[c].email = req'[v].email
  <2>1. After(c) \in SUBSET Holding(c)
    BY <1>4 DEF Holding
  <2>2. Cardinality(After(c)) <= Cardinality(Holding(c))
    BY <1>2, <2>1, FS_Subset
  <2>3. codes[c].taken + Cardinality(Holding(c)) <= Cardinality(Workers)
    BY <1>4 DEF CodesInv, CodesAreSpentTogether
  <2>4. codes'[c].taken + Cardinality(After(c)) <= Cardinality(Workers)
    BY <1>1, <1>2, <1>3, <1>4, <2>2, <2>3
  <2> QED
    BY <1>4, <2>1, <2>4 DEF CodesInv, CodesAreSpentTogether
<1>5. CASE Quiet
  <2>1. codes' = codes /\ \A v \in After(c) : req'[v] = req[v]
    BY <1>5 DEF Quiet
  <2> QED
    BY <1>4, <2>1
<1>6. CASE CacheLost
  BY <1>4, <1>6 DEF CacheLost
<1>7. ASSUME NEW w \in Workers, Sends(w)
      PROVE  /\ codes'[c].taken + Cardinality(After(c)) <= Cardinality(Workers)
             /\ \A v \in After(c) : /\ codes'[c].purpose = req'[v].purpose
                                    /\ codes'[c].email = req'[v].email
  <2>1. generate_otp(req[w].email, req[w].purpose) /\ req[w].email \in Emails
        /\ req[w].purpose \in Purposes
    BY <1>7 DEF Sends, IInv, Refers, Holds
  <2>2. \A v \in After(c) : req'[v] = req[v]
    BY <1>7 DEF Sends, Goto, Idle, IInv, TypeOK
  <2>3. CASE c \in DOMAIN codes
    BY <1>4, <2>1, <2>2, <2>3, CodeSent
  <2>4. CASE c \notin DOMAIN codes
    <3>1. codes'[c].taken = 0
      <4> DEFINE n == Len(codes) + 1
      <4>1. /\ codes' \in Seq(Code) /\ Len(codes') = n /\ codes \in Seq(Code)
            /\ codes'[n] = [purpose |-> req[w].purpose, email |-> req[w].email, taken |-> 0]
        BY <2>1, CodeSent DEF IInv, TypeOK
      <4>2. c = n
        BY <2>4, <4>1
      <4> HIDE DEF n
      <4> QED
        BY <4>1, <4>2
    <3>2. After(c) = {}
      BY <2>2, <2>4 DEF IInv, Refers, Holds
    <3> QED
      BY <1>1, <3>1, <3>2
  <2> QED
    BY <2>3, <2>4
<1>8. ASSUME NEW w \in Workers, CodeMatches(w)
      PROVE  /\ codes'[c].taken + Cardinality(After(c)) <= Cardinality(Workers)
             /\ \A v \in After(c) : /\ codes'[c].purpose = req'[v].purpose
                                    /\ codes'[c].email = req'[v].email
  <2> DEFINE k == key(req[w].purpose, req[w].email)
  <2>1. req[w] \in Request /\ Holds(req[w], user, codes) /\ req[w].pc = "check"
    BY <1>8 DEF IInv, TypeOK, Refers, CodeMatches
  <2>2. k \in Purposes \X Emails /\ cache[k] # Nothing /\ codes' = codes
    BY <1>8, <2>1 DEF Holds, key, Live, CodeMatches
  <2>3. /\ req'[w].code = cache[k].code /\ req'[w].purpose = req[w].purpose
        /\ req'[w].email = req[w].email
        /\ \A v \in Workers : v # w => req'[v] = req[v]
    BY <1>8, <2>1 DEF CodeMatches, Goto, IInv, TypeOK, Request
  <2>4. CASE c # cache[k].code
    BY <1>4, <2>2, <2>3, <2>4
  <2>5. CASE c = cache[k].code
    <3>1. key(codes[c].purpose, codes[c].email) = k /\ codes[c].taken = 0
      BY <2>2, <2>5 DEF CodesInv, Untaken
    <3>2. codes[c].purpose = req[w].purpose /\ codes[c].email = req[w].email
      BY <3>1 DEF key
    <3>3. \A v \in After(c) : v # w => v \in Holding(c)
      BY <2>3 DEF Holding
    <3>4. \A v \in After(c) : /\ codes'[c].purpose = req'[v].purpose
                              /\ codes'[c].email = req'[v].email
      BY <2>2, <2>3, <3>2, <3>3 DEF CodesInv, CodesAreSpentTogether
    <3> QED
      BY <1>1, <2>2, <3>1, <3>4
  <2> QED
    BY <2>4, <2>5
<1>9. ASSUME NEW w \in Workers, CodeTaken(w)
      PROVE  /\ codes'[c].taken + Cardinality(After(c)) <= Cardinality(Workers)
             /\ \A v \in After(c) : /\ codes'[c].purpose = req'[v].purpose
                                    /\ codes'[c].email = req'[v].email
  <2>1. /\ c \in DOMAIN codes
        /\ codes'[c].purpose = codes[c].purpose /\ codes'[c].email = codes[c].email
        /\ codes'[c].taken = codes[c].taken + IF c = req[w].code THEN 1 ELSE 0
    BY <1>9, CodeCounted
  <2>2. req'[w].pc # "take" /\ \A v \in Workers : v # w => req'[v] = req[v]
    BY <1>9 DEF CodeTaken, Goto, AfterCode, Idle, IInv, TypeOK
  <2>3. After(c) \in SUBSET Holding(c)
    BY <2>2 DEF Holding
  <2>4. codes[c].taken \in Nat /\ codes[c].taken + Cardinality(Holding(c)) <= Cardinality(Workers)
    <3>1. codes[c] \in Code
      BY <2>1 DEF IInv, TypeOK
    <3> QED
      BY <2>1, <3>1 DEF CodesInv, CodesAreSpentTogether, Code
  <2>5. CASE c # req[w].code
    <3>1. Cardinality(After(c)) <= Cardinality(Holding(c))
      BY <1>2, <2>3, FS_Subset
    <3>2. codes'[c].taken + Cardinality(After(c)) <= Cardinality(Workers)
      BY <1>1, <1>2, <2>1, <2>4, <2>5, <3>1
    <3> QED
      BY <2>1, <2>2, <2>3, <3>2 DEF CodesInv, CodesAreSpentTogether
  <2>6. CASE c = req[w].code
    <3>1. w \in Holding(c) /\ After(c) = Holding(c) \ {w}
      BY <1>9, <2>2, <2>6 DEF Holding, CodeTaken
    <3>2. Cardinality(After(c)) = Cardinality(Holding(c)) - 1
      BY <1>2, <3>1, FS_RemoveElement
    <3>3. codes'[c].taken + Cardinality(After(c)) <= Cardinality(Workers)
      BY <1>1, <1>2, <2>1, <2>4, <2>6, <3>2
    <3> QED
      BY <2>1, <2>2, <2>3, <3>3 DEF CodesInv, CodesAreSpentTogether
  <2> QED
    BY <2>5, <2>6
<1> QED
  BY <1>5, <1>6, <1>7, <1>8, <1>9, QuietSteps

LEMMA CodesInvCorrect == Spec => []CodesInv
<1>1. Init => CodesInv
  BY DEF Init, Idle, CodesInv, Untaken, Checked, CodesAreSpentTogether
<1>2. IInv /\ IInv' /\ RowsInv /\ CodesInv /\ [Next]_vars => CodesInv'
  BY UntakenKept, CheckedKept, SpentKept DEF CodesInv
<1> QED
  BY <1>1, <1>2, IInvCorrect, RowsInvCorrect, PTL DEF Spec

\* A one-time code is good for the requests that read it before the first of them
\* deleted it, for no later one, and only for what it was sent for.
THEOREM CodesSpentTogether == Spec => []CodesAreSpentTogether
<1>1. CodesInv => CodesAreSpentTogether
  BY DEF CodesInv
<1> QED
  BY <1>1, CodesInvCorrect, PTL

-----------------------------------------------------------------------------
(* What makes an account active, and what unblocks it.                     *)

\* What a step other than a form for it does to the flags of account i.
LEMMA FlagsChange ==
  ASSUME IInv, RowsInv, CodesInv, [Next]_vars, NEW i \in Ids, ~FormSaved(i)
  PROVE  /\ user[i] # Nothing /\ user[i].is_blocked => user'[i].is_blocked
         /\ user'[i] # Nothing /\ user'[i].is_active =>
              \/ user[i] # Nothing /\ user[i].is_active
              \/ \E w \in Workers : Verifies(w, i)
<1>1. ASSUME NEW w \in Workers, Registers(w)
      PROVE  user'[i] = user[i] \/ (user[i] = Nothing /\ ~user'[i].is_active)
  <2>1. PICK j \in Ids, e \in Emails, h \in Hash :
          user[j] = Nothing /\ user' = [user EXCEPT ![j] = NewUser(e, h)]
    BY <1>1, Registered
  <2>2. ~NewUser(e, h).is_active
    BY DEF NewUser
  <2>3. CASE i = j
    <3>1. user'[i] = NewUser(e, h) /\ user[i] = Nothing
      BY <2>1, <2>3 DEF IInv, TypeOK
    <3> QED
      BY <2>2, <3>1
  <2>4. CASE i # j
    BY <2>1, <2>4 DEF IInv, TypeOK
  <2> QED
    BY <2>3, <2>4
<1>2. ASSUME NEW w \in Workers, Activates(w)
      PROVE  \/ user'[i] = user[i]
             \/ /\ user'[i].is_blocked = user[i].is_blocked /\ user[i] # Nothing
                /\ Verifies(w, i)
  <2>1. Rewritten(req[w].user, [user[req[w].user] EXCEPT !.is_active = TRUE])
    BY <1>2, Activated DEF RowsInv
  <2>2. req[w].pc = "activate" /\ Shown(req[w].email, codes)
        /\ req[w].email \in Addresses(user, former, req[w].user)
    BY <1>2 DEF Activates, CodesInv, Checked
  <2>3. user[req[w].user] \in User /\ user[req[w].user] # Nothing
    BY <2>1 DEF Rewritten, IInv, TypeOK
  <2>4. Verifies(w, req[w].user)
    BY <2>2 DEF Verifies, Shown, Addresses
  <2>5. CASE i = req[w].user
    <3>1. user'[i].is_blocked = user[i].is_blocked
      BY <2>1, <2>3, <2>5, Rewriting DEF User
    <3> QED
      BY <2>3, <2>4, <2>5, <3>1
  <2>6. CASE i # req[w].user
    BY <2>1, <2>6, Rewriting
  <2> QED
    BY <2>5, <2>6
<1>3. ASSUME NEW w \in Workers, Saves(w)
      PROVE  /\ user'[i].is_blocked = user[i].is_blocked
             /\ user'[i].is_active = user[i].is_active
             /\ user'[i] # Nothing => user[i] # Nothing
  <2>1. Rewritten(req[w].user, Repassworded(user[req[w].user], req[w].hash))
    BY <1>3, Saved DEF RowsInv
  <2>2. user[req[w].user] \in User
    BY <2>1 DEF Rewritten, IInv, TypeOK
  <2> DEFINE u == Repassworded(user[req[w].user], req[w].hash)
  <2>3. /\ u.is_blocked = user[req[w].user].is_blocked
        /\ u.is_active = user[req[w].user].is_active
    BY <2>2 DEF Repassworded, User
  <2> HIDE DEF u
  <2> QED
    BY <2>1, <2>3, Rewriting DEF u
<1>4. ASSUME NEW a \in Administrators, FormSaves(a) PROVE user'[i] = user[i]
  <2>1. /\ user' = [user EXCEPT ![form[a].user] = form[a].row] /\ form[a].user \in Ids
        /\ form'[a] = Nothing /\ form[a] # Nothing
    BY <1>4, FormWrites DEF FormSaves, IInv, TypeOK
  <2>2. form[a].user # i
    BY <2>1 DEF FormSaved, IInv, TypeOK
  <2> QED
    BY <2>1, <2>2 DEF IInv, TypeOK
<1> QED
  BY <1>1, <1>2, <1>3, <1>4, RowWriters

LEMMA InvCorrect == Spec => [](IInv /\ RowsInv /\ CodesInv)
  BY IInvCorrect, RowsInvCorrect, CodesInvCorrect, PTL

\* Account i becomes active only by a request that verified its address, or by its form.
Earned(i) ==
  /\ user'[i] # Nothing /\ user'[i].is_active
  /\ user[i] = Nothing \/ ~user[i].is_active
  => FormSaved(i) \/ \E w \in Workers : Verifies(w, i)

\* An account becomes active by a request that took a registration code sent to an address
\* the account has, or had until a form took it, or by an administrator's form for it.
THEOREM ActivationIsEarned == Spec => NobodyActiveUnverified
<1>1. IInv /\ RowsInv /\ CodesInv /\ [Next]_vars => \A i \in Ids : Earned(i)
  BY FlagsChange DEF Earned
<1>2. Spec => [][\A i \in Ids : Earned(i)]_vars
  BY <1>1, InvCorrect, PTL DEF Spec
<1> QED
  BY <1>2 DEF NobodyActiveUnverified, Earned

\* No request takes back what an administrator blocked.
THEOREM BlocksStand == Spec => NoBlockIsLost
<1> DEFINE B == \A i \in Ids :
                  user[i] # Nothing /\ user[i].is_blocked /\ ~user'[i].is_blocked => FormSaved(i)
<1>1. IInv /\ RowsInv /\ CodesInv /\ [Next]_vars => B
  BY FlagsChange
<1>2. Spec => [][B]_vars
  BY <1>1, InvCorrect, PTL DEF Spec
<1> QED
  BY <1>2 DEF NoBlockIsLost

-----------------------------------------------------------------------------
(* The age of a token and the date of a password.                          *)

\* An access token's exp tells the second it was issued in.
ExpFits ==
  \A t \in tokens : t.token_type = "access" => t.exp = Second(t.issued) + AccessLifetime

LEMMA NextExpFits == IInv /\ ExpFits /\ [Next]_vars => ExpFits'
<1> SUFFICES ASSUME IInv, ExpFits, [Next]_vars PROVE ExpFits'
  OBVIOUS
<1>1. ASSUME NEW type \in {"access", "refresh"}, NEW j, NEW since
      PROVE  LET t == TokenOf(type, j, since)
             IN  t.token_type = "access" => t.exp = Second(t.issued) + AccessLifetime
  BY DEF TokenOf
<1>2. ASSUME NEW w \in Workers, Issues(w) PROVE ExpFits'
  <2>1. tokens' = tokens \cup {TokenOf("access", req[w].user, now),
                               TokenOf("refresh", req[w].user, now)}
    BY <1>2 DEF Issues, Issued
  <2> QED
    BY <1>1, <2>1 DEF ExpFits, Second
<1>3. ASSUME NEW t \in tokens, Refreshes(t) PROVE ExpFits'
  <2>1. tokens' = tokens \cup {TokenOf("access", t.user, t.since)}
    BY <1>3 DEF Refreshes, Issued
  <2> QED
    BY <1>1, <2>1 DEF ExpFits, Second
<1>4. CASE UNCHANGED tokens
  BY <1>4 DEF ExpFits, Second
<1> QED
  BY <1>2, <1>3, <1>4
     DEF Next, vars, Arrive, Continue, RegisterLooksUp, Registers, RegisterRefused,
         CodeAskedFor, Sends, VerifyReads, ResetReads, CodeMatches, CodeRefused, CodeTaken,
         Activates, LoginReads, ChangeReads, Hashes, Saves, Crash, FormReads, FormSaves,
         FormRefused, CacheLost, Tick

\* Where an instant lies in its second.
LEMMA WithinSecond ==
  ASSUME NEW t \in Nat
  PROVE  /\ Second(t) \in Nat /\ Second(t) * PerSecond <= t
         /\ t < Second(t) * PerSecond + PerSecond
  BY SecondTyped, TimesAssumption DEF Second

\* Seconds are ordered as their first instants are.
LEMMA SecondsOrdered ==
  ASSUME NEW a \in Nat, NEW b \in Nat, a * PerSecond < b * PerSecond + PerSecond
  PROVE  a <= b
  BY TimesAssumption

\* Cutting the time of a token to its second refuses every token that is older than the
\* password, and of the younger ones only those of the same second.
LEMMA CutToSeconds ==
  ASSUME NEW issued \in Nat, NEW made \in Nat
  PROVE  /\ issued < made => Second(issued) * PerSecond < made
         /\ Second(issued) * PerSecond < made =>
              issued < made \/ Second(issued) = Second(made)
<1>1. /\ Second(issued) \in Nat /\ Second(made) \in Nat
      /\ Second(issued) * PerSecond <= issued
      /\ issued < Second(issued) * PerSecond + PerSecond
      /\ Second(made) * PerSecond <= made
      /\ made < Second(made) * PerSecond + PerSecond
  BY WithinSecond
<1>2. Second(issued) * PerSecond \in Nat /\ Second(made) * PerSecond \in Nat /\ PerSecond \in Nat
  BY <1>1, TimesAssumption
<1>3. issued < made => Second(issued) * PerSecond < made
  BY <1>1, <1>2
<1>4. ASSUME Second(issued) * PerSecond < made, made <= issued
      PROVE  Second(issued) = Second(made)
  <2>1. Second(issued) * PerSecond < Second(made) * PerSecond + PerSecond
    BY <1>1, <1>2, <1>4
  <2>2. Second(made) * PerSecond < Second(issued) * PerSecond + PerSecond
    BY <1>1, <1>2, <1>4
  <2>3. Second(issued) <= Second(made) /\ Second(made) <= Second(issued)
    BY <1>1, <2>1, <2>2, SecondsOrdered
  <2> QED
    BY <1>1, <2>3
<1> QED
  BY <1>3, <1>4

\* A token older than the password is refused, a younger one only within its second.
THEOREM RefusalsExplained == Spec => []RefusalIsExplained
<1>1. Init => ExpFits
  BY DEF Init, ExpFits
<1>2. ASSUME IInv, RowsInv, ExpFits PROVE RefusalIsExplained
  <2> SUFFICES ASSUME NEW t \in tokens, t.token_type = "access", Valid(t),
                      user[t.user].is_active, ~user[t.user].is_blocked
               PROVE  LET u == user[t.user]
                      IN  /\ t.issued < u.password.made => ~Accepts(t)
                          /\ ~Accepts(t) => \/ t.issued < u.password.made
                                            \/ Second(t.issued) = Second(u.password.made)
    BY DEF RefusalIsExplained
  <2> DEFINE u == user[t.user]
  <2>1. t \in Token /\ t.user \in Ids /\ user[t.user] # Nothing
    BY <1>2 DEF IInv, TypeOK, Refers, Exists, Token
  <2>2. u \in User /\ u.token_refresh_date = u.password.made
    BY <1>2, <2>1 DEF IInv, TypeOK, RowsInv, PasswordAndDateTogether
  <2>3. t.issued \in Nat /\ u.password.made \in Nat
    BY <2>1, <2>2, BoundsAssumption DEF Token, User, Hash, Times
  <2>4. t.exp - AccessLifetime = Second(t.issued)
    BY <1>2, <2>3, SecondTyped, TimesAssumption DEF ExpFits
  <2>5. Accepts(t) <=> ~(Second(t.issued) * PerSecond < u.password.made)
    BY <2>2, <2>4 DEF Accepts, Rejected
  <2> QED
    BY <2>3, <2>5, CutToSeconds
<1> QED
  BY <1>1, <1>2, NextExpFits, IInvCorrect, RowsInvCorrect, PTL DEF Spec

=============================================================================
