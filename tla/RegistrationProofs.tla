------------------------- MODULE RegistrationProofs -------------------------
(***************************************************************************)
(* Theorems about Registration, for any number of calls, mailboxes,        *)
(* passwords and client addresses.                                         *)
(***************************************************************************)
EXTENDS Registration, TLAPS

USE RegistrationAssumption

\* The two ways to fold an address agree on what the service stores.
LEMMA Folding ==
    ASSUME NEW e \in Emails
    PROVE  /\ NormalizeEmail(e) \in Emails
           /\ LowerEmail(NormalizeEmail(e)) = NormalizeEmail(e)
           /\ e.form = "lower" => LowerEmail(e) = e
           /\ NormalizeEmail(e).mailbox = e.mailbox
           /\ \A d \in Emails : d.mailbox = e.mailbox =>
                NormalizeEmail(d) = NormalizeEmail(e)
  BY DEF Emails, Forms, NormalizeEmail, LowerEmail

\* What a call stores follows from what it asks for.
LEMMA RowFacts ==
    ASSUME NEW r \in Requests, call[r] \in AllCalls
    PROVE  /\ NewRow(r) \in Rows
           /\ NewRow(r).id = r
           /\ NewRow(r).password = call[r].password
           /\ call[r].op # "Create" =>
                NewRow(r).email = NormalizeEmail(call[r].email)
  <1>1. call[r].email \in Emails /\ call[r].password \in Passwords
    BY DEF AllCalls
  <1>2. NormalizeEmail(call[r].email) \in Emails
    BY <1>1, Folding
  <1> QED
    BY <1>1, <1>2 DEF NewRow, Rows

LEMMA SameRow ==
    ASSUME NEW r, call'[r] = call[r]
    PROVE  NewRow(r)' = NewRow(r)
  BY DEF NewRow

LEMMA CollideFacts ==
    ASSUME NEW a, NEW b
    PROVE  /\ Collide(a, b) <=> Collide(b, a)
           /\ Collide(a, a)
  BY DEF Collide

\* A call that logs in, and has registered before, finds its own account.
LEMMA FindsItself ==
    ASSUME RegInv, NEW r \in Requests, pc[r] \in LoggingIn,
           call[r].op = "Register"
    PROVE  /\ NewRow(r) \in RowFor(r)
           /\ \A a \in RowFor(r) : a = NewRow(r)
  <1>1. call[r] \in AllCalls /\ NewRow(r) \in accounts
    BY DEF RegInv, TypeOK, CallInv, LoggingIn
  <1>2. call[r].email \in Emails
    BY <1>1 DEF AllCalls
  <1>3. /\ NewRow(r).email = NormalizeEmail(call[r].email)
        /\ LowerEmail(NewRow(r).email) = NormalizeEmail(call[r].email)
    BY <1>1, <1>2, RowFacts, Folding
  <1> QED
    BY <1>1, <1>3 DEF RowFor, RegInv, OneAccountPerAddress, Collide

-----------------------------------------------------------------------------
(* Steps that leave the accounts alone *)

Credited == {"Ok", "BadCredentials"}

\* Nothing is decided about anybody's credentials.
LEMMA NothingDecided ==
    ASSUME RegInv, UNCHANGED <<accounts, call, before, session>>,
           \A r \in Requests : answer'[r] \in Credited => answer'[r] = answer[r]
    PROVE  CredentialsDecide'
  <1>1. \A r \in Requests : RowFor(r)' = RowFor(r)
    BY DEF RowFor
  <1> QED
    BY <1>1 DEF RegInv, CredentialsDecide, SessionIsOnes,
       RightCredentialsAreTaken, Credited

\* What a step that leaves the accounts alone must show to keep the invariant.
LEMMA Calm ==
    ASSUME RegInv, TypeOK', CallInv', CredentialsDecide',
           UNCHANGED <<accounts, call, before>>,
           inserted' \subseteq inserted,
           inserted' = {r \in Requests : pc'[r] = "commit"},
           \A r \in Requests :
             /\ pc[r] \in LoggingIn \cup Answered =>
                  pc'[r] \in LoggingIn \cup Answered
             /\ answer'[r] = "Conflict" => answer[r] = "Conflict"
    PROVE  RegInv'
  <1> USE DEF RegInv
  <1>1. \A r \in Requests : NewRow(r)' = NewRow(r) /\ (Taken(r)' <=> Taken(r))
    BY DEF NewRow, Taken
  <1>2. InsertInv'
    BY <1>1 DEF InsertInv, TypeOK
  <1>3. AccountInv'
    <2>1. \A a \in accounts : a.id \in Requests
      BY DEF TypeOK, Rows
    <2> QED
      BY <1>1, <2>1 DEF AccountInv
  <1>4. OneAccountPerAddress'
    BY DEF OneAccountPerAddress
  <1>5. ConflictIsTrue'
    BY <1>1 DEF ConflictIsTrue
  <1> QED
    BY <1>2, <1>3, <1>4, <1>5

LEMMA StepCheckRateLimit ==
    ASSUME RegInv, NEW r \in Requests, CheckRateLimit(r)
    PROVE  RegInv'
  <1> USE DEF RegInv, CheckRateLimit, Goto, Return, tables
  <1>1. TypeOK'
    BY DEF TypeOK, Running, Answers
  <1>2. CallInv'
    BY DEF TypeOK, CallInv, LoggingIn, Answered, RowFor, NewRow
  <1>3. /\ inserted' = {q \in Requests : pc'[q] = "commit"}
        /\ \A q \in Requests :
             /\ pc[q] \in LoggingIn \cup Answered =>
                  pc'[q] \in LoggingIn \cup Answered
             /\ answer'[q] = "Conflict" => answer[q] = "Conflict"
    BY DEF TypeOK, InsertInv, LoggingIn, Answered
  <1>4. CredentialsDecide'
    <2>1. CASE pc[r] = "loginLimit" /\ call[r].password \notin ValidPasswords
      <3>1. call[r].op = "Login"
        <4>1. call[r] \in AllCalls /\ call[r].op # "Create"
          BY <2>1 DEF TypeOK, CallInv, LoggingIn
        <4>2. CASE call[r].op = "Register"
          BY <2>1, <4>1, <4>2, RowFacts DEF CallInv, AccountInv, LoggingIn
        <4> QED
          BY <4>1, <4>2 DEF AllCalls
      <3>2. \A a \in before[r] : call[a.id].op = "Register" =>
                                   a.password # call[r].password
        BY <2>1 DEF CallInv, AccountInv
      <3>3. \A q \in Requests : RowFor(q)' = RowFor(q)
        BY DEF RowFor
      <3>4. \A q \in Requests \ {r} : answer'[q] = answer[q]
        BY DEF TypeOK
      <3>5. answer'[r] \notin {"Ok", "None"}
        BY <2>1 DEF TypeOK
      <3> QED
        BY <3>1, <3>2, <3>3, <3>4, <3>5
           DEF CredentialsDecide, SessionIsOnes, RightCredentialsAreTaken
    <2>2. CASE ~(pc[r] = "loginLimit" /\ call[r].password \notin ValidPasswords)
      <3>1. \A q \in Requests : answer'[q] \in Credited => answer'[q] = answer[q]
        BY <2>2 DEF TypeOK, Credited
      <3> QED
        BY <3>1, NothingDecided
    <2> QED
      BY <2>1, <2>2
  <1> QED
    BY <1>1, <1>2, <1>3, <1>4, Calm

LEMMA StepIdempotencyCheck ==
    ASSUME RegInv, NEW r \in Requests, IdempotencyCheck(r)
    PROVE  RegInv'
  <1> USE DEF RegInv, IdempotencyCheck, Goto, Return, tables
  <1>1. TypeOK'
    BY DEF TypeOK, Running, Answers, AllCalls
  <1>2. CallInv'
    BY DEF TypeOK, CallInv, LoggingIn, Answered, RowFor, NewRow
  <1>3. /\ inserted' = {q \in Requests : pc'[q] = "commit"}
        /\ \A q \in Requests :
             /\ pc[q] \in LoggingIn \cup Answered =>
                  pc'[q] \in LoggingIn \cup Answered
             /\ answer'[q] = "Conflict" => answer[q] = "Conflict"
    BY DEF TypeOK, InsertInv, LoggingIn, Answered
  <1>4. \A q \in Requests : answer'[q] \in Credited => answer'[q] = answer[q]
    BY DEF TypeOK, Credited
  <1> QED
    BY <1>1, <1>2, <1>3, <1>4, NothingDecided, Calm

LEMMA StepLoad ==
    ASSUME RegInv, NEW r \in Requests, Load(r)
    PROVE  RegInv'
  <1> USE DEF RegInv, Load, Goto, Return, tables
  <1>1. TypeOK'
    BY DEF TypeOK, RowFor, Rows, Running, Answers
  <1>2. CallInv'
    BY DEF TypeOK, CallInv, LoggingIn, Answered, RowFor, NewRow
  <1>3. /\ inserted' = {q \in Requests : pc'[q] = "commit"}
        /\ \A q \in Requests :
             /\ pc[q] \in LoggingIn \cup Answered =>
                  pc'[q] \in LoggingIn \cup Answered
             /\ answer'[q] = "Conflict" => answer[q] = "Conflict"
    BY DEF TypeOK, InsertInv, LoggingIn, Answered
  <1>4. CredentialsDecide'
    <2>1. CASE answer' = answer
      BY <2>1, NothingDecided
    <2>2. CASE /\ Return(r, "BadCredentials")
               /\ \A a \in RowFor(r) : a.password # call[r].password
      <3>1. call[r] \in AllCalls /\ pc[r] \in LoggingIn
        BY DEF TypeOK, LoggingIn
      <3>2. call[r].op = "Login"
        <4>1. CASE call[r].op = "Register"
          BY <2>2, <3>1, <4>1, FindsItself, RowFacts
        <4> QED
          BY <3>1, <4>1 DEF AllCalls, CallInv
      <3>3. ASSUME NEW a \in before[r], call[a.id].op = "Register",
                   a.email.mailbox = call[r].email.mailbox
            PROVE  a.password # call[r].password
        <4>1. a \in accounts /\ a.id \in Requests
          BY DEF CallInv, TypeOK, Rows
        <4>2. call[a.id] \in AllCalls /\ a = NewRow(a.id)
          BY <4>1 DEF AccountInv, TypeOK, LoggingIn, Answered
        <4>3. call[a.id].email \in Emails /\ call[r].email \in Emails
          BY <3>1, <4>2 DEF AllCalls
        <4>4. a.email = NormalizeEmail(call[a.id].email)
          BY <3>3, <4>1, <4>2, RowFacts
        <4>5. call[a.id].email.mailbox = call[r].email.mailbox
          BY <3>3, <4>3, <4>4, Folding
        <4>6. LowerEmail(a.email) = NormalizeEmail(call[r].email)
          BY <4>3, <4>4, <4>5, Folding
        <4> QED
          BY <2>2, <4>1, <4>6 DEF RowFor
      <3>4. \A q \in Requests : RowFor(q)' = RowFor(q)
        BY DEF RowFor
      <3>5. /\ \A q \in Requests \ {r} : answer'[q] = answer[q]
            /\ answer'[r] = "BadCredentials"
        BY <2>2 DEF TypeOK
      <3> QED
        BY <3>2, <3>3, <3>4, <3>5
           DEF CredentialsDecide, SessionIsOnes, RightCredentialsAreTaken
    <2> QED
      BY <2>1, <2>2
  <1> QED
    BY <1>1, <1>2, <1>3, <1>4, Calm

LEMMA StepSave ==
    ASSUME RegInv, NEW r \in Requests, Save(r)
    PROVE  RegInv'
  <1> USE DEF RegInv, Save, Goto, Return
  <1>0. PICK a \in RowFor(r) : a.id = found[r] /\ a.password = call[r].password
    BY DEF CallInv
  <1>1. TypeOK'
    BY <1>0 DEF TypeOK, RowFor, Running, Answers
  <1>2. CallInv'
    BY DEF TypeOK, CallInv, LoggingIn, Answered, RowFor, NewRow
  <1>3. /\ inserted' = {q \in Requests : pc'[q] = "commit"}
        /\ \A q \in Requests :
             /\ pc[q] \in LoggingIn \cup Answered =>
                  pc'[q] \in LoggingIn \cup Answered
             /\ answer'[q] = "Conflict" => answer[q] = "Conflict"
    BY DEF TypeOK, InsertInv, LoggingIn, Answered
  <1>4. CredentialsDecide'
    <2>1. call[r].op = "Register" => found[r] = r
      BY <1>0, FindsItself, RowFacts DEF TypeOK, LoggingIn
    <2>2. found[r] # NoRequest
      BY <1>0 DEF RowFor, TypeOK, Rows
    <2>3. /\ \A q \in Requests : RowFor(q)' = RowFor(q)
          /\ \A q \in Requests \ {r} :
               answer'[q] = answer[q] /\ session'[q] = session[q]
          /\ answer'[r] # "BadCredentials" /\ session'[r] = found[r]
      BY DEF RowFor, TypeOK
    <2> QED
      BY <1>0, <2>1, <2>2, <2>3
         DEF CredentialsDecide, SessionIsOnes, RightCredentialsAreTaken
  <1> QED
    BY <1>1, <1>2, <1>3, <1>4, Calm

LEMMA StepRespond ==
    ASSUME RegInv, NEW r \in Requests, Respond(r)
    PROVE  RegInv'
  <1> USE DEF RegInv, Respond, Goto, tables
  <1>1. TypeOK'
    BY DEF TypeOK, Running, Answers
  <1>2. CallInv'
    BY DEF TypeOK, CallInv, LoggingIn, Answered, RowFor, NewRow
  <1>3. /\ inserted' = {q \in Requests : pc'[q] = "commit"}
        /\ \A q \in Requests : pc[q] \in LoggingIn \cup Answered =>
                                 pc'[q] \in LoggingIn \cup Answered
    BY DEF TypeOK, InsertInv, LoggingIn, Answered
  <1> QED
    BY <1>1, <1>2, <1>3, NothingDecided, Calm

LEMMA StepFail ==
    ASSUME RegInv, NEW r \in Requests, Fail(r)
    PROVE  RegInv'
  <1> USE DEF RegInv, Fail, Abandon, Goto, Return, tables
  <1>1. TypeOK'
    BY DEF TypeOK, Running, Answers
  <1>2. CallInv'
    BY DEF TypeOK, CallInv, LoggingIn, Answered, RowFor, NewRow
  <1>3. /\ inserted' = {q \in Requests : pc'[q] = "commit"}
        /\ inserted' \subseteq inserted
        /\ \A q \in Requests :
             /\ pc[q] \in LoggingIn \cup Answered =>
                  pc'[q] \in LoggingIn \cup Answered
             /\ answer'[q] = "Conflict" => answer[q] = "Conflict"
    BY DEF TypeOK, InsertInv, LoggingIn, Answered
  <1>4. \A q \in Requests : answer'[q] \in Credited => answer'[q] = answer[q]
    BY DEF TypeOK, Credited
  <1> QED
    BY <1>1, <1>2, <1>3, <1>4, NothingDecided, Calm

LEMMA StepExpireMarker ==
    ASSUME RegInv, NEW ip \in Ips, ExpireMarker(ip)
    PROVE  RegInv'
  <1> USE DEF RegInv, ExpireMarker, tables
  <1>1. TypeOK'
    BY DEF TypeOK
  <1>2. CallInv'
    BY DEF CallInv, RowFor, NewRow
  <1>3. inserted' = {q \in Requests : pc'[q] = "commit"}
    BY DEF InsertInv
  <1> QED
    BY <1>1, <1>2, <1>3, NothingDecided, Calm

LEMMA StepCrash ==
    ASSUME RegInv, Crash
    PROVE  RegInv'
  <1> USE DEF RegInv, Crash, tables
  <1>1. TypeOK'
    BY DEF TypeOK, Running, Answers
  <1>2. CallInv'
    BY DEF TypeOK, CallInv, LoggingIn, Answered, RowFor, NewRow, Running
  <1>3. /\ inserted' = {q \in Requests : pc'[q] = "commit"}
        /\ \A q \in Requests :
             /\ pc[q] \in LoggingIn \cup Answered =>
                  pc'[q] \in LoggingIn \cup Answered
             /\ answer'[q] = "Conflict" => answer[q] = "Conflict"
    BY DEF TypeOK, InsertInv, LoggingIn, Answered, Running
  <1>4. \A q \in Requests : answer'[q] \in Credited => answer'[q] = answer[q]
    BY DEF TypeOK, Credited
  <1> QED
    BY <1>1, <1>2, <1>3, <1>4, NothingDecided, Calm

-----------------------------------------------------------------------------
(* Steps that change what others rely on *)

LEMMA StepSubmit ==
    ASSUME RegInv, NEW r \in Requests, Submit(r)
    PROVE  RegInv'
  <1> USE DEF RegInv, Submit, Goto, Return, tables
  <1>1. TypeOK'
    BY DEF TypeOK, Running, Answers
  <1>2. /\ pc[r] = "idle" /\ answer[r] = "None" /\ session[r] = NoRequest
        /\ r \notin inserted
        /\ \A a \in accounts : a.id \in Requests \ {r}
    BY DEF TypeOK, CallInv, InsertInv, AccountInv, LoggingIn, Answered, Rows
  <1>3. \A q \in Requests \ {r} :
          /\ pc'[q] = pc[q] /\ answer'[q] = answer[q] /\ call'[q] = call[q]
          /\ before'[q] = before[q] /\ NewRow(q)' = NewRow(q)
          /\ (Taken(q)' <=> Taken(q)) /\ RowFor(q)' = RowFor(q)
    BY DEF TypeOK, NewRow, Taken, RowFor
  <1>4. /\ pc'[r] \in {"answer", "loginLimit", "limit"}
        /\ answer'[r] \in {"None", "Invalid"}
        /\ before'[r] = accounts
        /\ pc'[r] # "answer" => answer'[r] = "None"
        /\ pc'[r] = "loginLimit" => call'[r].op = "Login"
        /\ pc'[r] = "limit" => call'[r].op # "Login"
        /\ pc'[r] = "limit" /\ call'[r].op = "Register" =>
             call'[r].password \in ValidPasswords
    BY <1>2 DEF TypeOK, AllCalls
  <1>5. InsertInv'
    BY <1>2, <1>3, <1>4 DEF InsertInv, TypeOK
  <1>6. AccountInv'
    BY <1>2, <1>3 DEF AccountInv
  <1>7. CallInv'
    <2>1. ASSUME NEW q \in Requests \ {r}
          PROVE  /\ answer'[q] # "None" \/ session'[q] # NoRequest =>
                      pc'[q] \in Answered
                 /\ pc'[q] = "save" => \E a \in RowFor(q)' :
                      a.id = found'[q] /\ a.password = call'[q].password
      BY <1>3 DEF CallInv
    <2> QED
      BY <1>2, <1>3, <1>4, <2>1 DEF CallInv, LoggingIn, Answered
  <1>8. OneAccountPerAddress'
    BY DEF OneAccountPerAddress
  <1>9. ConflictIsTrue'
    BY <1>3, <1>4 DEF ConflictIsTrue
  <1>10. CredentialsDecide'
    <2>1. \A q \in Requests : \A a \in before'[q] : call'[a.id] = call[a.id]
      BY <1>2, <1>3, <1>4 DEF CallInv
    <2> QED
      BY <1>2, <1>3, <1>4, <2>1
         DEF CredentialsDecide, SessionIsOnes, RightCredentialsAreTaken
  <1> QED
    BY <1>1, <1>5, <1>6, <1>7, <1>8, <1>9, <1>10

LEMMA StepInsert ==
    ASSUME RegInv, NEW r \in Requests, Insert(r)
    PROVE  RegInv'
  <1> USE DEF RegInv, Insert, Abandon, Goto, Return, tables
  <1>1. TypeOK'
    BY DEF TypeOK, Running, Answers
  <1>2. CallInv'
    BY DEF TypeOK, CallInv, LoggingIn, Answered, RowFor, NewRow
  <1>3. CredentialsDecide'
    <2>1. \A q \in Requests : answer'[q] \in Credited => answer'[q] = answer[q]
      BY DEF TypeOK, Credited
    <2> QED
      BY <2>1, NothingDecided
  <1>4. \A q \in Requests : NewRow(q)' = NewRow(q) /\ (Taken(q)' <=> Taken(q))
    BY DEF NewRow, Taken
  <1>5. InsertInv'
    <2>1. inserted' = {q \in Requests : pc'[q] = "commit"}
      BY DEF InsertInv, TypeOK
    <2>2. CASE Taken(r) /\ Abandon(r, "Conflict")
      BY <1>4, <2>1, <2>2 DEF InsertInv
    <2>3. CASE ~Taken(r) /\ inserted' = inserted \cup {r}
      <3>1. \A q \in inserted : q # r =>
              /\ ~Collide(NewRow(q), NewRow(r))
              /\ ~Collide(NewRow(r), NewRow(q))
        BY CollideFacts DEF RivalInserting
      <3> QED
        BY <1>4, <2>1, <2>3, <3>1 DEF InsertInv, TypeOK
    <2> QED
      BY <2>2, <2>3
  <1>6. \A a \in accounts : a.id \in Requests \ {r}
    BY DEF TypeOK, Rows, AccountInv, LoggingIn, Answered
  <1>7. \A q \in Requests \ {r} : pc'[q] = pc[q] /\ answer'[q] = answer[q]
    BY DEF TypeOK
  <1>8. AccountInv'
    BY <1>4, <1>6, <1>7 DEF AccountInv
  <1>9. OneAccountPerAddress'
    BY DEF OneAccountPerAddress
  <1>10. ConflictIsTrue'
    <2>1. answer'[r] = "Conflict" =>
            \E a \in accounts : a.id # r /\ Collide(a, NewRow(r))
      <3>1. answer[r] # "Conflict"
        BY DEF CallInv, Answered
      <3> QED
        BY <1>6, <3>1 DEF Taken, TypeOK
    <2> QED
      BY <1>4, <1>7, <2>1 DEF ConflictIsTrue
  <1> QED
    BY <1>1, <1>2, <1>3, <1>5, <1>8, <1>9, <1>10

LEMMA StepCommit ==
    ASSUME RegInv, NEW r \in Requests, Commit(r)
    PROVE  RegInv'
  <1> USE DEF RegInv, Commit, Goto, Return
  <1>1. /\ r \in inserted /\ call[r] \in AllCalls /\ call[r].op # "Login"
        /\ answer[r] = "None" /\ session[r] = NoRequest
        /\ call[r].op = "Register" => call[r].password \in ValidPasswords
    BY DEF InsertInv, CallInv, TypeOK, Answered
  <1>2. /\ NewRow(r) \in Rows /\ NewRow(r).id = r
        /\ NewRow(r).password = call[r].password
    BY <1>1, RowFacts
  <1>3. /\ pc'[r] \in {"loginLimit", "answer"}
        /\ pc'[r] = "loginLimit" => call[r].op = "Register" /\ answer'[r] = "None"
        /\ answer'[r] \in {"None", "Ok", "Internal"}
        /\ answer'[r] = "Ok" => call[r].op = "Create"
        /\ \A q \in Requests \ {r} : pc'[q] = pc[q] /\ answer'[q] = answer[q]
    BY <1>1 DEF TypeOK
  <1>4. \A q \in Requests : NewRow(q)' = NewRow(q) /\ RowFor(q) \subseteq RowFor(q)'
    BY DEF NewRow, RowFor
  <1>5. TypeOK'
    BY <1>1, <1>2 DEF TypeOK, Running, Answers
  <1>6. InsertInv'
    <2>1. inserted' = {q \in Requests : pc'[q] = "commit"}
      BY <1>3 DEF InsertInv, TypeOK
    <2>2. \A q \in inserted' : ~Taken(q)'
      BY <1>1, <1>4, CollideFacts DEF InsertInv, Taken
    <2> QED
      BY <1>4, <2>1, <2>2 DEF InsertInv
  <1>7. AccountInv'
    <2>1. ASSUME NEW a \in accounts
          PROVE  a.id \in Requests \ {r}
      BY <1>1 DEF TypeOK, Rows, AccountInv, InsertInv, LoggingIn, Answered
    <2> QED
      BY <1>1, <1>2, <1>3, <1>4, <2>1 DEF AccountInv, LoggingIn, Answered
  <1>8. CallInv'
    <2>1. ASSUME NEW q \in Requests \ {r}
          PROVE  pc'[q] = "save" => \E a \in RowFor(q)' :
                   a.id = found'[q] /\ a.password = call'[q].password
      BY <1>3, <1>4 DEF CallInv
    <2> QED
      BY <1>1, <1>3, <1>4, <2>1 DEF CallInv, LoggingIn, Answered
  <1>9. OneAccountPerAddress'
    BY <1>1, CollideFacts DEF OneAccountPerAddress, InsertInv, Taken
  <1>10. ConflictIsTrue'
    BY <1>3, <1>4 DEF ConflictIsTrue
  <1>11. CredentialsDecide'
    <2>1. SessionIsOnes'
      BY <1>1, <1>3, <1>4 DEF CredentialsDecide, SessionIsOnes
    <2> QED
      BY <1>1, <1>3, <2>1 DEF CredentialsDecide, RightCredentialsAreTaken
  <1> QED
    BY <1>5, <1>6, <1>7, <1>8, <1>9, <1>10, <1>11

-----------------------------------------------------------------------------
(* Theorems *)

\* The inductive invariant of the calls, the accounts and the open inserts.
THEOREM RegistrationInvariant == Spec => []RegInv
  <1>1. Init => RegInv
    BY DEF Init, RegInv, TypeOK, Rows, Running, Answers, InsertInv, AccountInv,
       CallInv, LoggingIn, Answered, OneAccountPerAddress, ConflictIsTrue,
       CredentialsDecide, SessionIsOnes, RightCredentialsAreTaken
  <1>2. RegInv /\ [Next]_vars => RegInv'
    <2> SUFFICES ASSUME RegInv, [Next]_vars PROVE RegInv'
      OBVIOUS
    <2>1. CASE UNCHANGED vars
      <3>1. /\ TypeOK' /\ InsertInv' /\ AccountInv' /\ CallInv'
        BY <2>1 DEF vars, RegInv, TypeOK, InsertInv, AccountInv, CallInv, RowFor,
           NewRow, Taken
      <3>2. OneAccountPerAddress' /\ ConflictIsTrue' /\ CredentialsDecide'
        BY <2>1 DEF vars, RegInv, OneAccountPerAddress, ConflictIsTrue,
           CredentialsDecide, SessionIsOnes, RightCredentialsAreTaken, RowFor, NewRow
      <3> QED
        BY <3>1, <3>2 DEF RegInv
    <2>2. ASSUME NEW r \in Requests, Submit(r) \/ Serve(r) \/ Fail(r)
          PROVE  RegInv'
      BY <2>2, StepSubmit, StepFail, StepCheckRateLimit, StepIdempotencyCheck,
         StepInsert, StepCommit, StepLoad, StepSave, StepRespond DEF Serve
    <2>3. ASSUME NEW ip \in Ips, ExpireMarker(ip)
          PROVE  RegInv'
      BY <2>3, StepExpireMarker
    <2> QED
      BY <2>1, <2>2, <2>3, StepCrash DEF Next, Terminated
  <1> QED
    BY <1>1, <1>2, PTL DEF Spec

\* However many registrations race, and by whichever route, there is one account
\* for an address, whatever its capitals.
THEOREM OneAccount == Spec => []OneAccountPerAddress
  <1>1. RegInv => OneAccountPerAddress
    BY DEF RegInv
  <1> QED
    BY <1>1, RegistrationInvariant, PTL

\* Who is told that the account exists is told the truth.
THEOREM ConflictsTrue == Spec => []ConflictIsTrue
  <1>1. RegInv => ConflictIsTrue
    BY DEF RegInv
  <1> QED
    BY <1>1, RegistrationInvariant, PTL

\* The right credentials are enough, and nothing else is: a session is on the
\* account that the address and the password name, after Register on one's own.
THEOREM CredentialsAlwaysDecide == Spec => []CredentialsDecide
  <1>1. RegInv => CredentialsDecide
    BY DEF RegInv
  <1> QED
    BY <1>1, RegistrationInvariant, PTL
=============================================================================
