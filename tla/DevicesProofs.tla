---------------------------- MODULE DevicesProofs ----------------------------
(* Proofs about Devices for every set of tokens and calls, whatever they   *)
(* ask, beside everything Enrollment does.                                 *)
EXTENDS Devices, EnrollmentProofs

-----------------------------------------------------------------------------
(* The inductive invariant                                                 *)

\* Each call has sets of tokens, and what it has yet to send it has read.
Shape ==
    /\ sent \in [Call -> SUBSET Token] /\ invalid \in [Call -> SUBSET Token]
    /\ dying \in [Call -> SUBSET Token]
    /\ \A d \in Call : unsent[d] \subseteq batch[d]

\* What a call asks and has, by the statement it waits for.
StageOf(d) ==
    /\ cpc[d] \in {"project", "person", "upsert"} => Asked(d) = "register"
    /\ cpc[d] = "update" => Asked(d) = "unregister"
    /\ cpc[d] \in {"tokens", "send", "silence"} => Asked(d) = "push"
    /\ Asked(d) # "push" \/ cpc[d] \in {"idle", "tokens"} =>
          batch[d] = {} /\ invalid[d] = {} /\ dying[d] = {}
    /\ dying[d] # {} => cpc[d] \in {"silence", "failed"}
    /\ user[d] <= ids
    /\ \A c \in before[d] : Over(c)

Stages == \A d \in Call : StageOf(d)

\* The call c, not over before the call d began, registered t for n.
RegisteredSince(d, t, n) ==
    \E c \in Call \ before[d] : Registered(c, t) /\ user[c] = n

\* The call d has done with t what FCM told it to.
Told(d, t) == t \in invalid[d] \ dying[d] /\ cpc[d] # "send"

\* RegisteredStays of one call, but what a chunk says counts only once all
\* chunks have been sent: until then nothing has been deactivated.
StaysOf(c) ==
    Asked(c) = "register" /\ cpc[c] = "done" =>
        LET t == call[c].token IN
        \/ t \in active /\ holder[t] = user[c]
        \/ ~Exists(user[c])
        \/ \E d \in Call \ (before[c] \cup {c}) :
              \/ Registered(d, t)
              \/ Asked(d) = "unregister" /\ call[d].token = t /\ cpc[d] = "done"
              \/ Told(d, t)

Stays == \A c \in Call : StaysOf(c)

\* An active token was registered for its holder since it was last taken away.
Taken ==
    \A t \in active, c \in Call : TakenAway(c, t, holder[t]) => RegisteredSince(c, t, holder[t])

\* InvalidSilenced from the moment the deactivations begin.
SilencedOf(d) ==
    cpc[d] \in {"silence", "done"} =>
        \A t \in (invalid[d] \ dying[d]) \cap active :
            \E c \in Call \ before[d] : Registered(c, t)

Silenced == \A d \in Call : SilencedOf(d)

DInv ==
    IInv /\ DeviceTypeOK /\ Shape /\ Stages /\ Stays /\ Taken /\ Silenced /\ PushedOnlyToRegistered

-----------------------------------------------------------------------------
(* Steps of Enrollment                                                     *)

LEMMA CallTypes ==
    ASSUME call \in CallPlan, NEW d \in Call
    PROVE  /\ Asked(d) \in CallOperation /\ call[d].token \in Token
           /\ call[d].person \in Person /\ call[d].uid \in Uid
BY DevicesAssumption DEF Asked

\* A User row is new, gone or the same; ids only grow.
LEMMA NextAccounts ==
    ASSUME IInv, Next
    PROVE  /\ account' \in [Person -> Nat] /\ ids' \in Nat /\ ids <= ids'
           /\ \A x \in Person : account'[x] \in {0, account[x], ids + 1}
<1>1. TypeOK /\ TypeOK'
  BY NextIInv DEF IInv
<1>2. account \in [Person -> Nat] /\ ids \in Nat /\ account' \in [Person -> Nat] /\ ids' \in Nat
  BY <1>1 DEF TypeOK
<1> PICK r \in Request : Step(r)
  BY DEF Next
<1>3. CASE UpsertUser(r)
  BY <1>2, <1>3 DEF UpsertUser
<1>4. CASE CreateParticipant(r)
  BY <1>2, <1>4 DEF CreateParticipant
<1>5. CASE DeleteUser(r)
  BY <1>2, <1>5 DEF DeleteUser
<1>6. CASE CreateProject(r) \/ UpdateProject(r) \/ DeleteProject(r) \/ DeleteParticipant(r) \/ DeleteAdmin(r)
  BY <1>2, <1>6 DEF CreateProject, UpdateProject, DeleteProject, DeleteParticipant, DeleteAdmin,
     Looks, people
<1>7. CASE ~Writes(r)
  BY <1>2, <1>7, StepLooks DEF people
<1> QED
  BY <1>2, <1>3, <1>4, <1>5, <1>6, <1>7 DEF Writes

\* A deleted User row does not come back, and its tokens go with it.
LEMMA CascadeKeeps ==
    ASSUME IInv, DeviceTypeOK, EnrollmentStep
    PROVE  /\ \A n \in Nat : n <= ids /\ Exists(n)' => Exists(n)
           /\ holder' \in [Token -> Nat]
           /\ \A t \in Token : holder'[t] \in {0, holder[t]}
           /\ \A t \in Token : holder'[t] # 0 => \E x \in Person : account'[x] = holder'[t]
           /\ \A t \in Token, n \in Nat : holder[t] = n /\ Exists(n)' => holder'[t] = n
           /\ active' = {t \in active : holder'[t] # 0}
           /\ UNCHANGED <<call, found, user, unsent, batch, sent, invalid, dying, before, cpc>>
<1>1. account \in [Person -> Nat] /\ ids \in Nat /\ holder \in [Token -> Nat]
  BY DEF IInv, TypeOK, DeviceTypeOK
<1>2. /\ holder' = [t \in Token |-> IF \E x \in Person : account'[x] = holder[t] THEN holder[t] ELSE 0]
      /\ active' = {t \in active : holder'[t] # 0}
      /\ Next
  BY DEF EnrollmentStep, Cascade
<1>3. UNCHANGED <<call, found, user, unsent, batch, sent, invalid, dying, before, cpc>>
  BY DEF EnrollmentStep, calls
<1>4. \A n \in Nat : n <= ids /\ Exists(n)' => Exists(n)
  BY <1>1, <1>2, NextAccounts DEF Exists
<1>5. /\ holder' \in [Token -> Nat]
      /\ \A t \in Token : holder'[t] \in {0, holder[t]}
      /\ \A t \in Token : holder'[t] # 0 => \E x \in Person : account'[x] = holder'[t]
      /\ \A t \in Token, n \in Nat : holder[t] = n /\ Exists(n)' => holder'[t] = n
  BY <1>1, <1>2 DEF Exists
<1> QED
  BY <1>2, <1>3, <1>4, <1>5

-----------------------------------------------------------------------------
(* Steps of calls: types and stages                                        *)

\* What both need of the tables of Enrollment.
Rows == account \in [Person -> Nat] /\ member \in [Project \X Person -> Nat] /\ ids \in Nat
        /\ live \subseteq Project /\ (\A x \in Person : account[x] <= ids)

LEMMA RowsThere == IInv => Rows
<1>1. IInv => Rows
  BY DEF IInv, TypeOK, Numbers, Rows
<1> QED
  BY <1>1

LEMMA CallStepTypes ==
    ASSUME Rows, DeviceTypeOK, Shape, Stages, NEW d \in Call, CallStep(d), UNCHANGED vars
    PROVE  DeviceTypeOK' /\ Shape'
<1>0. call[d].token \in Token /\ call[d].person \in Person
  BY CallTypes DEF DeviceTypeOK
<1> USE <1>0 DEF Rows, DeviceTypeOK, Shape, Stages, StageOf, CallGoes, devices, calls, CallAwaiting,
        vars, people, projects
<1>1. CASE BeginCall(d)
  <2>1. cpc' \in [Call -> {"idle", "done", "failed"} \cup CallAwaiting]
    BY <1>1 DEF BeginCall
  <2>2. user' \in [Call -> Nat] /\ before' \in [Call -> SUBSET Call]
    BY <1>1 DEF BeginCall
  <2> QED
    BY <1>1, <2>1, <2>2 DEF BeginCall
<1>2. CASE FailCall(d)
  BY <1>2 DEF FailCall
<1>3. CASE RegisterFor(d)
  <2>1. cpc' \in [Call -> {"idle", "done", "failed"} \cup CallAwaiting]
    BY <1>3 DEF RegisterFor
  <2>2. found' \in [Call -> Project]
    BY <1>3 DEF RegisterFor, Named
  <2> QED
    BY <1>3, <2>1, <2>2 DEF RegisterFor
<1>4. CASE RegisterWhom(d)
  <2>1. cpc' \in [Call -> {"idle", "done", "failed"} \cup CallAwaiting]
    BY <1>4 DEF RegisterWhom
  <2>2. user' \in [Call -> Nat]
    BY <1>4 DEF RegisterWhom
  <2> QED
    BY <1>4, <2>1, <2>2 DEF RegisterWhom
<1>5. CASE RegisterToken(d)
  BY <1>5 DEF RegisterToken, Exists
<1>6. CASE RegisterTokenFails(d)
  BY <1>6 DEF RegisterTokenFails
<1>7. CASE Unregister(d)
  BY <1>7 DEF Unregister
<1>8. CASE ReadTokens(d)
  BY <1>8 DEF ReadTokens
<1>9. CASE SendChunk(d)
  BY <1>9 DEF SendChunk
<1>10. ASSUME NEW t \in Token, Silence(d, t) PROVE DeviceTypeOK' /\ Shape'
  BY <1>10 DEF Silence
<1>11. ASSUME NEW t \in Token, SilenceFails(d, t) PROVE DeviceTypeOK' /\ Shape'
  BY <1>11 DEF SilenceFails
<1> QED
  BY <1>1, <1>2, <1>3, <1>4, <1>5, <1>6, <1>7, <1>8, <1>9, <1>10, <1>11 DEF CallStep

LEMMA CallStepStages ==
    ASSUME Rows, DeviceTypeOK, Shape, Stages, NEW d \in Call, CallStep(d), UNCHANGED vars
    PROVE  Stages'
<1>0. call[d].token \in Token /\ call[d].person \in Person /\ Asked(d) \in CallOperation
  BY CallTypes DEF DeviceTypeOK
<1> USE <1>0 DEF CallOperation, Rows, DeviceTypeOK, Shape, Stages, StageOf, Over, Answered, Asked,
        CallGoes, devices, calls, CallAwaiting,
        vars, people, projects
<1>1. CASE BeginCall(d)
  BY <1>1 DEF BeginCall
<1>2. CASE FailCall(d)
  BY <1>2 DEF FailCall
<1>3. CASE RegisterFor(d)
  BY <1>3 DEF RegisterFor
<1>4. CASE RegisterWhom(d)
  BY <1>4 DEF RegisterWhom
<1>5. CASE RegisterToken(d)
  BY <1>5 DEF RegisterToken
<1>6. CASE RegisterTokenFails(d)
  BY <1>6 DEF RegisterTokenFails
<1>7. CASE Unregister(d)
  BY <1>7 DEF Unregister
<1>8. CASE ReadTokens(d)
  BY <1>8 DEF ReadTokens
<1>9. CASE SendChunk(d)
  BY <1>9 DEF SendChunk
<1>10. ASSUME NEW t \in Token, Silence(d, t) PROVE Stages'
  BY <1>10 DEF Silence
<1>11. ASSUME NEW t \in Token, SilenceFails(d, t) PROVE Stages'
  BY <1>11 DEF SilenceFails
<1> QED
  BY <1>1, <1>2, <1>3, <1>4, <1>5, <1>6, <1>7, <1>8, <1>9, <1>10, <1>11 DEF CallStep

-----------------------------------------------------------------------------
(* Steps of calls: what stays                                              *)

\* What has happened stays so.
Settled ==
    /\ call' = call
    /\ \A c \in Call :
          /\ Answered(c) => cpc'[c] = cpc[c] \/ dying[c] # {}
          /\ cpc[c] = "done" => cpc'[c] = "done"
          /\ Over(c) => Over(c)'
          /\ cpc[c] # "idle" => before'[c] = before[c]
          /\ Answered(c) \/ batch[c] # {} => user'[c] = user[c] /\ batch'[c] = batch[c]
          /\ \A t \in Token : Told(c, t) => Told(c, t)'

LEMMA CallStepSettles ==
    ASSUME DeviceTypeOK, Shape, Stages, NEW d \in Call, CallStep(d)
    PROVE  Settled
<1> USE DEF DeviceTypeOK, Shape, Stages, StageOf, Over, Answered, Told, Settled, CallGoes, calls,
        CallAwaiting
<1>1. CASE BeginCall(d)
  BY <1>1 DEF BeginCall
<1>2. CASE FailCall(d)
  BY <1>2 DEF FailCall
<1>3. CASE RegisterFor(d)
  BY <1>3 DEF RegisterFor
<1>4. CASE RegisterWhom(d)
  BY <1>4 DEF RegisterWhom
<1>5. CASE RegisterToken(d)
  BY <1>5 DEF RegisterToken
<1>6. CASE RegisterTokenFails(d)
  BY <1>6 DEF RegisterTokenFails
<1>7. CASE Unregister(d)
  BY <1>7 DEF Unregister
<1>8. CASE ReadTokens(d)
  BY <1>8 DEF ReadTokens
<1>9. CASE SendChunk(d)
  BY <1>9 DEF SendChunk
<1>10. ASSUME NEW t \in Token, Silence(d, t) PROVE Settled
  BY <1>10 DEF Silence
<1>11. ASSUME NEW t \in Token, SilenceFails(d, t) PROVE Settled
  BY <1>11 DEF SilenceFails
<1> QED
  BY <1>1, <1>2, <1>3, <1>4, <1>5, <1>6, <1>7, <1>8, <1>9, <1>10, <1>11 DEF CallStep

\* Who ends a registration, who reads tokens and who changes their rows.
LEMMA CallStepWrites ==
    ASSUME DeviceTypeOK, Shape, Stages, NEW d \in Call, CallStep(d)
    PROVE  /\ \A c \in Call :
                 /\ Asked(c) = "register" /\ cpc'[c] = "done" =>
                       cpc[c] = "done" \/ (c = d /\ RegisterToken(d))
                 /\ Asked(c) = "unregister" /\ cpc'[c] = "done" =>
                       cpc[c] = "done" \/ (c = d /\ Unregister(d))
                 /\ batch'[c] = batch[c] \/ (c = d /\ ReadTokens(d))
           /\ \/ UNCHANGED devices
              \/ RegisterToken(d) \/ Unregister(d)
              \/ \E t \in Token : Silence(d, t)
<1> DEFINE Ends ==
        \A c \in Call :
            /\ Asked(c) = "register" /\ cpc'[c] = "done" =>
                  cpc[c] = "done" \/ (c = d /\ RegisterToken(d))
            /\ Asked(c) = "unregister" /\ cpc'[c] = "done" =>
                  cpc[c] = "done" \/ (c = d /\ Unregister(d))
            /\ batch'[c] = batch[c] \/ (c = d /\ ReadTokens(d))
<1>a. UNCHANGED devices \/ RegisterToken(d) \/ Unregister(d) \/ \E t \in Token : Silence(d, t)
  BY DEF CallStep, BeginCall, FailCall, RegisterFor, RegisterWhom, RegisterTokenFails, ReadTokens,
     SendChunk,
         SilenceFails, devices
<1>b. Ends
  <2> USE DEF DeviceTypeOK, Shape, Stages, StageOf, CallGoes, CallAwaiting, calls
  <2>1. CASE BeginCall(d)
    BY <2>1 DEF BeginCall
  <2>2. CASE FailCall(d)
    BY <2>2 DEF FailCall
  <2>3. CASE RegisterFor(d)
    BY <2>3 DEF RegisterFor
  <2>4. CASE RegisterWhom(d)
    BY <2>4 DEF RegisterWhom
  <2>5. CASE RegisterToken(d)
    BY <2>5 DEF RegisterToken
  <2>6. CASE RegisterTokenFails(d)
    BY <2>6 DEF RegisterTokenFails
  <2>7. CASE Unregister(d)
    BY <2>7 DEF Unregister
  <2>8. CASE ReadTokens(d)
    BY <2>8 DEF ReadTokens
  <2>9. CASE SendChunk(d)
    BY <2>9 DEF SendChunk
  <2>10. ASSUME NEW t \in Token, Silence(d, t) PROVE Ends
    BY <2>10 DEF Silence
  <2>11. ASSUME NEW t \in Token, SilenceFails(d, t) PROVE Ends
    BY <2>11 DEF SilenceFails
  <2> QED
    BY <2>1, <2>2, <2>3, <2>4, <2>5, <2>6, <2>7, <2>8, <2>9, <2>10, <2>11 DEF CallStep
<1> QED
  BY <1>a, <1>b

-----------------------------------------------------------------------------
(* Steps of calls: the properties                                          *)

LEMMA Recorded ==
    ASSUME Settled, NEW c \in Call, NEW t \in Token
    PROVE  /\ Asked(c)' = Asked(c) /\ call'[c].token = call[c].token
           /\ Registered(c, t) => Registered(c, t)'
BY DEF Settled, Registered, Asked

\* A call that takes a token, gives it away or silences it has not been over.
LEMMA CallStepStays ==
    ASSUME Rows, DeviceTypeOK, Shape, Stages, Stays, NEW d \in Call, CallStep(d), UNCHANGED vars
    PROVE  Stays'
<1> SUFFICES ASSUME NEW c \in Call, Asked(c) = "register", cpc'[c] = "done" PROVE StaysOf(c)'
  BY CallStepSettles, Recorded DEF Stays, StaysOf, Settled, Asked
<1> DEFINE t == call[c].token
<1>1. Settled /\ t \in Token
  BY CallStepSettles, CallTypes DEF DeviceTypeOK
<1>2. call' = call /\ \A n : Exists(n)' <=> Exists(n)
  BY <1>1 DEF Settled, Exists, vars, people
<1>3. CASE cpc[c] # "done"
  <2>1. c = d /\ RegisterToken(d)
    BY <1>3, CallStepWrites
  <2>2. t \in active' /\ holder'[t] = user'[c]
    BY <1>1, <2>1 DEF RegisterToken, DeviceTypeOK, calls
  <2> QED
    BY <1>2, <2>2 DEF StaysOf
<1>4. CASE cpc[c] = "done"
  <2>1. /\ user'[c] = user[c] /\ before'[c] = before[c]
        /\ \A e \in Call : cpc[e] = "done" => cpc'[e] = "done"
        /\ \A e \in Call : Told(e, t) => Told(e, t)'
    BY <1>1, <1>4 DEF Settled, Answered
  <2>2. CASE ~Exists(user[c])
    BY <1>2, <2>1, <2>2 DEF StaysOf
  <2>3. CASE \E e \in Call \ (before[c] \cup {c}) :
                \/ Registered(e, t)
                \/ Asked(e) = "unregister" /\ call[e].token = t /\ cpc[e] = "done"
                \/ Told(e, t)
    <3> PICK e \in Call \ (before[c] \cup {c}) :
                \/ Registered(e, t)
                \/ Asked(e) = "unregister" /\ call[e].token = t /\ cpc[e] = "done"
                \/ Told(e, t)
      BY <2>3
    <3>1. \/ Registered(e, t)'
          \/ (Asked(e) = "unregister" /\ call[e].token = t /\ cpc[e] = "done")'
          \/ Told(e, t)'
      BY <1>1, <1>2, <2>1, Recorded DEF Asked
    <3>2. e \in Call \ (before'[c] \cup {c})
      BY <2>1
    <3> QED
      BY <1>2, <3>1, <3>2 DEF StaysOf
  <2>4. CASE t \in active /\ holder[t] = user[c]
    <3>1. CASE UNCHANGED devices
      BY <1>2, <2>1, <2>4, <3>1 DEF StaysOf, devices
    <3>2. CASE ~UNCHANGED devices /\ ~(t \in active' /\ holder'[t] = user'[c])
      <4>1. cpc[d] \in {"upsert", "update"} \/ dying[d] # {}
        BY <3>2, CallStepWrites DEF RegisterToken, Unregister, Silence, CallGoes
      <4>2. d \notin before[c] /\ d # c
        BY <1>4, <4>1 DEF Stages, StageOf, Over, Answered
      <4>3. \/ Registered(d, t)'
            \/ (Asked(d) = "unregister" /\ call[d].token = t /\ cpc[d] = "done")'
            \/ Told(d, t)'
        <5>1. CASE RegisterToken(d)
          BY <1>2, <2>1, <2>4, <3>2, <5>1 DEF RegisterToken, CallGoes, Registered, Asked, Stages,
             StageOf, DeviceTypeOK, calls
        <5>2. CASE Unregister(d)
          BY <1>2, <2>1, <2>4, <3>2, <5>2 DEF Unregister, CallGoes, Asked, Stages, StageOf,
             DeviceTypeOK, calls
        <5>3. ASSUME NEW u \in Token, Silence(d, u) PROVE Told(d, t)'
          BY <1>2, <2>1, <2>4, <3>2, <5>3 DEF Silence, Told, Stages, StageOf, DeviceTypeOK, Shape
        <5> QED
          BY <3>2, <5>1, <5>2, <5>3, CallStepWrites
      <4> QED
        BY <1>2, <2>1, <4>2, <4>3 DEF StaysOf
    <3>3. CASE t \in active' /\ holder'[t] = user'[c]
      BY <1>2, <3>3 DEF StaysOf
    <3> QED
      BY <3>1, <3>2, <3>3
  <2> QED
    BY <1>4, <2>2, <2>3, <2>4 DEF Stays, StaysOf
<1> QED
  BY <1>3, <1>4

\* Nothing but a deactivation takes a token from those a call has told of.
LEMMA CallStepTells ==
    ASSUME DeviceTypeOK, Shape, Stages, NEW d \in Call, CallStep(d), NEW c \in Call,
           cpc'[c] \in {"silence", "done"}, NEW t \in (invalid'[c] \ dying'[c]) \cap active'
    PROVE  cpc[c] \in {"silence", "done"} /\ t \in invalid[c] \ dying[c]
<1> DEFINE Was == cpc[c] \in {"silence", "done"} /\ t \in invalid[c] \ dying[c]
<1> SUFFICES Was
  OBVIOUS
<1> USE DEF DeviceTypeOK, Shape, Stages, StageOf, CallGoes, calls, CallAwaiting
<1>1. CASE BeginCall(d)
  BY <1>1 DEF BeginCall
<1>2. CASE FailCall(d)
  BY <1>2 DEF FailCall
<1>3. CASE RegisterFor(d)
  BY <1>3 DEF RegisterFor
<1>4. CASE RegisterWhom(d)
  BY <1>4 DEF RegisterWhom
<1>5. CASE RegisterToken(d)
  BY <1>5 DEF RegisterToken
<1>6. CASE RegisterTokenFails(d)
  BY <1>6 DEF RegisterTokenFails
<1>7. CASE Unregister(d)
  BY <1>7 DEF Unregister
<1>8. CASE ReadTokens(d)
  BY <1>8 DEF ReadTokens
<1>9. CASE SendChunk(d)
  BY <1>9 DEF SendChunk
<1>10. ASSUME NEW u \in Token, Silence(d, u) PROVE Was
  BY <1>10 DEF Silence
<1>11. ASSUME NEW u \in Token, SilenceFails(d, u) PROVE Was
  BY <1>11 DEF SilenceFails
<1> QED
  BY <1>1, <1>2, <1>3, <1>4, <1>5, <1>6, <1>7, <1>8, <1>9, <1>10, <1>11 DEF CallStep

LEMMA CallStepSilenced ==
    ASSUME Rows, DeviceTypeOK, Shape, Stages, Silenced, NEW d \in Call, CallStep(d), UNCHANGED vars
    PROVE  Silenced'
<1> SUFFICES ASSUME NEW c \in Call, cpc'[c] \in {"silence", "done"},
                    NEW t \in (invalid'[c] \ dying'[c]) \cap active'
             PROVE  \E e \in Call \ before'[c] : Registered(e, t)'
  BY DEF Silenced, SilencedOf
<1>1. Settled /\ t \in Token
  BY CallStepSettles, CallStepTypes DEF Shape
<1>2. cpc[c] \in {"silence", "done"} /\ t \in invalid[c] \ dying[c]
  BY CallStepTells
<1>3. before'[c] = before[c]
  BY <1>1, <1>2 DEF Settled
<1>4. CASE t \in active
  <2>1. PICK e \in Call \ before[c] : Registered(e, t)
    BY <1>2, <1>4 DEF Silenced, SilencedOf
  <2> QED
    BY <1>1, <1>3, <2>1, Recorded
<1>5. CASE t \notin active
  <2>1. RegisterToken(d) /\ t = call[d].token
    BY <1>5, CallStepWrites DEF devices, RegisterToken, Unregister, Silence
  <2>2. cpc[d] = "upsert" /\ cpc'[d] = "done" /\ Asked(d) = "register" /\ d \notin before[c]
    BY <2>1 DEF RegisterToken, CallGoes, Stages, StageOf, Over, Answered, DeviceTypeOK
  <2> QED
    BY <1>1, <1>3, <2>1, <2>2, Recorded DEF Registered, Settled
<1> QED
  BY <1>4, <1>5

LEMMA SinceStays ==
    ASSUME Settled, DeviceTypeOK, NEW c \in Call, cpc[c] # "idle", NEW t \in Token, NEW n,
           RegisteredSince(c, t, n)
    PROVE  \E b \in Call \ before'[c] : Registered(b, t)' /\ user'[b] = n
<1> PICK b \in Call \ before[c] : Registered(b, t) /\ user[b] = n
  BY DEF RegisteredSince
<1>1. Registered(b, t)' /\ Answered(b)
  BY Recorded DEF Registered, Answered
<1> QED
  BY <1>1 DEF Settled

LEMMA CallStepTaken ==
    ASSUME Rows, DeviceTypeOK, Shape, Stages, Taken, NEW d \in Call, CallStep(d), UNCHANGED vars
    PROVE  Taken'
<1> SUFFICES ASSUME NEW t \in active', NEW c \in Call, TakenAway(c, t, holder[t])'
             PROVE  \E b \in Call \ before'[c] : Registered(b, t)' /\ user'[b] = holder'[t]
  BY DEF Taken, RegisteredSince
<1>1. Settled /\ t \in Token /\ Asked(c)' = Asked(c) /\ call' = call
  BY CallStepSettles, CallStepTypes DEF DeviceTypeOK, Settled, Asked
<1>2. CASE RegisterToken(d) /\ t = call[d].token
  <2>1. /\ cpc[d] = "upsert" /\ cpc'[d] = "done" /\ Asked(d) = "register"
        /\ holder'[t] = user[d] /\ user' = user /\ before' = before
        /\ \A e \in Call \ {d} : cpc'[e] = cpc[e]
    BY <1>1, <1>2 DEF RegisterToken, CallGoes, Stages, StageOf, DeviceTypeOK, calls
  <2>2. c # d
    BY <1>1, <2>1 DEF TakenAway, Registered
  <2>3. d \notin before[c]
    BY <2>1 DEF Stages, StageOf, Over, Answered
  <2> QED
    BY <1>1, <1>2, <2>1, <2>3 DEF Registered, Asked
<1>3. CASE ~(RegisterToken(d) /\ t = call[d].token)
  <2>1. t \in active /\ holder'[t] = holder[t]
    BY <1>1, <1>3, CallStepWrites DEF devices, RegisterToken, Unregister, Silence, DeviceTypeOK
  <2>2. cpc[c] = "done" /\ TakenAway(c, t, holder[t])
    <3>1. cpc'[c] = "done" /\ call[c].token = t /\ Asked(c) \in {"register", "unregister"}
      BY <1>1 DEF TakenAway, Registered, Asked
    <3>2. ~(c = d /\ Unregister(d))
      BY <3>1 DEF Unregister
    <3>3. cpc[c] = "done"
      BY <1>3, <3>1, <3>2, CallStepWrites
    <3>4. user'[c] = user[c]
      BY <1>1, <3>3 DEF Settled, Answered
    <3> QED
      BY <1>1, <2>1, <3>3, <3>4 DEF TakenAway, Registered, Asked
  <2>3. RegisteredSince(c, t, holder[t])
    BY <2>1, <2>2 DEF Taken
  <2> QED
    BY <1>1, <2>1, <2>2, <2>3, SinceStays
<1> QED
  BY <1>2, <1>3

LEMMA CallStepPushed ==
    ASSUME Rows, DeviceTypeOK, Shape, Stages, Taken, PushedOnlyToRegistered,
           NEW d \in Call, CallStep(d), UNCHANGED vars
    PROVE  PushedOnlyToRegistered'
<1> SUFFICES ASSUME NEW e \in Call, NEW t \in batch'[e], NEW c \in before'[e], TakenAway(c, t, user[e])'
             PROVE  \E b \in Call \ before'[c] : Registered(b, t)' /\ user'[b] = user'[e]
  BY DEF PushedOnlyToRegistered
<1>1. Settled /\ t \in Token /\ c \in Call /\ call' = call
  BY CallStepSettles, CallStepTypes DEF DeviceTypeOK, Settled
<1>2. cpc[e] # "idle"
  BY <1>1, CallStepWrites DEF ReadTokens, CallGoes, Stages, StageOf
<1>3. before'[e] = before[e] /\ Over(c) /\ cpc'[c] = cpc[c] /\ user'[c] = user[c]
  BY <1>1, <1>2 DEF Settled, Stages, StageOf, Over
<1>4. user'[e] = user[e]
  BY <1>1, CallStepWrites DEF Settled, ReadTokens, calls
<1>5. TakenAway(c, t, user[e])
  BY <1>1, <1>3, <1>4 DEF TakenAway, Registered, Asked
<1>6. RegisteredSince(c, t, user[e])
  <2>1. CASE batch'[e] = batch[e]
    BY <1>3, <1>5, <2>1 DEF PushedOnlyToRegistered, RegisteredSince
  <2>2. CASE ReadTokens(d) /\ e = d
    <3>1. t \in active /\ holder[t] = user[e]
      BY <2>2 DEF ReadTokens, DeviceTypeOK
    <3> QED
      BY <1>1, <1>5, <3>1 DEF Taken
  <2> QED
    BY <2>1, <2>2, CallStepWrites
<1> QED
  BY <1>1, <1>3, <1>4, <1>6, SinceStays DEF Over, Answered

-----------------------------------------------------------------------------
(* Steps of Enrollment: the properties                                     *)

LEMMA EnrollmentStepKeeps ==
    ASSUME DInv, EnrollmentStep
    PROVE  DInv'
<1>0. Next /\ IInv' /\ ids \in Nat /\ ids' \in Nat /\ ids <= ids' /\ user \in [Call -> Nat]
  BY NextIInv, NextAccounts DEF DInv, EnrollmentStep, IInv, TypeOK, DeviceTypeOK
<1> USE CascadeKeeps DEF DInv
<1>1. DeviceTypeOK' /\ Shape'
  BY DEF DeviceTypeOK, Shape
<1>2. Stages'
  BY <1>0 DEF Stages, StageOf, Over, Answered, Asked, DeviceTypeOK
<1>3. Stays'
  <2> SUFFICES ASSUME NEW c \in Call, Asked(c) = "register", cpc[c] = "done" PROVE StaysOf(c)'
    BY DEF Stays, StaysOf, Asked
  <2>1. user[c] \in Nat /\ user[c] <= ids /\ call[c].token \in Token
    BY <1>0, CallTypes DEF Stages, StageOf, DeviceTypeOK
  <2>2. CASE ~Exists(user[c])
    <3>1. ~Exists(user[c])'
      BY <2>1, <2>2
    <3> QED
      BY <3>1 DEF StaysOf
  <2>3. CASE call[c].token \in active /\ holder[call[c].token] = user[c]
    <3>1. CASE Exists(user[c])'
      <4>1. user'[c] = user[c] /\ user[c] # 0
        BY <3>1 DEF Exists
      <4>2. call[c].token \in active' /\ holder'[call[c].token] = user'[c]
        BY <2>1, <2>3, <3>1, <4>1
      <4> QED
        BY <4>2 DEF StaysOf
    <3>2. CASE ~Exists(user[c])'
      BY <3>2 DEF StaysOf
    <3> QED
      BY <3>1, <3>2
  <2>4. CASE \E d \in Call \ (before[c] \cup {c}) :
                \/ Registered(d, call[c].token)
                \/ Asked(d) = "unregister" /\ call[d].token = call[c].token /\ cpc[d] = "done"
                \/ Told(d, call[c].token)
    BY <2>4 DEF StaysOf, Registered, Told, Asked
  <2> QED
    BY <2>2, <2>3, <2>4 DEF Stays, StaysOf
<1>4. Taken'
  BY DEF Taken, TakenAway, RegisteredSince, Registered, Asked, DeviceTypeOK
<1>5. Silenced'
  BY DEF Silenced, SilencedOf, Registered, Asked
<1>6. PushedOnlyToRegistered'
  BY DEF PushedOnlyToRegistered, TakenAway, Registered, Asked
<1> QED
  BY <1>0, <1>1, <1>2, <1>3, <1>4, <1>5, <1>6

-----------------------------------------------------------------------------
(* Theorems                                                                *)

LEMMA InitDInv == DeviceInit => DInv
<1> SUFFICES ASSUME DeviceInit PROVE DInv
  OBVIOUS
<1>1. IInv
  BY InitIInv DEF DeviceInit
<1>2. live \subseteq Project /\ ids = 0
  BY DEF DeviceInit, Init
<1> USE DEF DeviceInit
<1>3. DeviceTypeOK /\ Shape
  BY <1>2 DEF DeviceTypeOK, Shape
<1>4. Stages
  BY <1>2 DEF Stages, StageOf
<1>5. Stays /\ Taken /\ Silenced /\ PushedOnlyToRegistered
  BY DEF Stays, StaysOf, Taken, Silenced, SilencedOf, PushedOnlyToRegistered
<1> QED
  BY <1>1, <1>3, <1>4, <1>5 DEF DInv

LEMMA NextDInv == DInv /\ [DeviceNext]_<<vars, deviceVars>> => DInv'
<1> SUFFICES ASSUME DInv, [DeviceNext]_<<vars, deviceVars>> PROVE DInv'
  OBVIOUS
<1>1. CASE EnrollmentStep
  BY <1>1, EnrollmentStepKeeps
<1>2. ASSUME NEW d \in Call, CallStep(d), UNCHANGED vars PROVE DInv'
  <2>1. IInv' /\ Rows
    BY <1>2, SameIInv, RowsThere DEF DInv
  <2> QED
    BY <1>2, <2>1, CallStepTypes, CallStepStages, CallStepStays, CallStepTaken, CallStepSilenced,
       CallStepPushed DEF DInv
<1>3. CASE UNCHANGED <<vars, deviceVars>>
  <2>1. IInv' /\ UNCHANGED <<account, ids>>
    BY <1>3, SameIInv DEF DInv, vars, people
  <2>2. DeviceTypeOK' /\ Shape' /\ Stages'
    BY <1>3, <2>1 DEF DInv, deviceVars, devices, calls, DeviceTypeOK, Shape, Stages, StageOf, Over,
       Answered, Asked
  <2>3. Stays' /\ Taken' /\ Silenced' /\ PushedOnlyToRegistered'
    BY <1>3, <2>1 DEF DInv, deviceVars, devices, calls, Stays, StaysOf, Taken, TakenAway,
       RegisteredSince,
       Registered, Told, Silenced, SilencedOf, PushedOnlyToRegistered, Asked, Exists
  <2> QED
    BY <2>1, <2>2, <2>3 DEF DInv
<1> QED
  BY <1>1, <1>2, <1>3 DEF DeviceNext

\* The invariant above holds in every state of the calls beside Enrollment.
THEOREM DeviceInvariant == DeviceSpec => []DInv
BY InitDInv, NextDInv, PTL DEF DeviceSpec

\* The keys of projects and memberships hold beside the calls too, every token
\* belongs to a user there is or has no row, and a push knows of its tokens
\* no more than it has sent.
THEOREM DevicesTyped == DeviceSpec => []TypesOK
<1>1. DInv => TypesOK
  BY DEF DInv, IInv, TypesOK
<1> QED
  BY <1>1, DeviceInvariant, PTL

\* A registration that has been answered holds until its user or a call
\* that overlapped or followed it undoes it.
THEOREM RegistrationsStay == DeviceSpec => []RegisteredStays
<1>1. DInv => RegisteredStays
  BY DEF DInv, Stays, StaysOf, RegisteredStays, Told, Exists, Registered
<1> QED
  BY <1>1, DeviceInvariant, PTL

\* A push reads only tokens registered for its user since a call answered
\* before it began took them away.
THEOREM PushesRegistered == DeviceSpec => []PushedOnlyToRegistered
<1>1. DInv => PushedOnlyToRegistered
  BY DEF DInv
<1> QED
  BY <1>1, DeviceInvariant, PTL

\* What a successful push was told is invalid is active only if it has been
\* registered since the push began.
THEOREM InvalidTokensSilenced == DeviceSpec => []InvalidSilenced
<1>1. DInv => InvalidSilenced
  BY DEF DInv, Silenced, SilencedOf, InvalidSilenced, Stages, StageOf, DeviceTypeOK
<1> QED
  BY <1>1, DeviceInvariant, PTL

=============================================================================
