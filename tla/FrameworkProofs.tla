--------------------------- MODULE FrameworkProofs ---------------------------
(***************************************************************************)
(* Proofs about a bot at work: the types of its state, what a login or a   *)
(* logout that has the credentials to itself leaves in the slot, and that  *)
(* every handler runs for what it was declared for.                        *)
(*                                                                         *)
(* What frames and answers decode to is a constant here.  That it is what  *)
(* was said, and meant, is a hypothesis of the theorems that need it, and  *)
(* nothing else is asked of it.                                            *)
(***************************************************************************)
EXTENDS Framework, TLAPS

\* Calls are told what the server meant.
ToldAsMeant == \A op \in Ops : \A o \in Outcomes[op] : o.told = o.meant

\* Frames decode to what was said, and lookups of roles to who was meant.
HeardAsSaid ==
  /\ \A frame \in Sent : frame.event = frame.said
  /\ \A answer \in RoleAnswers : answer.told = answer.meant

-----------------------------------------------------------------------------
(* What a call that nobody disturbs knows of the slot.                     *)

CallFollows(t) ==
  LET c == call[t] IN
  /\ c.stage = "answered" => c.answer.told = c.answer.meant
  /\ c.stage # "idle" /\ t \notin disturbed =>
       /\ c.op = "pat" => slot = c.given /\ c.given # None /\ c.previous = c.found
       /\ c.op # "pat" => slot = c.found
       /\ c.op = "pat" /\ c.stage \in {"sent", "answered"} => c.sent = c.given

CallsFollow == \A t \in Tasks : CallFollows(t)

-----------------------------------------------------------------------------
(* What a dispatch has still to do, and what it has done: the handlers it  *)
(* is past were called if and only if they were to run.                    *)

Heard(w, n) == w.called = {i \in 1 .. n : ShouldRun(Handlers[i], w.said)} \ w.refused

UnderWay == {"offering", "asking", "calling"}

WorkFollows(w) ==
  /\ w.stage # "idle" => bot = "up" /\ w.event = w.said
  /\ w.stage \in UnderWay =>
       /\ w.at \in 1 .. Len(Handlers) /\ w.event # Nothing
       /\ w.called \cup w.refused \subseteq 1 .. w.at - 1
       /\ ~doubtful => Heard(w, w.at - 1)
  /\ w.stage = "asking" => Filterable(w.event)
  /\ w.stage \in {"asking", "calling"} /\ Filterable(w.event) =>
       me # Unset /\ ~LocallyFiltered(Handlers[w.at], w.event)
  /\ w.stage = "done" /\ ~doubtful => Heard(w, w.at)

\* `me' is read once, while the identity no longer changes.
MeFollows ==
  /\ bot # "up" => me = Unset
  /\ me = Unset => ~doubtful
  /\ me # Unset => (doubtful <=> me # identity)

DispatchFollows == MeFollows /\ \A d \in Dispatchers : WorkFollows(work[d])

-----------------------------------------------------------------------------
(* The credentials.                                                        *)

LEMMA OwnerTyped ==
  ASSUME NEW t \in Slots PROVE Owner(t) \in Accounts \cup {None}
BY RestAssumption DEF Slots, Tokens, Owner

\* The bot makes its calls as anybody does, and the rest of it makes none.
LEMMA RestMoves ==
  ASSUME Main \in Tasks, Next PROVE RestNext \/ UNCHANGED restVars
<1>1. CASE Connect
  BY <1>1 DEF Connect, RestNext, TaskNext
<1>2. CASE Connecting
  BY <1>2 DEF Connecting, RestNext, TaskNext
<1>3. CASE Connected
  BY <1>3 DEF Connected, RestNext, TaskNext
<1>4. CASE ConnectFails
  BY <1>4 DEF ConnectFails, RestNext, TaskNext
<1>5. CASE UseRest
  BY <1>5 DEF UseRest
<1>6. ASSUME NEW d \in Dispatchers, Dispatch(d) PROVE UNCHANGED restVars
  BY <1>6 DEF Dispatch, TakeFrame, TakeResubscribed, ReadMe, Filter, AskDirectory,
              CallHandler, HandlerPanics
<1> QED BY <1>1, <1>2, <1>3, <1>4, <1>5, <1>6 DEF Next

LEMMA AnswersTyped ==
  ASSUME NEW op \in Ops, NEW results, NEW o \in Answers(op, results)
  PROVE  o \in UNION {Outcomes[p] : p \in Ops}
BY DEF Answers

\* A step of one call changes the record of that call alone.
Changed(t, c) == call' = [call EXCEPT ![t] = c]

LEMMA CallsTyped ==
  ASSUME RestTypeOK, NEW t \in Tasks, NEW c \in Calls, Changed(t, c)
  PROVE  call' \in [Tasks -> Calls]
BY DEF RestTypeOK, Changed

LEMMA IdleTyped == Idle \in Calls
BY DEF Idle, Calls, Ops, Stages, Slots

(* What each step does, with the record it leaves spelled out.             *)
LEMMA LoginByTokenDoes ==
  ASSUME RestTypeOK, NEW t \in Tasks, NEW token \in DOMAIN Issued, LoginByToken(t, token)
  PROVE  \E c \in Calls :
           /\ Changed(t, c) /\ Write(token, t) /\ valid' = valid
           /\ c.op = "pat" /\ c.stage = "asking" /\ c.given = token /\ c.previous = c.found
<1>1. PICK c : c = [Idle EXCEPT !.op = "pat", !.stage = "asking", !.given = token,
                                !.found = slot, !.previous = slot]
  OBVIOUS
<1>2. c \in Calls
  BY <1>1, IdleTyped DEF Calls, Ops, Stages, Slots, Tokens, RestTypeOK
<1>3. c.op = "pat" /\ c.stage = "asking" /\ c.given = token /\ c.previous = c.found
  BY <1>1 DEF Idle
<1> QED BY <1>1, <1>2, <1>3 DEF LoginByToken, Changed

LEMMA BeginDoes ==
  ASSUME RestTypeOK, NEW t \in Tasks, NEW op \in Ops, NEW stage \in Stages, Begin(t, op, stage)
  PROVE  \E c \in Calls : Changed(t, c) /\ c.op = op /\ c.stage = stage /\ c.found = slot
<1>1. PICK c : c = [Idle EXCEPT !.op = op, !.stage = stage, !.found = slot]
  OBVIOUS
<1>2. c \in Calls
  BY <1>1, IdleTyped DEF Calls, RestTypeOK
<1>3. c.op = op /\ c.stage = stage /\ c.found = slot
  BY <1>1 DEF Idle
<1> QED BY <1>1, <1>2, <1>3 DEF Begin, Changed

LEMMA SendDoes ==
  ASSUME RestTypeOK, NEW t \in Tasks, Send(t)
  PROVE  \E c \in Calls :
           /\ Changed(t, c) /\ UNCHANGED <<slot, valid, disturbed>>
           /\ call[t].stage = "asking"
           /\ c.op = call[t].op /\ c.given = call[t].given
           /\ c.previous = call[t].previous /\ c.found = call[t].found
           /\ \/ slot = None /\ c.stage = "answered" /\ c.answer = Failing("NotAuthenticated")
              \/ c.stage = "sent" /\ c.sent = slot
<1>1. PICK c : c = IF slot = None
                THEN [call[t] EXCEPT !.stage = "answered", !.answer = Failing("NotAuthenticated")]
                ELSE [call[t] EXCEPT !.stage = "sent", !.sent = slot]
  OBVIOUS
<1>2. call[t] \in Calls /\ slot \in Slots
  BY DEF RestTypeOK
<1>3. c \in Calls
  BY <1>1, <1>2 DEF Calls, Stages
<1>4. /\ c.op = call[t].op /\ c.given = call[t].given
      /\ c.previous = call[t].previous /\ c.found = call[t].found
      /\ \/ slot = None /\ c.stage = "answered" /\ c.answer = Failing("NotAuthenticated")
         \/ c.stage = "sent" /\ c.sent = slot
  BY <1>1, <1>2 DEF Calls
<1> QED BY <1>1, <1>3, <1>4 DEF Send, Changed

LEMMA AnswerDoes ==
  ASSUME RestTypeOK, NEW t \in Tasks, NEW op \in Ops, NEW results, NEW given \in Slots,
         Answer(t, given, Answers(op, results))
  PROVE  \E c \in Calls :
           /\ Changed(t, c) /\ c.stage = "answered" /\ c.op = call[t].op /\ c.given = given
           /\ c.sent = call[t].sent /\ c.previous = call[t].previous /\ c.found = call[t].found
           /\ c.answer \in Outcomes[op]
<1>1. PICK o \in Answers(op, results) :
        call' = [call EXCEPT ![t].stage = "answered", ![t].given = given, ![t].answer = o]
  BY DEF Answer
<1>2. PICK c : c = [call[t] EXCEPT !.stage = "answered", !.given = given, !.answer = o]
  OBVIOUS
<1>3. call[t] \in Calls /\ call \in [Tasks -> Calls]
  BY DEF RestTypeOK
<1>4. o \in Outcomes[op] /\ o \in UNION {Outcomes[p] : p \in Ops}
  BY <1>1, AnswersTyped DEF Answers
<1>5. c \in Calls
  BY <1>2, <1>3, <1>4 DEF Calls, Stages
<1>6. /\ c.stage = "answered" /\ c.op = call[t].op /\ c.given = given
      /\ c.sent = call[t].sent /\ c.previous = call[t].previous /\ c.found = call[t].found
      /\ c.answer = o
  BY <1>2, <1>3 DEF Calls
<1>7. Changed(t, c)
  BY <1>1, <1>2, <1>3 DEF Changed
<1> QED BY <1>4, <1>5, <1>6, <1>7

\* The steps of a call: it begins, it sends, it is answered, it is over.
LEMMA TaskNextDoes ==
  ASSUME NEW t \in Tasks, TaskNext(t)
  PROVE  \/ \E token \in DOMAIN Issued : LoginByToken(t, token)
         \/ LoginByPassword(t) \/ Logout(t) \/ Send(t)
         \/ ServeMe(t) \/ ServeLogin(t) \/ ServeLogout(t) \/ FailRequest(t)
         \/ Return(t) \/ Cancel(t)
BY DEF TaskNext

\* An answer leaves the slot alone, and mints a token if it does.
LEMMA AnsweredDoes ==
  ASSUME RestTypeOK, NEW t \in Tasks,
         ServeMe(t) \/ ServeLogin(t) \/ ServeLogout(t) \/ FailRequest(t)
  PROVE  \E c \in Calls :
           /\ Changed(t, c) /\ UNCHANGED <<slot, disturbed>> /\ valid' \subseteq Tokens
           /\ call[t].stage = "sent"
           /\ c.stage = "answered" /\ c.op = call[t].op
           /\ c.op = "pat" => c.given = call[t].given
           /\ c.sent = call[t].sent /\ c.previous = call[t].previous /\ c.found = call[t].found
           /\ c.answer \in Outcomes[c.op]
<1>1. call[t].given \in Slots /\ None \in Slots /\ call[t].op \in Ops /\ valid \subseteq Tokens
  BY DEF RestTypeOK, Calls, Slots
<1>2. CASE ServeMe(t)
  <2>1. call[t].op = "pat" /\ "pat" \in Ops
    BY <1>2 DEF ServeMe, Ops
  <2>2. Answer(t, call[t].given,
               Answers("pat", IF call[t].sent \in valid THEN {"ok"} ELSE {"Unauthorized"}))
    BY <1>2 DEF ServeMe
  <2> QED BY <1>1, <1>2, <2>1, <2>2, AnswerDoes DEF ServeMe
<1>3. CASE ServeLogin(t)
  <2>1. call[t].op = "password" /\ "password" \in Ops
    BY <1>3 DEF ServeLogin, Ops
  <2>2. CASE Answer(t, None, Answers("password", {"Unauthorized"})) /\ UNCHANGED valid
    BY <1>1, <1>3, <2>1, <2>2, AnswerDoes DEF ServeLogin
  <2>3. ASSUME NEW m \in DOMAIN Minted, Answer(t, m, Answers("password", {"ok"})),
               valid' = valid \cup {m}
        PROVE  \E c \in Calls :
                 /\ Changed(t, c) /\ valid' \subseteq Tokens
                 /\ c.stage = "answered" /\ c.op = "password"
                 /\ c.sent = call[t].sent /\ c.previous = call[t].previous
                 /\ c.found = call[t].found /\ c.answer \in Outcomes[c.op]
    <3>1. m \in Slots /\ m \in Tokens
      BY DEF Slots, Tokens
    <3> QED BY <1>1, <2>1, <2>3, <3>1, AnswerDoes
  <2> QED BY <1>3, <2>1, <2>2, <2>3 DEF ServeLogin
<1>4. CASE ServeLogout(t)
  <2>1. call[t].op = "logout" /\ "logout" \in Ops
    BY <1>4 DEF ServeLogout, Ops
  <2>2. Answer(t, None, Answers("logout",
               {IF call[t].sent \in valid THEN "ok" ELSE "Unauthorized", "Transport"}))
    BY <1>4 DEF ServeLogout
  <2>3. valid' \subseteq Tokens
    BY <1>1, <1>4 DEF ServeLogout
  <2> QED BY <1>1, <1>4, <2>1, <2>2, <2>3, AnswerDoes DEF ServeLogout
<1>5. CASE FailRequest(t)
  <2>1. Answer(t, call[t].given, Answers(call[t].op, Failures))
    BY <1>5 DEF FailRequest
  <2> QED BY <1>1, <1>5, <2>1, AnswerDoes DEF FailRequest
<1> QED BY <1>2, <1>3, <1>4, <1>5

LEMMA ReturnDoes ==
  ASSUME RestTypeOK, NEW t \in Tasks, Return(t)
  PROVE  /\ Changed(t, Idle) /\ valid' = valid /\ slot' \in Slots
         /\ \/ slot' = slot /\ disturbed' = disturbed \ {t}
            \/ Write(slot', t)
<1>1. CASE KeepsSlot(call[t])
  BY <1>1 DEF Return, Changed, RestTypeOK
<1>2. CASE ~KeepsSlot(call[t])
  <2>1. call[t] \in Calls /\ call[t].op # "none"
    BY DEF RestTypeOK, Return, Active
  <2>2. CASE call[t].op \in {"pat", "password", "logout"}
    <3>1. LeavesIn(call[t]) \in Slots
      BY <2>1, <2>2 DEF LeavesIn, Calls, Slots
    <3> QED BY <1>2, <3>1 DEF Return, Changed, Write
  <2> QED BY <2>1, <2>2 DEF Calls, Ops
<1> QED BY <1>1, <1>2

LEMMA RestTyped ==
  ASSUME RestTypeOK, RestNext PROVE RestTypeOK'
<1>1. ASSUME NEW t \in Tasks, NEW c \in Calls, Changed(t, c), c.stage # "idle" <=> c.op # "none"
      PROVE  /\ call' \in [Tasks -> Calls]
             /\ \A u \in Tasks : call'[u].stage # "idle" <=> call'[u].op # "none"
  BY <1>1, CallsTyped DEF Changed, RestTypeOK, Active
<1>2. ASSUME NEW value, NEW t \in Tasks, Write(value, t) PROVE disturbed' \subseteq Tasks
  BY <1>2 DEF Write, RestTypeOK
<1>3. ASSUME NEW t \in Tasks, TaskNext(t) PROVE RestTypeOK'
  <2>1. ASSUME NEW token \in DOMAIN Issued, LoginByToken(t, token) PROVE RestTypeOK'
    <3>1. token \in Slots /\ slot' = token
      BY <2>1 DEF LoginByToken, Write, Slots, Tokens
    <3>2. PICK c \in Calls :
            /\ Changed(t, c) /\ Write(token, t) /\ valid' = valid
            /\ c.op = "pat" /\ c.stage = "asking"
      BY <2>1, LoginByTokenDoes
    <3>3. call' \in [Tasks -> Calls]
          /\ \A u \in Tasks : call'[u].stage # "idle" <=> call'[u].op # "none"
      BY <1>1, <3>2
    <3>4. disturbed' \subseteq Tasks
      BY <1>2, <3>2
    <3> QED BY <3>1, <3>2, <3>3, <3>4 DEF RestTypeOK, Active
  <2>2. CASE LoginByPassword(t) \/ Logout(t)
    <3>1. PICK c \in Calls : Changed(t, c) /\ c.stage # "idle" /\ c.op # "none"
      BY <2>2, BeginDoes DEF LoginByPassword, Logout, Ops, Stages
    <3>2. call' \in [Tasks -> Calls]
          /\ \A u \in Tasks : call'[u].stage # "idle" <=> call'[u].op # "none"
      BY <1>1, <3>1
    <3> QED BY <2>2, <3>2 DEF LoginByPassword, Logout, RestTypeOK, Active
  <2>3. CASE Send(t)
    <3>1. PICK c \in Calls :
            /\ Changed(t, c) /\ UNCHANGED <<slot, valid, disturbed>>
            /\ call[t].stage = "asking" /\ c.op = call[t].op /\ c.stage # "idle"
      BY <2>3, SendDoes
    <3>2. c.op # "none"
      BY <3>1 DEF RestTypeOK, Active
    <3>3. call' \in [Tasks -> Calls]
          /\ \A u \in Tasks : call'[u].stage # "idle" <=> call'[u].op # "none"
      BY <1>1, <3>1, <3>2
    <3> QED BY <3>1, <3>3 DEF RestTypeOK, Active
  <2>4. CASE ServeMe(t) \/ ServeLogin(t) \/ ServeLogout(t) \/ FailRequest(t)
    <3>1. PICK c \in Calls :
            /\ Changed(t, c) /\ UNCHANGED <<slot, disturbed>> /\ valid' \subseteq Tokens
            /\ call[t].stage = "sent" /\ c.op = call[t].op /\ c.stage = "answered"
      BY <2>4, AnsweredDoes
    <3>2. c.op # "none"
      BY <3>1 DEF RestTypeOK, Active
    <3>3. call' \in [Tasks -> Calls]
          /\ \A u \in Tasks : call'[u].stage # "idle" <=> call'[u].op # "none"
      BY <1>1, <3>1, <3>2
    <3> QED BY <3>1, <3>3 DEF RestTypeOK, Active
  <2>5. CASE Return(t)
    <3>1. /\ Changed(t, Idle) /\ valid' = valid /\ slot' \in Slots
          /\ \/ slot' = slot /\ disturbed' = disturbed \ {t}
             \/ Write(slot', t)
      BY <2>5, ReturnDoes
    <3>2. call' \in [Tasks -> Calls]
          /\ \A u \in Tasks : call'[u].stage # "idle" <=> call'[u].op # "none"
      BY <1>1, <3>1, IdleTyped DEF Idle
    <3>3. disturbed' \subseteq Tasks
      BY <1>2, <3>1 DEF RestTypeOK
    <3> QED BY <3>1, <3>2, <3>3 DEF RestTypeOK, Active
  <2>6. CASE Cancel(t)
    <3>1. call' \in [Tasks -> Calls]
          /\ \A u \in Tasks : call'[u].stage # "idle" <=> call'[u].op # "none"
      BY <1>1, <2>6, IdleTyped DEF Cancel, Changed, Idle
    <3> QED BY <2>6, <3>1 DEF Cancel, RestTypeOK, Active
  <2> QED BY <1>3, <2>1, <2>2, <2>3, <2>4, <2>5, <2>6, TaskNextDoes
<1>4. ASSUME NEW value \in Slots, SetAuthentication(value) PROVE RestTypeOK'
  BY <1>4 DEF SetAuthentication, RestTypeOK, Active
<1>5. ASSUME NEW token \in Tokens, Revoke(token) PROVE RestTypeOK'
  BY <1>5 DEF Revoke, RestTypeOK, Active
<1> QED BY <1>3, <1>4, <1>5 DEF RestNext

\* Whoever else is at work when the slot is written counts as disturbed.
LEMMA OthersFollow ==
  ASSUME RestTypeOK, NEW t \in Tasks, NEW c \in Calls, Changed(t, c),
         NEW u \in Tasks \ {t}, CallFollows(u),
         \/ slot' = slot /\ (u \in disturbed' <=> u \in disturbed)
         \/ Write(slot', t)
  PROVE  CallFollows(u)'
<1>1. call'[u] = call[u]
  BY DEF RestTypeOK, Changed
<1>2. CASE slot' = slot /\ (u \in disturbed' <=> u \in disturbed)
  BY <1>1, <1>2 DEF CallFollows
<1>3. CASE Write(slot', t)
  <2>1. call[u].stage # "idle" => u \in disturbed'
    BY <1>3 DEF Write, Active
  <2> QED BY <1>1, <2>1 DEF CallFollows
<1> QED BY <1>2, <1>3

LEMMA CallsFollowKept ==
  ASSUME ToldAsMeant, RestTypeOK, CallsFollow, RestNext PROVE CallsFollow'
<1>1. ASSUME NEW t \in Tasks, NEW c \in Calls, Changed(t, c), CallFollows(t)',
             \/ slot' = slot /\ disturbed' \ {t} = disturbed \ {t}
             \/ Write(slot', t)
      PROVE  CallsFollow'
  <2>1. ASSUME NEW u \in Tasks \ {t} PROVE CallFollows(u)'
    <3>1. CallFollows(u)
      BY DEF CallsFollow
    <3>2. \/ slot' = slot /\ (u \in disturbed' <=> u \in disturbed)
          \/ Write(slot', t)
      BY <1>1
    <3> QED BY <1>1, <3>1, <3>2, OthersFollow
  <2> QED BY <1>1, <2>1 DEF CallsFollow
<1>2. ASSUME NEW t \in Tasks, NEW c \in Calls, Changed(t, c) PROVE call'[t] = c
  BY <1>2 DEF Changed, RestTypeOK
<1>3. ASSUME NEW t \in Tasks, TaskNext(t) PROVE CallsFollow'
  <2>1. CallFollows(t)
    BY DEF CallsFollow
  <2>2. ASSUME NEW token \in DOMAIN Issued, LoginByToken(t, token) PROVE CallsFollow'
    <3>1. PICK c \in Calls :
            /\ Changed(t, c) /\ Write(token, t)
            /\ c.op = "pat" /\ c.stage = "asking" /\ c.given = token /\ c.previous = c.found
      BY <2>2, LoginByTokenDoes
    <3>2. token # None /\ slot' = token
      BY <3>1, RestAssumption DEF Write
    <3>3. call'[t] = c
      BY <1>2, <3>1
    <3>4. CallFollows(t)'
      BY <3>1, <3>2, <3>3 DEF CallFollows
    <3> QED BY <1>1, <3>1, <3>2, <3>4
  <2>3. CASE LoginByPassword(t) \/ Logout(t)
    <3>1. PICK op \in {"password", "logout"}, stage \in {"sent", "asking"} : Begin(t, op, stage)
      BY <2>3 DEF LoginByPassword, Logout
    <3>2. PICK c \in Calls : Changed(t, c) /\ c.op = op /\ c.stage = stage /\ c.found = slot
      BY <3>1, BeginDoes DEF Ops, Stages
    <3>3. slot' = slot /\ disturbed' = disturbed \ {t}
      BY <2>3 DEF LoginByPassword, Logout
    <3>4. call'[t] = c
      BY <1>2, <3>2
    <3>5. CallFollows(t)'
      BY <3>1, <3>2, <3>3, <3>4 DEF CallFollows
    <3> QED BY <1>1, <3>2, <3>3, <3>5
  <2>4. CASE Send(t)
    <3>1. PICK c \in Calls :
            /\ Changed(t, c) /\ UNCHANGED <<slot, valid, disturbed>>
            /\ call[t].stage = "asking"
            /\ c.op = call[t].op /\ c.given = call[t].given
            /\ c.previous = call[t].previous /\ c.found = call[t].found
            /\ \/ slot = None /\ c.stage = "answered" /\ c.answer = Failing("NotAuthenticated")
               \/ c.stage = "sent" /\ c.sent = slot
      BY <2>4, SendDoes
    <3>2. call'[t] = c
      BY <1>2, <3>1
    <3>3. c.stage = "answered" => c.answer.told = c.answer.meant
      BY <3>1 DEF Failing
    <3>4. CallFollows(t)'
      BY <2>1, <3>1, <3>2, <3>3 DEF CallFollows
    <3> QED BY <1>1, <3>1, <3>4
  <2>5. CASE ServeMe(t) \/ ServeLogin(t) \/ ServeLogout(t) \/ FailRequest(t)
    <3>1. PICK c \in Calls :
            /\ Changed(t, c) /\ UNCHANGED <<slot, disturbed>>
            /\ call[t].stage = "sent"
            /\ c.stage = "answered" /\ c.op = call[t].op
            /\ c.op = "pat" => c.given = call[t].given
            /\ c.sent = call[t].sent /\ c.previous = call[t].previous /\ c.found = call[t].found
            /\ c.answer \in Outcomes[c.op]
      BY <2>5, AnsweredDoes
    <3>2. call'[t] = c
      BY <1>2, <3>1
    <3>3. c.answer.told = c.answer.meant
      BY <3>1 DEF ToldAsMeant, Calls
    <3>4. CallFollows(t)'
      BY <2>1, <3>1, <3>2, <3>3 DEF CallFollows
    <3> QED BY <1>1, <3>1, <3>4
  <2>6. CASE Return(t) \/ Cancel(t)
    <3>1. /\ Changed(t, Idle)
          /\ \/ slot' = slot /\ disturbed' = disturbed \ {t}
             \/ Write(slot', t)
      BY <2>6, ReturnDoes DEF Cancel, Changed
    <3>2. call'[t] = Idle /\ Idle.stage = "idle"
      BY <1>2, <3>1, IdleTyped DEF Idle
    <3>3. CallFollows(t)'
      BY <3>2 DEF CallFollows
    <3> QED BY <1>1, <3>1, <3>3, IdleTyped
  <2> QED BY <1>3, <2>2, <2>3, <2>4, <2>5, <2>6, TaskNextDoes
<1>4. ASSUME NEW value \in Slots, SetAuthentication(value) PROVE CallsFollow'
  BY <1>4 DEF SetAuthentication, CallsFollow, CallFollows, Active
<1>5. ASSUME NEW token \in Tokens, Revoke(token) PROVE CallsFollow'
  BY <1>5 DEF Revoke, CallsFollow, CallFollows
<1> QED BY <1>3, <1>4, <1>5 DEF RestNext

\* What the call that returns leaves in the slot is what is documented of it.
LEMMA ReturnsAsDocumented ==
  ASSUME RestTypeOK, NEW t \in Tasks, CallFollows(t), t \notin disturbed, Return(t)
  PROVE  Documented(call[t], slot')
<1>1. PICK c : c = call[t]
  OBVIOUS
<1>2. c.op \in {"pat", "password", "logout"} /\ c.stage = "answered"
  BY <1>1 DEF RestTypeOK, Calls, Ops, Active, Return
<1>3. PICK result : result = c.answer.told.result
  OBVIOUS
<1>4. c.answer.told = c.answer.meant /\ result = c.answer.meant.result
  BY <1>1, <1>2, <1>3 DEF CallFollows
<1>5. slot' = IF KeepsSlot(c) THEN slot ELSE LeavesIn(c)
  BY <1>1 DEF Return, Write
<1>6. CASE c.op = "pat"
  <2>1. slot = c.given /\ c.previous = c.found /\ c.sent = c.given
    BY <1>1, <1>2, <1>6 DEF CallFollows
  <2>2. /\ result = "ok" => slot' = slot
        /\ result # "ok" => slot' = c.previous
    BY <1>3, <1>5, <1>6 DEF KeepsSlot, LeavesIn
  <2> QED BY <1>1, <1>4, <1>6, <2>1, <2>2 DEF Documented
<1>7. CASE c.op = "password"
  <2>1. slot = c.found
    BY <1>1, <1>2, <1>7 DEF CallFollows
  <2>2. /\ result # "ok" => slot' = slot
        /\ result = "ok" => slot' = c.given
    BY <1>3, <1>5, <1>7 DEF KeepsSlot, LeavesIn
  <2> QED BY <1>1, <1>4, <1>7, <2>1, <2>2 DEF Documented
<1>8. CASE c.op = "logout"
  <2>1. slot = c.found
    BY <1>1, <1>2, <1>8 DEF CallFollows
  <2>2. /\ result \notin {"ok", "Unauthorized"} => slot' = slot
        /\ result \in {"ok", "Unauthorized"} => slot' = None
    BY <1>3, <1>5, <1>8 DEF KeepsSlot, LeavesIn
  <2> QED BY <1>1, <1>4, <1>8, <2>1, <2>2 DEF Documented
<1> QED BY <1>2, <1>6, <1>7, <1>8

-----------------------------------------------------------------------------
(* The types of a dispatch.                                                *)

\* A dispatch has called, or refused, none but the handlers it has come to,
\* and one that is under way has come to a handler.
IsWork(w) == w \in Works /\ w.called \cup w.refused \subseteq 1 .. w.at
AtHandler(w) == w.stage \in UnderWay => w.at \in 1 .. Len(Handlers)

LEMMA HandlersCounted == Len(Handlers) \in Nat /\ DOMAIN Handlers = 1 .. Len(Handlers)
<1>1. PICK S : Handlers \in Seq(S)
  BY FrameworkAssumption
<1> QED BY <1>1

\* The next handler, or none; what was done so far stays done.
LEMMA AdvanceDoes ==
  ASSUME NEW w, IsWork(w)
  PROVE  \E v : /\ v = Advance(w) /\ IsWork(v) /\ AtHandler(v)
                /\ v.event = w.event /\ v.said = w.said
                /\ v.called = w.called /\ v.refused = w.refused
                /\ \/ v.stage = "done" /\ v.at = w.at
                   \/ v.stage = "offering" /\ v.at = w.at + 1
<1>1. w \in Works /\ w.at \in 0 .. Len(Handlers) /\ Len(Handlers) \in Nat
  BY HandlersCounted DEF IsWork, Works
<1>2. CASE w.at = Len(Handlers)
  <2>1. PICK v : v = [w EXCEPT !.stage = "done"]
    OBVIOUS
  <2>2. v = Advance(w) /\ v \in Works
    BY <1>1, <1>2, <2>1 DEF Advance, Works
  <2>3. /\ v.event = w.event /\ v.said = w.said /\ v.called = w.called /\ v.refused = w.refused
        /\ v.stage = "done" /\ v.at = w.at
    BY <1>1, <2>1 DEF Works
  <2> QED BY <2>2, <2>3 DEF IsWork, AtHandler, UnderWay
<1>3. CASE w.at # Len(Handlers)
  <2>1. PICK n : n = w.at + 1
    OBVIOUS
  <2>2. PICK v : v = [w EXCEPT !.stage = "offering", !.at = n]
    OBVIOUS
  <2>3. n \in 1 .. Len(Handlers) /\ n \in 0 .. Len(Handlers) /\ 1 .. w.at \subseteq 1 .. n
    BY <1>1, <1>3, <2>1
  <2>4. v = Advance(w) /\ v \in Works
    BY <1>1, <1>3, <2>1, <2>2, <2>3 DEF Advance, Works
  <2>5. /\ v.event = w.event /\ v.said = w.said /\ v.called = w.called /\ v.refused = w.refused
        /\ v.stage = "offering" /\ v.at = n
    BY <1>1, <2>2 DEF Works
  <2> QED BY <2>1, <2>3, <2>4, <2>5 DEF IsWork, AtHandler
<1> QED BY <1>2, <1>3

LEMMA NoWorkTyped ==
  /\ NoWork \in Works /\ NoWork.called = {} /\ NoWork.refused = {}
  /\ NoWork.at = 0 /\ NoWork.stage = "idle" /\ NoWork.event = Nothing
<1>1. /\ 0 \in 0 .. Len(Handlers) /\ Nothing \in Decodings /\ Nothing \in Meanings
  BY HandlersCounted DEF Decodings, Meanings
<1> QED BY <1>1 DEF NoWork, Works

\* What a dispatch is offered, or spared: nobody has been called yet.
Fresh(event, said) == [NoWork EXCEPT !.event = event, !.said = said]

LEMMA OfferTyped ==
  ASSUME NEW event \in Decodings, NEW said \in Meanings
  PROVE  \E w : /\ w = Fresh(event, said)
                /\ IsWork(w) /\ w.event = event /\ w.said = said /\ w.at = 0
                /\ w.called = {} /\ w.refused = {}
<1>1. PICK w : w = [NoWork EXCEPT !.event = event, !.said = said]
  OBVIOUS
<1>2. w \in Works
  BY <1>1, NoWorkTyped DEF Works
<1>3. w.event = event /\ w.said = said /\ w.at = 0 /\ w.called = {} /\ w.refused = {}
  BY <1>1, NoWorkTyped DEF Works
<1> QED BY <1>1, <1>2, <1>3 DEF IsWork, Fresh

LEMMA SwallowTyped ==
  ASSUME NEW said \in Meanings
  PROVE  \E w : /\ w = [NoWork EXCEPT !.stage = "done", !.said = said, !.at = Len(Handlers)]
                /\ IsWork(w) /\ w.stage = "done" /\ w.event = Nothing /\ w.said = said
                /\ w.at = Len(Handlers) /\ w.called = {} /\ w.refused = {}
<1>1. PICK n : n = Len(Handlers) /\ n \in 0 .. n
  BY HandlersCounted
<1>2. PICK w : w = [NoWork EXCEPT !.stage = "done", !.said = said, !.at = n]
  OBVIOUS
<1>3. w \in Works
  BY <1>1, <1>2, NoWorkTyped DEF Works
<1>4. /\ w.stage = "done" /\ w.event = Nothing /\ w.said = said /\ w.at = n
      /\ w.called = {} /\ w.refused = {}
  BY <1>2, NoWorkTyped DEF Works
<1> QED BY <1>1, <1>2, <1>3, <1>4 DEF IsWork

\* The records that the steps of a dispatch leave, before it advances.
Staged(w, stage) == [w EXCEPT !.stage = stage]
Refused(w) == [w EXCEPT !.refused = @ \cup {w.at}]

LEMMA StagedDoes ==
  ASSUME NEW w, IsWork(w), w.at \in 1 .. Len(Handlers), NEW stage \in {"asking", "calling", "done"}
  PROVE  \E v : /\ v = Staged(w, stage) /\ IsWork(v) /\ AtHandler(v)
                /\ v.stage = stage /\ v.at = w.at /\ v.event = w.event /\ v.said = w.said
                /\ v.called = w.called /\ v.refused = w.refused
<1>1. PICK v : v = [w EXCEPT !.stage = stage]
  OBVIOUS
<1>2. v \in Works
  BY <1>1 DEF IsWork, Works
<1>3. /\ v.stage = stage /\ v.at = w.at /\ v.event = w.event /\ v.said = w.said
      /\ v.called = w.called /\ v.refused = w.refused
  BY <1>1 DEF IsWork, Works
<1> QED BY <1>1, <1>2, <1>3 DEF IsWork, AtHandler, Staged

LEMMA RanDoes ==
  ASSUME NEW w, IsWork(w), w.at \in 1 .. Len(Handlers)
  PROVE  \E v : /\ v = Ran(w) /\ IsWork(v)
                /\ v.stage = w.stage /\ v.at = w.at /\ v.event = w.event /\ v.said = w.said
                /\ v.called = w.called \cup (IF Extracts(Handlers[w.at], w.event)
                                               THEN {w.at} ELSE {})
                /\ v.refused = w.refused
<1>1. w.at \in 1 .. w.at
  BY HandlersCounted
<1>2. CASE Extracts(Handlers[w.at], w.event)
  <2>1. PICK n : n = w.at
    OBVIOUS
  <2>2. PICK v : v = [w EXCEPT !.called = w.called \cup {n}]
    OBVIOUS
  <2>3. v = Ran(w)
    BY <1>2, <2>1, <2>2 DEF Ran
  <2>4. v \in Works
    BY <2>1, <2>2 DEF IsWork, Works
  <2>5. /\ v.stage = w.stage /\ v.at = w.at /\ v.event = w.event /\ v.said = w.said
        /\ v.called = w.called \cup {n} /\ v.refused = w.refused
    BY <2>2 DEF IsWork, Works
  <2> QED BY <1>1, <1>2, <2>1, <2>3, <2>4, <2>5 DEF IsWork
<1>3. CASE ~Extracts(Handlers[w.at], w.event)
  BY <1>3 DEF Ran
<1> QED BY <1>2, <1>3

LEMMA RefusedDoes ==
  ASSUME NEW w, IsWork(w), w.at \in 1 .. Len(Handlers)
  PROVE  \E v : /\ v = Refused(w) /\ IsWork(v)
                /\ v.stage = w.stage /\ v.at = w.at /\ v.event = w.event /\ v.said = w.said
                /\ v.called = w.called /\ v.refused = w.refused \cup {w.at}
<1>1. w.at \in 1 .. w.at
  BY HandlersCounted
<1>2. PICK n : n = w.at
  OBVIOUS
<1>3. PICK v : v = [w EXCEPT !.refused = w.refused \cup {n}]
  OBVIOUS
<1>4. v \in Works
  BY <1>2, <1>3 DEF IsWork, Works
<1>5. /\ v.stage = w.stage /\ v.at = w.at /\ v.event = w.event /\ v.said = w.said
      /\ v.called = w.called /\ v.refused = w.refused \cup {n}
  BY <1>3 DEF IsWork, Works
<1> QED BY <1>1, <1>2, <1>3, <1>4, <1>5 DEF IsWork, Refused

\* What each step of a dispatch does to the record of its own.
LEMMA WorkMoves ==
  ASSUME TypeOK, NEW d \in Dispatchers, NEW w, IsWork(w), work' = [work EXCEPT ![d] = w]
  PROVE  /\ work' \in [Dispatchers -> Works] /\ work'[d] = w
         /\ \A e \in Dispatchers : work'[e].called \cup work'[e].refused \subseteq 1 .. work'[e].at
BY DEF TypeOK, IsWork

\* The dispatches whose turn it is leave everything else alone.
LEMMA DispatchFrame ==
  ASSUME NEW d \in Dispatchers, Dispatch(d)
  PROVE  UNCHANGED <<restVars, botVars>>
BY DEF Dispatch, TakeFrame, TakeResubscribed, ReadMe, Filter, AskDirectory, CallHandler,
       HandlerPanics

-----------------------------------------------------------------------------
(* The steps of a dispatch, with the record that each leaves spelled out.  *)

AtHandlers == \A d \in Dispatchers : AtHandler(work[d])

\* The dispatch of `d' goes on as `v'.
Becomes(d, v) ==
  work' = [work EXCEPT ![d] = v] /\ IsWork(v) /\ AtHandler(v) /\ UNCHANGED <<me, doubtful>>

Keeps(w, v) == v.event = w.event /\ v.said = w.said

\* It is past the handler it was at.
Past(w, v) ==
  \/ v.stage = "done" /\ v.at = w.at
  \/ v.stage = "offering" /\ v.at = w.at + 1

LEMMA TakeDoes ==
  ASSUME NEW d \in Dispatchers, (\E frame \in Sent : TakeFrame(d, frame)) \/ TakeResubscribed(d)
  PROVE  \E v : /\ Becomes(d, v) /\ bot = "up" /\ v.called = {} /\ v.refused = {}
                /\ \E frame \in Sent \cup {Reconnected} :
                     v.event = frame.event /\ v.said = frame.said
                /\ \/ v.stage = "done" /\ v.event = Nothing /\ v.at = Len(Handlers)
                   \/ v.event # Nothing /\ v.stage = "done" /\ v.at = 0
                   \/ v.event # Nothing /\ v.stage = "offering" /\ v.at = 1
<1>1. bot = "up" /\ UNCHANGED <<me, doubtful>>
  BY DEF TakeFrame, TakeResubscribed, Free
<1>2. PICK frame \in Sent \cup {Reconnected} :
        IF frame.event = Nothing THEN Swallow(d, frame) ELSE Offer(d, frame)
  <2>1. Reconnected.event # Nothing
    BY DEF Reconnected, Resubscribed, Nothing, Event
  <2> QED BY <2>1 DEF TakeFrame, TakeResubscribed
<1>3. PICK event \in Decodings, said \in Meanings : event = frame.event /\ said = frame.said
  BY DEF Decodings, Meanings, Reconnected
<1>4. CASE event = Nothing
  <2>1. PICK v : /\ v = [NoWork EXCEPT !.stage = "done", !.said = said, !.at = Len(Handlers)]
                 /\ IsWork(v) /\ v.stage = "done" /\ v.event = Nothing /\ v.said = said
                 /\ v.at = Len(Handlers) /\ v.called = {} /\ v.refused = {}
    BY SwallowTyped
  <2>2. work' = [work EXCEPT ![d] = v]
    BY <1>2, <1>3, <1>4, <2>1 DEF Swallow
  <2>3. AtHandler(v)
    BY <2>1 DEF AtHandler, UnderWay
  <2> QED BY <1>1, <1>3, <1>4, <2>1, <2>2, <2>3 DEF Becomes
<1>5. CASE event # Nothing
  <2>1. PICK w : /\ w = Fresh(event, said)
                 /\ IsWork(w) /\ w.event = event /\ w.said = said /\ w.at = 0
                 /\ w.called = {} /\ w.refused = {}
    BY OfferTyped
  <2>2. PICK v : /\ v = Advance(w) /\ IsWork(v) /\ AtHandler(v)
                 /\ v.event = w.event /\ v.said = w.said
                 /\ v.called = w.called /\ v.refused = w.refused
                 /\ \/ v.stage = "done" /\ v.at = w.at
                    \/ v.stage = "offering" /\ v.at = w.at + 1
    BY <2>1, AdvanceDoes
  <2>3. work' = [work EXCEPT ![d] = v]
    BY <1>2, <1>3, <1>5, <2>1, <2>2 DEF Offer, Fresh
  <2>4. Becomes(d, v) /\ v.called = {} /\ v.refused = {}
    BY <1>1, <2>1, <2>2, <2>3 DEF Becomes
  <2>5. /\ v.event # Nothing
        /\ \/ v.stage = "done" /\ v.at = 0
           \/ v.stage = "offering" /\ v.at = 1
    BY <1>5, <2>1, <2>2
  <2> QED BY <1>1, <1>3, <2>1, <2>2, <2>4, <2>5
<1> QED BY <1>4, <1>5

LEMMA FilterDoes ==
  ASSUME TypeOK, AtHandlers, NEW d \in Dispatchers, NEW w, w = work[d], Filter(d)
  PROVE  \E v : /\ Becomes(d, v) /\ Keeps(w, v) /\ w.stage = "offering"
                /\ v.called = w.called /\ v.refused = w.refused
                /\ \/ ~Filterable(w.event) /\ v.stage = "calling" /\ v.at = w.at
                   \/ /\ Filterable(w.event) /\ me # Unset
                      /\ LocallyFiltered(Handlers[w.at], w.event) /\ Past(w, v)
                   \/ /\ Filterable(w.event) /\ me # Unset
                      /\ ~LocallyFiltered(Handlers[w.at], w.event)
                      /\ v.stage \in {"asking", "calling"} /\ v.at = w.at
<1>1. IsWork(w) /\ w.stage = "offering" /\ w.at \in 1 .. Len(Handlers)
  BY DEF TypeOK, IsWork, AtHandlers, AtHandler, UnderWay, Filter
<1>2. UNCHANGED <<me, doubtful>>
  BY DEF Filter
<1>3. CASE Filterable(w.event) /\ LocallyFiltered(Handlers[w.at], w.event)
  <2>1. me # Unset /\ work' = [work EXCEPT ![d] = Advance(w)]
    BY <1>3 DEF Filter, Offered
  <2>2. PICK v : /\ v = Advance(w) /\ IsWork(v) /\ AtHandler(v)
                 /\ v.event = w.event /\ v.said = w.said
                 /\ v.called = w.called /\ v.refused = w.refused
                 /\ \/ v.stage = "done" /\ v.at = w.at
                    \/ v.stage = "offering" /\ v.at = w.at + 1
    BY <1>1, AdvanceDoes
  <2> QED BY <1>1, <1>2, <1>3, <2>1, <2>2 DEF Becomes, Keeps, Past
<1>4. CASE ~(Filterable(w.event) /\ LocallyFiltered(Handlers[w.at], w.event))
  <2>1. PICK stage \in {"asking", "calling"} :
          /\ work' = [work EXCEPT ![d] = Staged(w, stage)]
          /\ Filterable(w.event) => me # Unset
          /\ ~Filterable(w.event) => stage = "calling"
    BY <1>4 DEF Filter, Offered, Staged
  <2>2. PICK v : /\ v = Staged(w, stage) /\ IsWork(v) /\ AtHandler(v)
                 /\ v.stage = stage /\ v.at = w.at /\ v.event = w.event /\ v.said = w.said
                 /\ v.called = w.called /\ v.refused = w.refused
    BY <1>1, StagedDoes
  <2>3. Becomes(d, v) /\ Keeps(w, v)
    BY <1>2, <2>1, <2>2 DEF Becomes, Keeps
  <2> QED BY <1>1, <1>4, <2>1, <2>2, <2>3
<1> QED BY <1>3, <1>4

LEMMA AskDoes ==
  ASSUME TypeOK, AtHandlers, NEW d \in Dispatchers, NEW w, w = work[d], AskDirectory(d)
  PROVE  \E v : /\ Becomes(d, v) /\ Keeps(w, v) /\ w.stage = "asking" /\ v.called = w.called
                /\ v.refused \in {w.refused, w.refused \cup {w.at}}
                /\ \/ /\ v.stage = "calling" /\ v.at = w.at
                      /\ HeardAsSaid => v.refused = w.refused
                   \/ /\ Past(w, v)
                      /\ HeardAsSaid => v.refused = w.refused \cup {w.at}
<1>1. IsWork(w) /\ w.stage = "asking" /\ w.at \in 1 .. Len(Handlers)
  BY DEF TypeOK, IsWork, AtHandlers, AtHandler, UnderWay, AskDirectory
<1>2. UNCHANGED <<me, doubtful>>
  BY DEF AskDirectory
<1>3. PICK r : /\ \/ r = w
                  \/ r = Refused(w)
               /\ \/ /\ work' = [work EXCEPT ![d] = Staged(r, "calling")]
                     /\ HeardAsSaid => r = w
                  \/ /\ work' = [work EXCEPT ![d] = Advance(r)]
                     /\ HeardAsSaid => r = Refused(w)
  <2>1. PICK global \in RoleSays("Global"), room \in RoleSays("Room") :
          LET allows(admins, roomAdmins) ==
                Allows(Offered(d).authority, work[d].event.message.author, admins, roomAdmins)
              u == IF allows(global.meant, room.meant) THEN work[d]
                   ELSE [work[d] EXCEPT !.refused = @ \cup {work[d].at}]
          IN work' = [work EXCEPT ![d] = IF allows(global.told, room.told)
                                           THEN [u EXCEPT !.stage = "calling"] ELSE Advance(u)]
    BY DEF AskDirectory
  <2>2. HeardAsSaid => global.told = global.meant /\ room.told = room.meant
    BY DEF HeardAsSaid, RoleSays
  <2>3. PICK meant \in BOOLEAN :
          meant <=> Allows(Offered(d).authority, work[d].event.message.author,
                           global.meant, room.meant)
    OBVIOUS
  <2>4. PICK told \in BOOLEAN :
          told <=> Allows(Offered(d).authority, work[d].event.message.author,
                          global.told, room.told)
    OBVIOUS
  <2>5. HeardAsSaid => told = meant
    BY <2>2, <2>3, <2>4
  <2>6. PICK r : r = IF meant THEN w ELSE Refused(w)
    OBVIOUS
  <2>7. work' = [work EXCEPT ![d] = IF told THEN Staged(r, "calling") ELSE Advance(r)]
    BY <2>1, <2>3, <2>4, <2>6 DEF Refused, Staged
  <2> QED BY <2>5, <2>6, <2>7
<1>4. /\ IsWork(r) /\ r.stage = w.stage /\ r.at = w.at /\ r.called = w.called
      /\ r.event = w.event /\ r.said = w.said
      /\ r.refused \in {w.refused, w.refused \cup {w.at}}
      /\ r = w => r.refused = w.refused
      /\ r = Refused(w) => r.refused = w.refused \cup {w.at}
  <2>1. CASE r = w
    BY <1>1, <2>1, RefusedDoes
  <2>2. CASE r = Refused(w)
    BY <1>1, <2>2, RefusedDoes
  <2> QED BY <1>3, <2>1, <2>2
<1>5. CASE /\ work' = [work EXCEPT ![d] = Staged(r, "calling")]
           /\ HeardAsSaid => r = w
  <2>1. PICK v : /\ v = Staged(r, "calling") /\ IsWork(v) /\ AtHandler(v)
                 /\ v.stage = "calling" /\ v.at = r.at /\ v.event = r.event /\ v.said = r.said
                 /\ v.called = r.called /\ v.refused = r.refused
    BY <1>1, <1>4, StagedDoes
  <2>2. Becomes(d, v) /\ Keeps(w, v)
    BY <1>2, <1>4, <1>5, <2>1 DEF Becomes, Keeps
  <2> QED BY <1>1, <1>4, <1>5, <2>1, <2>2
<1>6. CASE /\ work' = [work EXCEPT ![d] = Advance(r)]
           /\ HeardAsSaid => r = Refused(w)
  <2>1. PICK v : /\ v = Advance(r) /\ IsWork(v) /\ AtHandler(v)
                 /\ v.event = r.event /\ v.said = r.said
                 /\ v.called = r.called /\ v.refused = r.refused
                 /\ \/ v.stage = "done" /\ v.at = r.at
                    \/ v.stage = "offering" /\ v.at = r.at + 1
    BY <1>4, AdvanceDoes
  <2>2. Becomes(d, v) /\ Keeps(w, v) /\ Past(w, v)
    BY <1>2, <1>4, <1>6, <2>1 DEF Becomes, Keeps, Past
  <2> QED BY <1>1, <1>4, <1>6, <2>1, <2>2
<1> QED BY <1>3, <1>5, <1>6

LEMMA CallDoes ==
  ASSUME TypeOK, AtHandlers, NEW d \in Dispatchers, NEW w, w = work[d],
         CallHandler(d) \/ HandlerPanics(d)
  PROVE  \E v : /\ Becomes(d, v) /\ Keeps(w, v) /\ w.stage = "calling" /\ Past(w, v)
                /\ v.called = w.called \cup (IF Extracts(Handlers[w.at], w.event)
                                               THEN {w.at} ELSE {})
                /\ v.refused = w.refused
<1>1. IsWork(w) /\ w.stage = "calling" /\ w.at \in 1 .. Len(Handlers)
  BY DEF TypeOK, IsWork, AtHandlers, AtHandler, UnderWay, CallHandler, HandlerPanics
<1>2. UNCHANGED <<me, doubtful>>
  BY DEF CallHandler, HandlerPanics
<1>3. PICK r : /\ r = Ran(w) /\ IsWork(r)
               /\ r.stage = w.stage /\ r.at = w.at /\ r.event = w.event /\ r.said = w.said
               /\ r.called = w.called \cup (IF Extracts(Handlers[w.at], w.event)
                                              THEN {w.at} ELSE {})
               /\ r.refused = w.refused
  BY <1>1, RanDoes
<1>4. PICK v : /\ v = Advance(r) \/ v = Staged(r, "done")
               /\ work' = [work EXCEPT ![d] = v]
  BY <1>3 DEF CallHandler, HandlerPanics, TypeOK, Staged
<1>5. /\ IsWork(v) /\ AtHandler(v) /\ v.event = r.event /\ v.said = r.said
      /\ v.called = r.called /\ v.refused = r.refused
      /\ \/ v.stage = "done" /\ v.at = r.at
         \/ v.stage = "offering" /\ v.at = r.at + 1
  <2>1. CASE v = Advance(r)
    BY <1>3, <2>1, AdvanceDoes
  <2>2. CASE v = Staged(r, "done")
    BY <1>1, <1>3, <2>2, StagedDoes
  <2> QED BY <1>4, <2>1, <2>2
<1>6. Becomes(d, v) /\ Keeps(w, v) /\ Past(w, v)
  BY <1>2, <1>3, <1>4, <1>5 DEF Becomes, Keeps, Past
<1> QED BY <1>1, <1>3, <1>5, <1>6

\* A dispatch moves on by itself, and reads `me' at most once.
LEMMA DispatchMoves ==
  ASSUME TypeOK, AtHandlers, NEW d \in Dispatchers, Dispatch(d)
  PROVE  \/ \E v : Becomes(d, v)
         \/ ReadMe(d)
<1>1. CASE (\E frame \in Sent : TakeFrame(d, frame)) \/ TakeResubscribed(d)
  BY <1>1, TakeDoes
<1>2. CASE Filter(d)
  BY <1>2, FilterDoes
<1>3. CASE AskDirectory(d)
  BY <1>3, AskDoes
<1>4. CASE CallHandler(d) \/ HandlerPanics(d)
  BY <1>4, CallDoes
<1> QED BY <1>1, <1>2, <1>3, <1>4 DEF Dispatch

LEMMA SnapshotsTyped ==
  ASSUME TypeOK, NEW d \in Dispatchers, Dispatch(d) PROVE snapshots' \in BOOLEAN
<1>1. snapshots' \in {snapshots, TRUE, FALSE}
  BY DEF Dispatch, TakeFrame, TakeResubscribed, ReadMe, Filter, AskDirectory, CallHandler,
         HandlerPanics
<1> QED BY <1>1 DEF TypeOK

LEMMA DispatchTyped ==
  ASSUME TypeOK, AtHandlers, NEW d \in Dispatchers, Dispatch(d)
  PROVE  TypeOK' /\ AtHandlers'
<1>1. UNCHANGED <<restVars, botVars>>
  BY DispatchFrame
<1>2. RestTypeOK' /\ bot' = bot /\ identity' = identity
  BY <1>1 DEF TypeOK, RestTypeOK, restVars, botVars, Active
<1>3. snapshots' \in BOOLEAN
  BY SnapshotsTyped
<1>4. CASE \E v : Becomes(d, v)
  <2>1. PICK v : Becomes(d, v)
    BY <1>4
  <2>2. /\ work' \in [Dispatchers -> Works] /\ work'[d] = v
        /\ \A e \in Dispatchers : work'[e].called \cup work'[e].refused \subseteq 1 .. work'[e].at
    BY <2>1, WorkMoves DEF Becomes
  <2>3. ASSUME NEW e \in Dispatchers PROVE AtHandler(work'[e])
    BY <2>1, <2>2 DEF Becomes, AtHandlers, TypeOK
  <2>4. UNCHANGED <<me, doubtful>>
    BY <2>1 DEF Becomes
  <2> QED BY <1>2, <1>3, <2>2, <2>3, <2>4 DEF TypeOK, AtHandlers, AtHandler
<1>5. CASE ReadMe(d)
  <2>1. Owner(slot) \in Accounts \cup {None}
    BY OwnerTyped DEF TypeOK, RestTypeOK
  <2>2. me' \in Accounts \cup {None, Unset} /\ doubtful' \in BOOLEAN /\ work' = work
    BY <1>5, <2>1 DEF ReadMe
  <2> QED BY <1>2, <1>3, <2>2 DEF TypeOK, AtHandlers, AtHandler
<1> QED BY <1>4, <1>5, DispatchMoves

LEMMA FrameworkTyped ==
  ASSUME TypeOK, AtHandlers, Next PROVE TypeOK' /\ AtHandlers'
<1>1. RestTypeOK'
  <2>1. RestTypeOK /\ Main \in Tasks
    BY FrameworkAssumption DEF TypeOK
  <2>2. CASE RestNext
    BY <2>1, <2>2, RestTyped
  <2>3. CASE UNCHANGED restVars
    BY <2>1, <2>3 DEF RestTypeOK, restVars, Active
  <2> QED BY <2>1, <2>2, <2>3, RestMoves
<1>2. ASSUME UNCHANGED frameworkVars, bot' \in {"off", "connecting", "up"},
             identity' \in Accounts \cup {None}
      PROVE  TypeOK' /\ AtHandlers'
  BY <1>1, <1>2 DEF TypeOK, AtHandlers, AtHandler, frameworkVars
<1>3. CASE Connect \/ Connecting \/ ConnectFails \/ UseRest
  <2>1. /\ UNCHANGED frameworkVars /\ identity' = identity
        /\ bot' \in {"off", "connecting", bot}
    BY <1>3 DEF Connect, Connecting, ConnectFails, UseRest, botVars
  <2> QED BY <1>2, <2>1 DEF TypeOK
<1>4. CASE Connected
  <2>1. call[Main].given \in Slots
    BY FrameworkAssumption DEF TypeOK, RestTypeOK, Calls
  <2>2. Owner(call[Main].given) \in Accounts \cup {None}
    BY <2>1, OwnerTyped
  <2> QED BY <1>2, <1>4, <2>2 DEF Connected
<1>5. ASSUME NEW d \in Dispatchers, Dispatch(d) PROVE TypeOK' /\ AtHandlers'
  BY <1>5, DispatchTyped
<1> QED BY <1>3, <1>4, <1>5 DEF Next

LEMMA FrameworkStarts ==
  ASSUME Init PROVE TypeOK /\ AtHandlers
<1>1. RestTypeOK
  <2>1. Idle.stage = "idle" /\ Idle.op = "none"
    BY DEF Idle
  <2> QED BY <2>1, IdleTyped DEF Init, RestInit, RestTypeOK, Active, Slots, Tokens
<1>2. work \in [Dispatchers -> Works] /\ \A d \in Dispatchers : work[d] = NoWork
  BY NoWorkTyped DEF Init
<1>3. \A d \in Dispatchers : work[d].called \cup work[d].refused \subseteq 1 .. work[d].at
  BY <1>2, NoWorkTyped
<1>4. AtHandlers
  BY <1>2, NoWorkTyped DEF AtHandlers, AtHandler, UnderWay
<1> QED BY <1>1, <1>2, <1>3, <1>4 DEF Init, TypeOK

LEMMA DispatchesTyped == Spec => [](TypeOK /\ AtHandlers)
<1>1. Init => TypeOK /\ AtHandlers
  BY FrameworkStarts
<1>2. TypeOK /\ AtHandlers /\ [Next]_vars => (TypeOK /\ AtHandlers)'
  <2>1. ASSUME TypeOK, AtHandlers, UNCHANGED vars PROVE (TypeOK /\ AtHandlers)'
    BY <2>1 DEF TypeOK, AtHandlers, AtHandler, RestTypeOK, Active, vars, restVars, botVars
  <2> QED BY <2>1, FrameworkTyped
<1> QED BY <1>1, <1>2, PTL DEF Spec

(* The credentials of the shared client (Client::login and logout), the    *)
(* account the bot takes itself for and the dispatch of every event        *)
(* (Framework::dispatch) keep to their types, whatever frames and answers  *)
(* decode to; a dispatch calls or refuses no handler it has not come to.   *)
THEOREM Typed == Spec => []TypeOK
BY DispatchesTyped, PTL

-----------------------------------------------------------------------------
(* What a login or a logout leaves in the slot.                            *)

LEMMA CallsFollowNext ==
  ASSUME ToldAsMeant, RestTypeOK, CallsFollow, [Next]_vars PROVE CallsFollow'
<1>1. CASE RestNext
  BY <1>1, CallsFollowKept
<1>2. CASE UNCHANGED restVars
  BY <1>2 DEF restVars, CallsFollow, CallFollows
<1>3. RestNext \/ UNCHANGED restVars
  BY RestMoves, FrameworkAssumption DEF vars
<1> QED BY <1>1, <1>2, <1>3

(* A login or a logout that no other call disturbs leaves in the slot what *)
(* it documents (Client::login and Client::logout of the REST client), for *)
(* any number of clones of the client and however their calls interleave,  *)
(* are answered or are dropped; as long as answers decode to what was      *)
(* meant by them.                                                          *)
THEOREM LoneCallsKept ==
  ASSUME ToldAsMeant PROVE Spec => LoneCallsAtomic
<1>1. Init => CallsFollow
  BY DEF Init, RestInit, CallsFollow, CallFollows, Idle
<1>2. TypeOK /\ CallsFollow /\ [Next]_vars => CallsFollow'
  BY CallsFollowNext DEF TypeOK
<1>3. TypeOK /\ CallsFollow /\ [Next]_vars =>
        [\A t \in Tasks :
           call[t].stage = "answered" /\ Return(t) /\ t \notin disturbed
             => Documented(call[t], slot')]_restVars
  BY ReturnsAsDocumented DEF TypeOK, CallsFollow
<1> QED BY <1>1, <1>2, <1>3, DispatchesTyped, PTL DEF Spec, LoneCallsAtomic

-----------------------------------------------------------------------------
(* Filters and extractors, against what a handler was declared for.        *)

LEMMA DecodedAsEvents ==
  ASSUME NEW e \in Decodings PROVE IsEvent(e)
<1>1. IsEvent(Nothing) /\ IsEvent(Resubscribed)
  BY DEF IsEvent, Nothing, Resubscribed, Event, Posted
<1> QED BY <1>1, FrameworkAssumption DEF Decodings

LEMMA HandlersDeclared ==
  ASSUME NEW i \in 1 .. Len(Handlers) PROVE IsHandler(Handlers[i])
BY HandlersCounted, FrameworkAssumption

\* For the account the bot listens as, the filters pass what is wanted.
LEMMA Judged ==
  ASSUME NEW h, NEW e, IsEvent(e), Filterable(e), me = identity
  PROVE  LocallyFiltered(h, e) <=> ~Wants(h, e.message, e.room)
<1>1. PICK m \in Messages : m = e.message
  BY DEF IsEvent, Filterable
<1>2. m.author # None /\ None \notin m.mentions
  BY FrameworkAssumption DEF Messages
<1>3. (~h.allow_self /\ me # None /\ m.author = me) <=> ~(m.author = identity => h.allow_self)
  BY <1>2
<1>4. (h.mentions_me /\ ~(me # None /\ me \in m.mentions))
        <=> ~(h.mentions_me => identity \in m.mentions)
  BY <1>2
<1>5. (h.room # NoRoom /\ e.room # h.room) <=> ~(h.room \in {NoRoom, e.room})
  OBVIOUS
<1> QED BY <1>1, <1>3, <1>4, <1>5 DEF LocallyFiltered, Wants

\* What passed them is extracted by whom it concerns.
LEMMA Extracted ==
  ASSUME NEW h, IsHandler(h), NEW e, IsEvent(e), e # Nothing,
         Filterable(e) => Wants(h, e.message, e.room)
  PROVE  Extracts(h, e) <=> ShouldRun(h, e)
<1>1. e.kind # "none"
  BY DEF IsEvent
<1>2. h.event \in {"MessageCreate", "MessageDeleted", "Stream"}
  BY DEF IsHandler
<1>3. CASE h.event = "MessageCreate"
  BY <1>3 DEF Extracts, ShouldRun, Filterable
<1>4. CASE h.event = "MessageDeleted"
  BY <1>4 DEF Extracts, ShouldRun, Filterable
<1>5. CASE h.event = "Stream"
  BY <1>1, <1>5 DEF Extracts, ShouldRun, Filterable
<1> QED BY <1>2, <1>3, <1>4, <1>5

\* What the connection keeps to itself is for nobody.
LEMMA NothingForNobody ==
  ASSUME NEW h, IsHandler(h) PROVE ~ShouldRun(h, Nothing)
<1>1. Nothing.kind = "none"
  BY DEF Nothing, Event
<1> QED BY <1>1 DEF IsHandler, ShouldRun, Posted

-----------------------------------------------------------------------------
(* One handler after the other.                                            *)

\* The handler a dispatch was at has run if and only if it was to.
LEMMA HeardOneMore ==
  ASSUME NEW w, NEW v, NEW n, n = w.at, n \in Nat \ {0}, Heard(w, n - 1), v.said = w.said,
         w.called \cup w.refused \subseteq 1 .. n - 1,
         v.called \in {w.called, w.called \cup {n}},
         v.refused \in {w.refused, w.refused \cup {n}},
         n \in v.called <=> (ShouldRun(Handlers[n], w.said) /\ n \notin v.refused)
  PROVE  Heard(v, n)
<1>1. PICK S : S = {i \in 1 .. n : ShouldRun(Handlers[i], w.said)}
  OBVIOUS
<1>2. S \subseteq 1 .. n /\ (n \in S <=> ShouldRun(Handlers[n], w.said))
  BY <1>1
<1>3. w.called = (S \ {n}) \ w.refused
  BY <1>1 DEF Heard
<1>4. n \notin w.called /\ n \notin w.refused
  OBVIOUS
<1>5. v.called = S \ v.refused
  BY <1>2, <1>3, <1>4
<1> QED BY <1>1, <1>5 DEF Heard

\* A dispatch that is past a handler knows what has run so far.
LEMMA PastFollows ==
  ASSUME NEW w, IsWork(w), w.at \in 1 .. Len(Handlers), WorkFollows(w), w.stage \in UnderWay,
         NEW v, IsWork(v), AtHandler(v), Keeps(w, v), Past(w, v),
         ~doubtful => Heard(v, w.at),
         v.called \cup v.refused \subseteq 1 .. w.at
  PROVE  WorkFollows(v)
<1>1. /\ bot = "up" /\ v.event = v.said /\ v.event # Nothing
  BY DEF WorkFollows, UnderWay, Keeps
<1>2. w.at \in Nat
  BY HandlersCounted
<1>3. CASE v.stage = "done" /\ v.at = w.at
  BY <1>1, <1>3 DEF WorkFollows, UnderWay
<1>4. CASE v.stage = "offering" /\ v.at = w.at + 1
  <2>1. v.at - 1 = w.at
    BY <1>2, <1>4
  <2>2. v.at \in 1 .. Len(Handlers)
    BY <1>4 DEF AtHandler, UnderWay
  <2> QED BY <1>1, <1>4, <2>1, <2>2 DEF WorkFollows, UnderWay
<1> QED BY <1>3, <1>4 DEF Past

LEMMA TakeFollows ==
  ASSUME HeardAsSaid, NEW d \in Dispatchers,
         (\E frame \in Sent : TakeFrame(d, frame)) \/ TakeResubscribed(d)
  PROVE  \E v : Becomes(d, v) /\ WorkFollows(v)
<1>1. PICK v : /\ Becomes(d, v) /\ bot = "up" /\ v.called = {} /\ v.refused = {}
               /\ \E frame \in Sent \cup {Reconnected} :
                    v.event = frame.event /\ v.said = frame.said
               /\ \/ v.stage = "done" /\ v.event = Nothing /\ v.at = Len(Handlers)
                  \/ v.event # Nothing /\ v.stage = "done" /\ v.at = 0
                  \/ v.event # Nothing /\ v.stage = "offering" /\ v.at = 1
  BY TakeDoes
<1>2. v.event = v.said
  BY <1>1 DEF HeardAsSaid, Reconnected
<1>3. CASE v.stage = "done" /\ v.event = Nothing /\ v.at = Len(Handlers)
  <2>1. \A i \in 1 .. Len(Handlers) : ~ShouldRun(Handlers[i], v.said)
    BY <1>2, <1>3, HandlersDeclared, NothingForNobody
  <2>2. Heard(v, v.at)
    BY <1>1, <1>3, <2>1 DEF Heard
  <2> QED BY <1>1, <1>2, <1>3, <2>2 DEF WorkFollows, UnderWay
<1>4. CASE v.event # Nothing /\ v.stage = "done" /\ v.at = 0
  <2>1. Heard(v, v.at)
    BY <1>1, <1>4 DEF Heard
  <2> QED BY <1>1, <1>2, <1>4, <2>1 DEF WorkFollows, UnderWay
<1>5. CASE v.event # Nothing /\ v.stage = "offering" /\ v.at = 1
  <2>1. Heard(v, v.at - 1)
    BY <1>1, <1>5 DEF Heard
  <2>2. v.at \in 1 .. Len(Handlers)
    BY <1>1, <1>5 DEF Becomes, AtHandler, UnderWay
  <2> QED BY <1>1, <1>2, <1>5, <2>1, <2>2 DEF WorkFollows, UnderWay
<1> QED BY <1>1, <1>3, <1>4, <1>5

\* What is known of a handler that is being offered an event.
LEMMA Offering ==
  ASSUME TypeOK, DispatchFollows, NEW d \in Dispatchers, NEW w, w = work[d],
         w.stage \in UnderWay
  PROVE  /\ IsWork(w) /\ w.at \in 1 .. Len(Handlers) /\ w.at \in Nat \ {0}
         /\ WorkFollows(w) /\ w.event = w.said /\ IsEvent(w.event) /\ w.event # Nothing
         /\ IsHandler(Handlers[w.at])
         /\ ~doubtful => Heard(w, w.at - 1)
         /\ w.called \cup w.refused \subseteq 1 .. w.at - 1
         /\ w.at \notin w.called /\ w.at \notin w.refused
<1>1. IsWork(w) /\ w.event \in Decodings
  BY DEF TypeOK, IsWork, Works
<1>2. WorkFollows(w)
  BY DEF DispatchFollows
<1>3. /\ w.at \in 1 .. Len(Handlers) /\ w.event # Nothing /\ w.event = w.said
      /\ ~doubtful => Heard(w, w.at - 1)
      /\ w.called \cup w.refused \subseteq 1 .. w.at - 1
  BY <1>2 DEF WorkFollows, UnderWay
<1>4. w.at \in Nat \ {0}
  BY <1>3, HandlersCounted
<1>5. w.at \notin w.called /\ w.at \notin w.refused
  BY <1>3, <1>4
<1>6. IsHandler(Handlers[w.at])
  BY <1>3, HandlersDeclared
<1> QED BY <1>1, <1>2, <1>3, <1>4, <1>5, <1>6, DecodedAsEvents

LEMMA FilterFollows ==
  ASSUME TypeOK, AtHandlers, DispatchFollows, NEW d \in Dispatchers, Filter(d)
  PROVE  \E v : Becomes(d, v) /\ WorkFollows(v)
<1>1. PICK w : w = work[d]
  OBVIOUS
<1>2. PICK v : /\ Becomes(d, v) /\ Keeps(w, v) /\ w.stage = "offering"
               /\ v.called = w.called /\ v.refused = w.refused
               /\ \/ ~Filterable(w.event) /\ v.stage = "calling" /\ v.at = w.at
                  \/ /\ Filterable(w.event) /\ me # Unset
                     /\ LocallyFiltered(Handlers[w.at], w.event) /\ Past(w, v)
                  \/ /\ Filterable(w.event) /\ me # Unset
                     /\ ~LocallyFiltered(Handlers[w.at], w.event)
                     /\ v.stage \in {"asking", "calling"} /\ v.at = w.at
  BY <1>1, FilterDoes
<1>3. w.stage \in UnderWay /\ v.said = w.said /\ v.event = w.event
  BY <1>2 DEF UnderWay, Keeps
<1>4. /\ IsWork(w) /\ w.at \in 1 .. Len(Handlers) /\ w.at \in Nat \ {0}
      /\ WorkFollows(w) /\ w.event = w.said /\ IsEvent(w.event) /\ w.event # Nothing
      /\ IsHandler(Handlers[w.at])
      /\ ~doubtful => Heard(w, w.at - 1)
      /\ w.called \cup w.refused \subseteq 1 .. w.at - 1
      /\ w.at \notin w.called /\ w.at \notin w.refused
  BY <1>1, <1>3, Offering
<1>5. bot = "up"
  BY <1>3, <1>4 DEF WorkFollows, UnderWay
<1>6. CASE v.at = w.at /\ v.stage \in {"asking", "calling"}
  <2>1. Heard(w, w.at - 1) => Heard(v, v.at - 1)
    BY <1>2, <1>3, <1>6 DEF Heard
  <2>2. /\ v.stage = "asking" => Filterable(v.event)
        /\ Filterable(v.event) => me # Unset /\ ~LocallyFiltered(Handlers[v.at], v.event)
    BY <1>2, <1>3, <1>6 DEF Past
  <2>3. v.called \cup v.refused \subseteq 1 .. v.at - 1
    BY <1>2, <1>4, <1>6
  <2>4. WorkFollows(v)
    BY <1>3, <1>4, <1>5, <1>6, <2>1, <2>2, <2>3 DEF WorkFollows, UnderWay
  <2> QED BY <1>2, <2>4
<1>7. CASE /\ Filterable(w.event) /\ me # Unset
           /\ LocallyFiltered(Handlers[w.at], w.event) /\ Past(w, v)
  <2>1. ASSUME ~doubtful PROVE Heard(v, w.at)
    <3>1. me = identity
      BY <1>7, <2>1 DEF DispatchFollows, MeFollows
    <3>2. ~Wants(Handlers[w.at], w.event.message, w.event.room)
      BY <1>4, <1>7, <3>1, Judged
    <3>3. ~ShouldRun(Handlers[w.at], w.said)
      BY <1>4, <1>7, <3>2 DEF ShouldRun, Filterable
    <3> QED BY <1>2, <1>3, <1>4, <2>1, <3>3, HeardOneMore
  <2>2. v.called \cup v.refused \subseteq 1 .. w.at
    BY <1>2, <1>4 DEF IsWork
  <2> QED BY <1>2, <1>3, <1>4, <1>7, <2>1, <2>2, PastFollows DEF Becomes
<1> QED BY <1>2, <1>6, <1>7

LEMMA AskFollows ==
  ASSUME HeardAsSaid, TypeOK, AtHandlers, DispatchFollows, NEW d \in Dispatchers,
         AskDirectory(d)
  PROVE  \E v : Becomes(d, v) /\ WorkFollows(v)
<1>1. PICK w : w = work[d]
  OBVIOUS
<1>2. PICK v : /\ Becomes(d, v) /\ Keeps(w, v) /\ w.stage = "asking" /\ v.called = w.called
               /\ v.refused \in {w.refused, w.refused \cup {w.at}}
               /\ \/ /\ v.stage = "calling" /\ v.at = w.at
                     /\ HeardAsSaid => v.refused = w.refused
                  \/ /\ Past(w, v)
                     /\ HeardAsSaid => v.refused = w.refused \cup {w.at}
  BY <1>1, AskDoes
<1>3. w.stage \in UnderWay /\ v.said = w.said /\ v.event = w.event
  BY <1>2 DEF UnderWay, Keeps
<1>4. /\ IsWork(w) /\ w.at \in 1 .. Len(Handlers) /\ w.at \in Nat \ {0}
      /\ WorkFollows(w) /\ w.event = w.said /\ IsEvent(w.event) /\ w.event # Nothing
      /\ IsHandler(Handlers[w.at])
      /\ ~doubtful => Heard(w, w.at - 1)
      /\ w.called \cup w.refused \subseteq 1 .. w.at - 1
      /\ w.at \notin w.called /\ w.at \notin w.refused
  BY <1>1, <1>3, Offering
<1>5. CASE v.stage = "calling" /\ v.at = w.at /\ v.refused = w.refused
  <2>1. Heard(w, w.at - 1) => Heard(v, v.at - 1)
    BY <1>2, <1>3, <1>5 DEF Heard
  <2>2. bot = "up" /\ me # Unset /\ ~LocallyFiltered(Handlers[w.at], w.event)
    BY <1>2, <1>4 DEF WorkFollows, UnderWay
  <2> QED BY <1>2, <1>3, <1>4, <1>5, <2>1, <2>2 DEF WorkFollows, UnderWay
<1>6. CASE Past(w, v) /\ v.refused = w.refused \cup {w.at}
  <2>1. ASSUME ~doubtful PROVE Heard(v, w.at)
    <3>1. w.at \notin v.called /\ w.at \in v.refused
      BY <1>2, <1>4, <1>6
    <3> QED BY <1>2, <1>3, <1>4, <2>1, <3>1, HeardOneMore
  <2>2. v.called \cup v.refused \subseteq 1 .. w.at
    BY <1>2, <1>4, <1>6 DEF IsWork
  <2> QED BY <1>2, <1>3, <1>4, <1>6, <2>1, <2>2, PastFollows DEF Becomes
<1> QED BY <1>2, <1>5, <1>6

LEMMA CallFollowed ==
  ASSUME TypeOK, AtHandlers, DispatchFollows, NEW d \in Dispatchers,
         CallHandler(d) \/ HandlerPanics(d)
  PROVE  \E v : Becomes(d, v) /\ WorkFollows(v)
<1>1. PICK w : w = work[d]
  OBVIOUS
<1>2. PICK v : /\ Becomes(d, v) /\ Keeps(w, v) /\ w.stage = "calling" /\ Past(w, v)
               /\ v.called = w.called \cup (IF Extracts(Handlers[w.at], w.event)
                                              THEN {w.at} ELSE {})
               /\ v.refused = w.refused
  BY <1>1, CallDoes
<1>3. w.stage \in UnderWay /\ v.said = w.said /\ v.event = w.event
  BY <1>2 DEF UnderWay, Keeps
<1>4. /\ IsWork(w) /\ w.at \in 1 .. Len(Handlers) /\ w.at \in Nat \ {0}
      /\ WorkFollows(w) /\ w.event = w.said /\ IsEvent(w.event) /\ w.event # Nothing
      /\ IsHandler(Handlers[w.at])
      /\ ~doubtful => Heard(w, w.at - 1)
      /\ w.called \cup w.refused \subseteq 1 .. w.at - 1
      /\ w.at \notin w.called /\ w.at \notin w.refused
  BY <1>1, <1>3, Offering
<1>5. v.called \in {w.called, w.called \cup {w.at}}
      /\ (w.at \in v.called <=> Extracts(Handlers[w.at], w.event))
  BY <1>2, <1>4
<1>6. ASSUME ~doubtful PROVE Heard(v, w.at)
  <2>1. Filterable(w.event) => Wants(Handlers[w.at], w.event.message, w.event.room)
    <3>1. SUFFICES ASSUME Filterable(w.event)
                   PROVE  Wants(Handlers[w.at], w.event.message, w.event.room)
      OBVIOUS
    <3>2. me # Unset /\ ~LocallyFiltered(Handlers[w.at], w.event)
      BY <1>2, <1>4, <3>1 DEF WorkFollows
    <3>3. me = identity
      BY <1>6, <3>2 DEF DispatchFollows, MeFollows
    <3> QED BY <1>4, <3>1, <3>2, <3>3, Judged
  <2>2. Extracts(Handlers[w.at], w.event) <=> ShouldRun(Handlers[w.at], w.event)
    BY <1>4, <2>1, Extracted
  <2>3. w.at \in v.called <=> (ShouldRun(Handlers[w.at], w.said) /\ w.at \notin v.refused)
    BY <1>2, <1>4, <1>5, <2>2
  <2> QED BY <1>2, <1>3, <1>4, <1>5, <1>6, <2>3, HeardOneMore
<1>7. v.called \cup v.refused \subseteq 1 .. w.at
  BY <1>2, <1>4 DEF IsWork
<1> QED BY <1>2, <1>3, <1>4, <1>6, <1>7, PastFollows DEF Becomes

-----------------------------------------------------------------------------
(* Every handler hears what it was declared for.                           *)

\* Nothing that a step leaves alone becomes false by it.
LEMMA OthersFollowed ==
  ASSUME UNCHANGED <<bot, identity, me, doubtful>>, NEW w, WorkFollows(w)
  PROVE  WorkFollows(w)'
BY DEF WorkFollows, Heard, ShouldRun, Wants, LocallyFiltered

LEMMA DispatchFollowed ==
  ASSUME HeardAsSaid, TypeOK, AtHandlers, DispatchFollows, NEW d \in Dispatchers, Dispatch(d)
  PROVE  DispatchFollows'
<1>1. bot' = bot /\ identity' = identity
  BY DispatchFrame DEF botVars
<1>2. CASE \E v : Becomes(d, v) /\ WorkFollows(v)
  <2>1. PICK v : Becomes(d, v) /\ WorkFollows(v)
    BY <1>2
  <2>2. UNCHANGED <<bot, identity, me, doubtful>> /\ work' = [work EXCEPT ![d] = v]
    BY <1>1, <2>1 DEF Becomes
  <2>3. ASSUME NEW e \in Dispatchers PROVE WorkFollows(work[e])'
    <3>1. PICK w : w = work'[e]
      OBVIOUS
    <3>2. w = v \/ w = work[e]
      BY <2>2, <3>1 DEF TypeOK
    <3>3. WorkFollows(w)
      BY <2>1, <3>2 DEF DispatchFollows
    <3>4. WorkFollows(w)'
      BY <2>2, <3>3, OthersFollowed
    <3> QED BY <3>1, <3>4 DEF WorkFollows, Heard
  <2>4. MeFollows'
    BY <2>2 DEF DispatchFollows, MeFollows
  <2> QED BY <2>3, <2>4 DEF DispatchFollows
<1>3. CASE ReadMe(d)
  <2>1. /\ work[d].stage = "offering" /\ me = Unset /\ me' = Owner(slot)
        /\ doubtful' = (Owner(slot) # identity) /\ work' = work
    BY <1>3 DEF ReadMe
  <2>2. bot = "up" /\ ~doubtful
    BY <2>1 DEF DispatchFollows, MeFollows, WorkFollows
  <2>3. me' # Unset
    BY <2>1, OwnerTyped, FrameworkAssumption DEF TypeOK, RestTypeOK
  <2>4. MeFollows'
    BY <1>1, <2>1, <2>2, <2>3 DEF MeFollows
  <2>5. ASSUME NEW e \in Dispatchers PROVE WorkFollows(work[e])'
    <3>1. WorkFollows(work[e]) /\ work'[e] = work[e]
      BY <2>1 DEF DispatchFollows
    <3>2. ~(work[e].stage \in {"asking", "calling"} /\ Filterable(work[e].event))
      BY <2>1, <3>1 DEF WorkFollows
    <3> QED BY <1>1, <2>2, <3>1, <3>2 DEF WorkFollows, Heard, ShouldRun, Wants
  <2> QED BY <2>4, <2>5 DEF DispatchFollows
<1> QED BY <1>2, <1>3, TakeFollows, FilterFollows, AskFollows, CallFollowed DEF Dispatch

\* Until the bot is up, there is nothing to dispatch.
LEMMA ConnectFollowed ==
  ASSUME DispatchFollows, UNCHANGED frameworkVars, bot # "up"
  PROVE  DispatchFollows'
<1>1. me = Unset /\ ~doubtful
  BY DEF DispatchFollows, MeFollows
<1>2. ASSUME NEW d \in Dispatchers PROVE work[d].stage = "idle"
  BY DEF DispatchFollows, WorkFollows
<1>3. me' = Unset /\ ~doubtful' /\ work' = work
  BY <1>1 DEF frameworkVars
<1>4. MeFollows'
  BY <1>3 DEF MeFollows
<1>5. ASSUME NEW d \in Dispatchers PROVE WorkFollows(work[d])'
  BY <1>2, <1>3 DEF WorkFollows, UnderWay
<1> QED BY <1>4, <1>5 DEF DispatchFollows

LEMMA FollowsNext ==
  ASSUME HeardAsSaid, TypeOK, AtHandlers, DispatchFollows, Next
  PROVE  DispatchFollows'
<1>1. CASE Connect \/ Connecting \/ Connected \/ ConnectFails
  <2>1. bot # "up" /\ UNCHANGED frameworkVars
    BY <1>1 DEF Connect, Connecting, Connected, ConnectFails
  <2> QED BY <2>1, ConnectFollowed
<1>2. CASE UseRest
  <2>1. UNCHANGED <<bot, identity, me, doubtful>> /\ work' = work
    BY <1>2 DEF UseRest, botVars, frameworkVars
  <2>2. MeFollows'
    BY <2>1 DEF DispatchFollows, MeFollows
  <2>3. ASSUME NEW d \in Dispatchers PROVE WorkFollows(work[d])'
    BY <2>1 DEF DispatchFollows, WorkFollows, Heard, ShouldRun, Wants, LocallyFiltered
  <2> QED BY <2>2, <2>3 DEF DispatchFollows
<1>3. ASSUME NEW d \in Dispatchers, Dispatch(d) PROVE DispatchFollows'
  BY <1>3, DispatchFollowed
<1> QED BY <1>1, <1>2, <1>3 DEF Next

LEMMA FollowsInit ==
  ASSUME Init PROVE DispatchFollows
<1>1. MeFollows
  BY DEF Init, MeFollows
<1>2. \A d \in Dispatchers : work[d].stage = "idle"
  BY NoWorkTyped DEF Init
<1> QED BY <1>1, <1>2 DEF DispatchFollows, WorkFollows, UnderWay

(* Each handler hears what its attribute asks for, in order and whichever  *)
(* of its neighbours are filtered, refused or fail (Framework::dispatch,   *)
(* Filters, HandlerArgs), for any handlers, any number of dispatches that  *)
(* overlap, and logins and logouts of the shared client meanwhile; as long *)
(* as frames and role lookups decode to what was said.                     *)
THEOREM HandlersRun ==
  ASSUME HeardAsSaid PROVE Spec => []HandlersRunAsDeclared
<1>1. Init => DispatchFollows
  BY FollowsInit
<1>2. TypeOK /\ AtHandlers /\ DispatchFollows /\ [Next]_vars => DispatchFollows'
  <2>1. ASSUME DispatchFollows, UNCHANGED vars PROVE DispatchFollows'
    <3>1. UNCHANGED <<bot, identity, me, doubtful>> /\ work' = work
      BY <2>1 DEF vars, botVars
    <3>2. MeFollows'
      BY <2>1, <3>1 DEF DispatchFollows, MeFollows
    <3>3. ASSUME NEW d \in Dispatchers PROVE WorkFollows(work[d])'
      BY <2>1, <3>1 DEF DispatchFollows, WorkFollows, Heard, ShouldRun, Wants, LocallyFiltered
    <3> QED BY <3>2, <3>3 DEF DispatchFollows
  <2> QED BY <2>1, FollowsNext
<1>3. DispatchFollows => HandlersRunAsDeclared
  BY DEF DispatchFollows, WorkFollows, Heard, HandlersRunAsDeclared
<1> QED BY <1>1, <1>2, <1>3, DispatchesTyped, PTL DEF Spec

=============================================================================
