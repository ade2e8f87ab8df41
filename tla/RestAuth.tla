------------------------------ MODULE RestAuth ------------------------------
(***************************************************************************)
(* The credentials of crates/rocketsocket-rest/src/client.rs: one slot,    *)
(* shared by every clone of a Client behind an RwLock that no call holds   *)
(* while it waits for the server.  A login or a logout therefore reads and *)
(* writes the slot in steps of its own, between which other calls run, the *)
(* server answers late or not at all, and its future may be dropped.  What *)
(* a call takes an answer for is decided by module RestAnswers.            *)
(***************************************************************************)
EXTENDS RestOutcomes

CONSTANTS
  Tasks,     \* those who call login and logout
  Accounts,
  Issued,    \* personal access tokens: Issued[t] is the account of token t
  Minted,    \* what `POST login' may mint: Minted[t] is the account of token t
  Outcomes   \* what each call may come to

ASSUME RestAssumption ==
  /\ Issued \in [DOMAIN Issued -> Accounts]
  /\ Minted \in [DOMAIN Minted -> Accounts]
  /\ DOMAIN Issued \cap DOMAIN Minted = {}
  /\ None \notin DOMAIN Issued \cup DOMAIN Minted \cup Accounts
  /\ DOMAIN Outcomes = Ops
  /\ \A op \in Ops : \A o \in Outcomes[op] :
       o.told.result \in Results /\ o.meant.result \in Results

Tokens == DOMAIN Issued \cup DOMAIN Minted
Slots == Tokens \cup {None}

\* The account a token belongs to: Authentication keeps both halves together.
Owner(t) ==
  CASE t \in DOMAIN Issued -> Issued[t]
    [] t \in DOMAIN Minted -> Minted[t]
    [] OTHER -> None

VARIABLES
  slot,       \* Inner::auth
  valid,      \* the tokens the server accepts
  call,       \* where each task's call stands
  disturbed   \* history: the tasks whose slot another call has written meanwhile

restVars == <<slot, valid, call, disturbed>>

Stages == {"idle", "asking", "sent", "answered"}

NoAnswer == Failing("none")
Answers(op, results) == {o \in Outcomes[op] : o.meant.result \in results}

\* `given' is the credential of a login, `sent' the token the request carries,
\* `previous' what a login by token will put back, `found' (history) what the
\* slot held when the call began.
Calls ==
  [op : Ops, stage : Stages, given : Slots, sent : Slots, previous : Slots, found : Slots,
   answer : {NoAnswer, Failing("NotAuthenticated")} \cup UNION {Outcomes[op] : op \in Ops}]

Idle == [op |-> "none", stage |-> "idle", given |-> None, sent |-> None,
         previous |-> None, found |-> None, answer |-> NoAnswer]

RestInit ==
  /\ slot = None
  /\ valid = DOMAIN Issued
  /\ call = [t \in Tasks |-> Idle]
  /\ disturbed = {}

-----------------------------------------------------------------------------
Active(t) == call[t].stage # "idle"

\* The slot is written by `t', or by nobody's call (SetAuthentication).
Write(value, t) ==
  /\ slot' = value
  /\ disturbed' = {u \in Tasks \ {t} : Active(u)} \cup (disturbed \ {t})

Begin(t, op, stage) ==
  call' = [call EXCEPT ![t] = [Idle EXCEPT !.op = op, !.stage = stage, !.found = slot]]

(* login(PersonalAccessToken): the token is installed, to be tried by me().*)
LoginByToken(t, token) ==
  /\ ~Active(t)
  /\ token \in DOMAIN Issued
  /\ Write(token, t)
  /\ call' = [call EXCEPT ![t] = [Idle EXCEPT !.op = "pat", !.stage = "asking",
                                              !.given = token, !.found = slot,
                                              !.previous = slot]]
  /\ UNCHANGED valid

(* login(Password): the request carries no credentials.                    *)
LoginByPassword(t) ==
  /\ ~Active(t)
  /\ Begin(t, "password", "sent")
  /\ disturbed' = disturbed \ {t}
  /\ UNCHANGED <<slot, valid>>

(* logout(): nothing but the request is built yet.                         *)
Logout(t) ==
  /\ ~Active(t)
  /\ Begin(t, "logout", "asking")
  /\ disturbed' = disturbed \ {t}
  /\ UNCHANGED <<slot, valid>>

(* authenticated_request: the credentials are whatever the slot holds now, *)
(* and without any the call fails with nothing sent.                       *)
Send(t) ==
  /\ call[t].stage = "asking"
  /\ call' = [call EXCEPT
       ![t] = IF slot = None
                THEN [@ EXCEPT !.stage = "answered", !.answer = Failing("NotAuthenticated")]
                ELSE [@ EXCEPT !.stage = "sent", !.sent = slot]]
  /\ UNCHANGED <<slot, valid, disturbed>>

Answer(t, token, answers) ==
  \E answer \in answers :
    call' = [call EXCEPT ![t].stage = "answered", ![t].given = token, ![t].answer = answer]

(* External: the server serves `me'.                                       *)
ServeMe(t) ==
  /\ call[t].stage = "sent" /\ call[t].op = "pat"
  /\ Answer(t, call[t].given,
            Answers("pat", IF call[t].sent \in valid THEN {"ok"} ELSE {"Unauthorized"}))
  /\ UNCHANGED <<slot, valid, disturbed>>

(* External: it refuses a password, or mints a token nobody holds.         *)
ServeLogin(t) ==
  /\ call[t].stage = "sent" /\ call[t].op = "password"
  /\ \/ Answer(t, None, Answers("password", {"Unauthorized"})) /\ UNCHANGED valid
     \/ \E m \in DOMAIN Minted \ (valid \cup {slot}) :
          /\ \A u \in Tasks : m \notin {call[u].given, call[u].sent,
                                        call[u].previous, call[u].found}
          /\ Answer(t, m, Answers("password", {"ok"}))
          /\ valid' = valid \cup {m}
  /\ UNCHANGED <<slot, disturbed>>

(* External: it kills the token that logs out; the answer may not arrive.  *)
ServeLogout(t) ==
  /\ call[t].stage = "sent" /\ call[t].op = "logout"
  /\ valid' = valid \ {call[t].sent}
  /\ Answer(t, None,
       Answers("logout", {IF call[t].sent \in valid THEN "ok" ELSE "Unauthorized", "Transport"}))
  /\ UNCHANGED <<slot, disturbed>>

(* External: the network fails, or the answer is neither success nor 401.  *)
FailRequest(t) ==
  /\ call[t].stage = "sent"
  /\ Answer(t, call[t].given, Answers(call[t].op, Failures))
  /\ UNCHANGED <<slot, valid, disturbed>>

\* Mutant: logout forgets the credentials whatever the failure.
KeepsSlotAfterLogins(c) ==
  \/ c.op = "pat" /\ c.answer.told.result = "ok"
  \/ c.op = "password" /\ c.answer.told.result # "ok"

\* What a finished call leaves in the slot alone: a login that succeeded by
\* token, one that failed by password, a logout that failed otherwise than 401.
KeepsSlot(c) ==
  LET result == c.answer.told.result
  IN \/ c.op = "pat" /\ result = "ok"
     \/ c.op = "password" /\ result # "ok"
     \/ c.op = "logout" /\ result \notin {"ok", "Unauthorized"}

LeavesIn(c) ==
  CASE c.op = "pat"      -> c.previous
    [] c.op = "password" -> c.given
    [] c.op = "logout"   -> None

(* The call takes the answer: it writes the slot, if it does, and returns. *)
Return(t) ==
  /\ call[t].stage = "answered"
  /\ IF KeepsSlot(call[t])
       THEN UNCHANGED slot /\ disturbed' = disturbed \ {t}
       ELSE Write(LeavesIn(call[t]), t)
  /\ call' = [call EXCEPT ![t] = Idle]
  /\ UNCHANGED valid

(* The future of the call is dropped at an await: nothing is undone.       *)
Cancel(t) ==
  /\ Active(t)
  /\ call' = [call EXCEPT ![t] = Idle]
  /\ disturbed' = disturbed \ {t}
  /\ UNCHANGED <<slot, valid>>

(* set_authentication(): the slot is written without the server.           *)
SetAuthentication(value) ==
  /\ value \in Slots
  /\ slot' = value
  /\ disturbed' = {u \in Tasks : Active(u)}
  /\ UNCHANGED <<valid, call>>

(* External: the server stops accepting a token, for reasons of its own.   *)
Revoke(token) ==
  /\ token \in valid
  /\ valid' = valid \ {token}
  /\ UNCHANGED <<slot, call, disturbed>>

TaskNext(t) ==
  \/ \E token \in DOMAIN Issued : LoginByToken(t, token)
  \/ LoginByPassword(t) \/ Logout(t)
  \/ Send(t)
  \/ ServeMe(t) \/ ServeLogin(t) \/ ServeLogout(t) \/ FailRequest(t)
  \/ Return(t)
  \/ Cancel(t)

RestNext ==
  \/ \E t \in Tasks : TaskNext(t)
  \/ \E value \in Slots : SetAuthentication(value)
  \/ \E token \in Tokens : Revoke(token)

-----------------------------------------------------------------------------
RestTypeOK ==
  /\ slot \in Slots
  /\ valid \subseteq Tokens
  /\ call \in [Tasks -> Calls]
  /\ \A t \in Tasks : Active(t) <=> call[t].op # "none"
  /\ disturbed \subseteq Tasks

(* A call that has the slot to itself does what login and logout document, *)
(* whatever the server does to the tokens meanwhile: a login by token that *)
(* the server accepts leaves that very token, one that fails leaves what   *)
(* was there; a login by password leaves the minted token or nothing new;  *)
(* a logout leaves nothing after a success or a 401, and otherwise what it *)
(* found, for the call to be retried.  The caller is told what the server  *)
(* meant, class, code and delay, in whichever of its shapes it said it.    *)
Documented(c, left) ==
  LET result == c.answer.meant.result
  IN /\ c.answer.told = c.answer.meant
     /\ CASE c.op = "pat"      -> IF result = "ok" THEN left = c.given /\ c.sent = c.given
                                                    ELSE left = c.found
          [] c.op = "password" -> left = IF result = "ok" THEN c.given ELSE c.found
          [] c.op = "logout"   ->
               left = IF result \in {"ok", "Unauthorized"} THEN None ELSE c.found

LoneCallsAtomic ==
  [][\A t \in Tasks :
       call[t].stage = "answered" /\ Return(t) /\ t \notin disturbed
         => Documented(call[t], slot')]_restVars

=============================================================================
