------------------------------ MODULE Session ------------------------------
(***************************************************************************)
(* The DDP connection lifecycle of crates/rocketsocket-realtime/src/       *)
(* session.rs: a synchronous state machine that the runner drives.  It has *)
(* no IO of its own, so it is a set of step fragments over two variables   *)
(* that Connection.tla conjoins into its actions.                          *)
(*                                                                         *)
(* The session id is observability only and is left out; of the `login'    *)
(* failure only the fact is kept, since every class of it is terminal.     *)
(***************************************************************************)
EXTENDS Naturals

VARIABLES
  phase,      \* Session::phase
  loginCall   \* Session::login_call: the id of the outstanding login, or NoKey

sessionVars == <<phase, loginCall>>

Phases == {"Disconnected", "Handshaking", "Authenticating", "Ready", "FatallyClosed"}

(* `None' where the code has an Option of a call id.                       *)
NoKey == <<"none", 0>>

SessionInit ==
  /\ phase = "Disconnected"
  /\ loginCall = NoKey

(* Session::connect: the caller writes the `connect' frame.                *)
SessionConnect ==
  /\ phase' = "Handshaking"
  /\ loginCall' = NoKey

(* Session::handle on `connected', with the expect_login that the runner's *)
(* Action::Login makes before anything else can run.                       *)
SessionConnected(key) ==
  /\ phase' = "Authenticating"
  /\ loginCall' = key

(* Session::handle on `failed': version negotiation failed for good.       *)
SessionFailed ==
  /\ phase' = "FatallyClosed"
  /\ UNCHANGED loginCall

(* Session::handle on `result': only the outstanding login moves it.       *)
SessionResult(key, ok) ==
  \/ /\ key = loginCall
     /\ loginCall' = NoKey
     /\ phase' = IF ok THEN "Ready" ELSE "FatallyClosed"
  \/ /\ key # loginCall
     /\ UNCHANGED sessionVars

(* Session::disconnected: a terminal phase stays terminal.                 *)
SessionDisconnected ==
  /\ phase' = IF phase = "FatallyClosed" THEN phase ELSE "Disconnected"
  /\ loginCall' = NoKey

=============================================================================
