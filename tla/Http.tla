-------------------------------- MODULE Http --------------------------------
(***************************************************************************)
(* The HTTP clients of the Python, TypeScript and Rust cores: a behaviour  *)
(* is one of a client of one core, chosen in Init, and the properties of   *)
(* PyHttp are asked of all three.  (Go's client sends each request once,   *)
(* at once.)                                                               *)
(*                                                                         *)
(* `fetch` and the reqwest client take the place of an httpx client that   *)
(* is open from the start.                                                 *)
(***************************************************************************)
EXTENDS PyHttp

CONSTANT Safe  \* the requests of a method that asks for no action

VARIABLE core  \* whose client this is

Ts == INSTANCE TsHttp
Rust == INSTANCE RustHttp

allvars == <<core, vars>>

HttpInit ==
  \/ core = "py" /\ Init
  \/ /\ core \in {"ts", "rust"}
     /\ core = "ts" => Gap # 0
     /\ InitWith(1)

PyNext == core = "py" /\ Next
TsNext == core = "ts" /\ Ts!TsNext
RustNext == core = "rust" /\ Rust!RustNext

HttpNext ==
  /\ PyNext \/ TsNext \/ RustNext
  /\ UNCHANGED core

HttpSpec == HttpInit /\ [][HttpNext]_allvars

-----------------------------------------------------------------------------
(* Fairness: every task that is ready runs, time passes, a send ends by the *)
(* timeout it was given, and a signer returns.                              *)

HttpProgress(r) ==
  /\ \/ core = "py" /\ (TakeClient(r) \/ Opened(r) \/ Start(r) \/ SendEnds(r) \/ Again(r))
     \/ core = "ts" /\ Ts!TsProgress(r)
     \/ core = "rust" /\ Rust!RustProgress(r)
  /\ UNCHANGED core

ExitEnds == core = "py" /\ (Closed \/ CloseCut) /\ UNCHANGED core

TimePasses == Tick /\ UNCHANGED core

HttpFairSpec ==
  /\ HttpSpec
  /\ \A r \in Requests : WF_allvars(HttpProgress(r))
  /\ WF_allvars(ExitEnds)
  /\ WF_allvars(TimePasses)

=============================================================================
