------------------------------ MODULE RustHttp ------------------------------
(***************************************************************************)
(* The HTTP client of the Rust core (crates/truewire-core/src/http.rs),    *)
(* where it differs from Python's: reqwest's client is there from the      *)
(* start and never closes; the slot is taken before the request is built;  *)
(* a failure to connect is told apart by the method, and a redirect by the *)
(* URL of the reply.                                                       *)
(***************************************************************************)
EXTENDS PyHttp

CONSTANT Safe  \* the requests of a method that asks for no action

\* A body is bytes: every request can be sent twice.
Call(r) == r \in Replayable /\ Begin(r)

\* The slot is taken, and `prepare` or a header fails.
Spent(r) ==
  /\ Finish(r, "unprepared")
  /\ due' = Gap /\ since' = 0

\* `pace` up to where it suspends, which it does not if the lock and the slot
\* are free.
TakeLock(r) ==
  /\ pc[r] = "entering"
  /\ \/ Pace(r, client)
     \/ (Gap = 0 \/ (queue = <<>> /\ due = 0)) /\ Spent(r) /\ UNCHANGED queue
  /\ UNCHANGED <<effects, conn>>

PrepareFails(r) ==
  /\ pc[r] = "pacing"
  /\ Head(queue) = r /\ due = 0
  /\ queue' = Tail(queue)
  /\ Spent(r)
  /\ UNCHANGED <<effects, conn>>

\* `is_connect`: whatever was followed, only a safe method is sent again.
FailsToConnect(r, hopped) ==
  /\ pc[r] = "sending" /\ (hopped => r \in Redirecting)
  /\ Acts(r, hopped /\ r \notin Safe)
  /\ \/ (LastAttempt(r) \/ r \notin Safe) /\ Finish(r, "NetworkError")
     \/ ~LastAttempt(r) /\ r \in Safe /\ Backoff(r)
  /\ UNCHANGED <<conn, pace>>

\* The reply to a request that asks for an action and was redirected back to
\* its own URL: it passes for one that was not redirected, so a 429 or 503 is
\* answered by sending again what the first hop has acted on.  (A safe method has
\* asked for nothing: its reply is Answered.)
LoopsBack(r, refused, tooLong) ==
  LET over == LastAttempt(r) \/ ~refused \/ tooLong
  IN /\ pc[r] = "sending" /\ r \in Redirecting \ Safe
     /\ acted' = [acted EXCEPT ![r] = @ + 1]
     /\ looped' = looped \cup {r}
     /\ (over /\ Finish(r, "returned")) \/ (~over /\ Backoff(r))
     /\ UNCHANGED <<conn, pace>>

ReqwestEnds(r) ==
  \/ \E did \in BOOLEAN : FailsToConnect(r, did) \/ Lost(r, did)
  \/ \E refused, hopped, tooLong \in BOOLEAN : Answered(r, refused, hopped, tooLong)
  \/ \E refused, tooLong \in BOOLEAN : LoopsBack(r, refused, tooLong)

RustNext ==
  \/ \E r \in Requests :
       \/ Call(r) \/ TakeLock(r) \/ Start(r) \/ PrepareFails(r)
       \/ ReqwestEnds(r) \/ Again(r) \/ Cancel(r)
  \/ Tick

RustProgress(r) ==
  TakeLock(r) \/ Start(r) \/ PrepareFails(r) \/ ReqwestEnds(r) \/ Again(r)

=============================================================================
