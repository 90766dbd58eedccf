------------------------------- MODULE TsHttp -------------------------------
(***************************************************************************)
(* The HTTP client of the TypeScript core (core-ts/src/http.ts), where it  *)
(* differs from Python's: `fetch` is there from the start and never        *)
(* closes; every request takes a turn on `paceTail`, be there nobody else; *)
(* `prepare` runs within the turn, before the slot is taken; and a failure *)
(* to connect is told apart by the method, as `fetch` hides redirects.     *)
(* Without a rate its requests share nothing: there is one, Gap # 0.       *)
(***************************************************************************)
EXTENDS PyHttp

CONSTANT Safe  \* the requests of a method that asks for no action

\* `pace`, up to the wait for the turn before.
TakeTurn(r) ==
  /\ pc[r] = "entering"
  /\ GoesOn(r, "pacing", client, closes)
  /\ queue' = Append(queue, r)
  /\ UNCHANGED <<due, since, effects, conn>>

\* The turn has come, and `prepare` throws or the attempt times out: the slot
\* stays free.
PrepareFails(r) ==
  /\ pc[r] = "pacing"
  /\ Head(queue) = r /\ due = 0
  /\ queue' = Tail(queue)
  /\ \E how \in {"unprepared", "NetworkError"} : Finish(r, how)
  /\ UNCHANGED <<due, since, effects, conn>>

\* `failedToConnect`: sent again if the method is safe, or if nothing was
\* followed.
FailsToConnect(r, hopped) ==
  /\ pc[r] = "sending" /\ (hopped => r \in Redirecting)
  /\ Acts(r, hopped /\ r \notin Safe)
  /\ \/ (LastAttempt(r) \/ r \in Redirecting \ Safe) /\ Finish(r, "NetworkError")
     \/ ~LastAttempt(r) /\ r \notin Redirecting \ Safe /\ Backoff(r)
  /\ UNCHANGED <<conn, pace>>

FetchEnds(r) ==
  \/ \E did \in BOOLEAN : FailsToConnect(r, did) \/ Lost(r, did)
  \/ \E refused, hopped, tooLong \in BOOLEAN : Answered(r, refused, hopped, tooLong)

TsNext ==
  \/ \E r \in Requests :
       \/ Begin(r) \/ TakeTurn(r) \/ Start(r) \/ PrepareFails(r)
       \/ FetchEnds(r) \/ Again(r) \/ Cancel(r)
  \/ Tick

TsProgress(r) ==
  TakeTurn(r) \/ Start(r) \/ PrepareFails(r) \/ FetchEnds(r) \/ Again(r)

=============================================================================
