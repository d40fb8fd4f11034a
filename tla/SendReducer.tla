----------------------------- MODULE SendReducer -----------------------------
(***************************************************************************)
(* error.rs `transition`: the pure state machine of the send half.  One    *)
(* operator per SendInput variant; each returns the SendState afterwards   *)
(* and the one SendCommand emitted.  A command is an op and the terminal   *)
(* it carries; PublishTerminal's continuation is always the frontend that  *)
(* is running, so it is not repeated in the command.                       *)
(***************************************************************************)
EXTENDS Terminals

SendState == [send_submitting : BOOLEAN, send_inprogress : BOOLEAN,
              finish_submitting : BOOLEAN, finish_started : BOOLEAN,
              finish_complete : BOOLEAN, reset_submitting : BOOLEAN]

IdleSend == [send_submitting |-> FALSE, send_inprogress |-> FALSE,
             finish_submitting |-> FALSE, finish_started |-> FALSE,
             finish_complete |-> FALSE, reset_submitting |-> FALSE]

SubmissionReserved(s) == s.send_submitting \/ s.finish_submitting \/ s.reset_submitting

\* Mutant of Busy: an in-flight send does not refuse the next one.
BusySubmittingOnly(s) == \/ s.send_submitting
                         \/ s.finish_submitting \/ s.finish_started \/ s.finish_complete

\* Everything that makes send_data a misuse.
Busy(s) == \/ s.send_inprogress \/ s.send_submitting
           \/ s.finish_submitting \/ s.finish_started \/ s.finish_complete

\* SendEvent and SendPoll.
Complete(cancelled) == [poll |-> "Complete", flag |-> cancelled]
FinishComplete(graceful) == [poll |-> "FinishComplete", flag |-> graceful]
TerminalWake == [poll |-> "TerminalWake", flag |-> FALSE]
Pending == [poll |-> "Pending", flag |-> FALSE]
Closed == [poll |-> "Closed", flag |-> FALSE]

Do(s, op, t) == [state |-> s, op |-> op, t |-> t]
Emit(s, op) == Do(s, op, NoTerm)
PublishTerminal(s, t) == Do(s, "PublishTerminal", t)
ReturnError(s, t) == Do(s, "ReturnError", t)

-----------------------------------------------------------------------------
(* Results of the native submissions (ok: the call succeeded).             *)

OnSendSubmitted(s, ok, t) ==
    LET cleared == [s EXCEPT !.send_submitting = FALSE]
        flying  == [cleared EXCEPT !.send_inprogress = TRUE]
    IN  CASE ~s.send_submitting -> PublishTerminal(s, Internal("SendSubmitted without reservation"))
          [] s.send_submitting /\ ~ok -> PublishTerminal(cleared, DefinitiveOr(t, NativeFailure))
          [] s.send_submitting /\ ok  -> IF Definitive(t) THEN ReturnError(flying, t)
                                                          ELSE Emit(flying, "ReturnSent")

OnGracefulSubmitted(s, ok, t) ==
    LET cleared == [s EXCEPT !.finish_submitting = FALSE]
    IN  CASE ~s.finish_submitting -> PublishTerminal(s, Internal("GracefulSubmitted without reservation"))
          [] s.finish_submitting /\ ~ok -> PublishTerminal(cleared, DefinitiveOr(t, NativeFailure))
          [] s.finish_submitting /\ ok  -> Emit([cleared EXCEPT !.finish_started = TRUE], "Repoll")

OnResetSubmitted(s, ok, t) ==
    IF ~s.reset_submitting
    THEN PublishTerminal(s, Internal("ResetSubmitted without reservation"))
    ELSE PublishTerminal([s EXCEPT !.reset_submitting = FALSE],
                         DefinitiveOr(t, IF ok THEN LocalReset ELSE NativeFailure))

\* The winner of a publication: a provisional one is re-polled, never returned.
OnTerminalPublished(s, method, winner) ==
    CASE method \in {"send_data", "reset"} /\ ProvisionalPending(winner) -> Emit(s, "NoOp")
      [] method \notin {"send_data", "reset"} /\ ProvisionalPending(winner) -> Emit(s, "Repoll")
      [] method = "reset" /\ ~ProvisionalPending(winner) -> Emit(s, "NoOp")
      [] method # "reset" /\ ~ProvisionalPending(winner) -> ReturnError(s, winner)

-----------------------------------------------------------------------------
(* Requests.                                                               *)

OnSendRequested(s, payload, t) ==
    CASE Definitive(t) -> ReturnError(s, t)
      [] ~Definitive(t) /\ Busy(s) -> Emit(s, "Misuse")
      [] ~Definitive(t) /\ ~Busy(s) ->
            CASE payload = "Empty"     -> Emit(s, "ReturnSent")
              [] payload = "Oversized" -> Emit(s, "OversizedSend")
              [] payload = "NonEmpty"  -> Emit([s EXCEPT !.send_submitting = TRUE], "SubmitSend")

OnReset(s, t) ==
    CASE s.finish_complete \/ Definitive(t) -> Emit(s, "NoOp")
      [] ~(s.finish_complete \/ Definitive(t)) /\ SubmissionReserved(s) ->
            PublishTerminal(s, Internal("reset during submission reservation"))
      [] ~(s.finish_complete \/ Definitive(t)) /\ ~SubmissionReserved(s) ->
            Emit([s EXCEPT !.reset_submitting = TRUE], "SubmitReset")

\* Closed channel or lone wake: closure points of a retained provisional abort.
ClosurePoint(s, p, t) ==
    PublishTerminal(s, CASE ProvisionalPending(t) -> Aborted
                         [] ~ProvisionalPending(t) /\ p = Closed ->
                              Internal("send channel closed without a terminal")
                         [] ~ProvisionalPending(t) /\ p = TerminalWake ->
                              Internal("terminal wake without a terminal"))

UnexpectedComplete(s) == PublishTerminal(s, Internal("SendComplete without an outstanding send"))

OnPollReady(s, p, t) ==
    LET landed == [s EXCEPT !.send_inprogress = FALSE]
    IN  IF SubmissionReserved(s)
        THEN PublishTerminal(s, Internal("poll_ready during submission reservation"))
        ELSE IF Definitive(t) THEN ReturnError(landed, t)
        ELSE IF s.finish_started THEN ReturnError(s, Internal("poll_ready after finish"))
        ELSE CASE p \in {Closed, TerminalWake} -> ClosurePoint(s, p, t)
               [] p.poll = "Complete" -> IF ~s.send_inprogress THEN UnexpectedComplete(s)
                                         ELSE IF p.flag THEN PublishTerminal(landed, ProvisionalAbort)
                                         ELSE Emit(landed, "ReturnReady")
               [] p.poll = "FinishComplete" ->
                    PublishTerminal(s, Internal("finish event observed on poll_ready"))
               [] p = Pending -> IF s.send_inprogress \/ ProvisionalPending(t)
                                 THEN Emit(s, "Pending") ELSE Emit(s, "ReturnReady")

\* Mutant of OnFinishComplete: the graceful flag is not looked at.
OnFinishCompleteAny(s, graceful, t) ==
    IF s.finish_started
    THEN Emit([s EXCEPT !.finish_complete = TRUE], "ReturnFinished")
    ELSE PublishTerminal(s, Internal("finish complete without a started finish"))

\* A FinishComplete seen by poll_finish: the graceful one beats every terminal.
OnFinishComplete(s, graceful, t) ==
    CASE ~s.finish_started -> PublishTerminal(s, Internal("finish complete without a started finish"))
      [] s.finish_started /\ graceful  -> Emit([s EXCEPT !.finish_complete = TRUE], "ReturnFinished")
      [] s.finish_started /\ ~graceful -> PublishTerminal(s, DefinitiveOr(t, Aborted))

OnPollFinish(s, p, t) ==
    LET landed == [s EXCEPT !.send_inprogress = FALSE]
    IN  IF s.finish_complete THEN Emit(s, "ReturnFinished")
        ELSE IF SubmissionReserved(s)
        THEN PublishTerminal(s, Internal("poll_finish during submission reservation"))
        ELSE IF p.poll = "FinishComplete" THEN OnFinishComplete(s, p.flag, t)
        ELSE IF Definitive(t) THEN ReturnError(landed, t)
        ELSE CASE p \in {Closed, TerminalWake} -> ClosurePoint(s, p, t)
               [] p.poll = "Complete" /\ s.finish_started ->
                    PublishTerminal(s, Internal("impossible poll_finish event/state"))
               [] p.poll = "Complete" /\ ~s.finish_started ->
                    IF ~s.send_inprogress THEN UnexpectedComplete(s)
                    ELSE IF p.flag THEN PublishTerminal(landed, ProvisionalAbort)
                    ELSE Emit([landed EXCEPT !.finish_submitting = TRUE], "SubmitGraceful")
               [] p = Pending ->
                    IF s.finish_started \/ s.send_inprogress \/ ProvisionalPending(t)
                    THEN Emit(s, "Pending")
                    ELSE Emit([s EXCEPT !.finish_submitting = TRUE], "SubmitGraceful")
=============================================================================
