------------------------------- MODULE Decode -------------------------------
(***************************************************************************)
(* Client.Decode (client.go): wait for the transaction, bump its gas on    *)
(* every timeout, then find the revert reason, decode and trace.           *)
(***************************************************************************)
EXTENDS GasBump

CONSTANTS
    TracingLevels  \* initial values of tracing_level

VARIABLES
    TracingLevel,  \* m.Cfg.TracingLevel
    revertErr      \* local: the transaction was reverted

decodeVars == <<input, TracingLevel, revertErr, result>>
vars == <<bumpVars, decodeVars>>

Inputs == {"tx", "nil", "txErr", "stickyErrors"}
Pending == [decoded |-> FALSE, err |-> "pending"]

Init ==
    /\ input \in Inputs
    /\ BumpInit(input \in {"tx", "stickyErrors"})
    /\ TracingLevel \in TracingLevels
    /\ revertErr = FALSE
    /\ result = Pending

\* Attempts option of retry.Do: it must be at least 1.
Attempts == IF cfg.retries = 0 THEN 1 ELSE cfg.retries

Return(decoded, err) ==
    /\ pc' = "returned"
    /\ result' = [decoded |-> decoded, err |-> err]

\* The early returns: errors collected earlier, a failed submission, no
\* transaction.
Start ==
    /\ pc = "start"
    /\ CASE input = "stickyErrors" -> Return(FALSE, "errors")
         [] input = "txErr"        -> Return(FALSE, "submission")
         [] input = "nil"          -> Return(FALSE, "none")
         [] OTHER                  -> pc' = "poll" /\ UNCHANGED result
    /\ UNCHANGED <<cfg, network, current, candidate, attempt, input,
                   TracingLevel, revertErr>>

GiveUp ==
    /\ pc = "gaveup"
    /\ Return(FALSE, "deadline")
    /\ UNCHANGED <<cfg, network, current, candidate, attempt, input,
                   TracingLevel, revertErr>>

ShouldTrace(reverted) ==
    TracingLevel = "ALL" \/ (TracingLevel = "REVERTED" /\ reverted)

ErrorOf(reverted) == IF reverted THEN "revert" ELSE "none"

(***************************************************************************)
(* The receipt is there.  callAndGetRevertReason replays a reverted        *)
(* transaction and returns some error whatever the replay does.            *)
(***************************************************************************)
RevertReason ==
    /\ pc = "receipt"
    /\ revertErr' = (status = 0)
    /\ pc' = "decode"
    /\ UNCHANGED <<cfg, network, current, candidate, attempt, input,
                   TracingLevel, result>>

(***************************************************************************)
(* decodeTransaction, whose errors Decode only logs: none of them is the   *)
(* freshly made errors.New(ErrNoABIMethod), so the branch that saves the   *)
(* hash of the transaction is not taken.                                   *)
(***************************************************************************)
DecodeTransaction ==
    /\ pc = "decode"
    /\ IF ShouldTrace(revertErr)
       THEN pc' = "trace" /\ UNCHANGED result
       ELSE Return(TRUE, ErrorOf(revertErr))
    /\ UNCHANGED <<cfg, network, current, candidate, attempt, input,
                   TracingLevel, revertErr>>

(***************************************************************************)
(* What TxDecoding finds inside these two: bytecode that is too short for  *)
(* the metadata it announces, asked for after a revert, and a log without  *)
(* topics, which only a successful transaction has.                        *)
(***************************************************************************)
Panics ==
    /\ \/ pc = "receipt" /\ status = 0
       \/ pc = "decode" /\ status = 1
    /\ pc' = "panic"
    /\ UNCHANGED <<cfg, network, current, candidate, attempt, decodeVars>>

\* The replay, the download of the bytecode and the traces have no deadline.
NoAnswer ==
    /\ ~cfg.reliable
    /\ \/ pc = "receipt" /\ status = 0
       \/ pc = "trace"
    /\ pc' = "unanswered"
    /\ UNCHANGED <<cfg, network, current, candidate, attempt, decodeVars>>

\* TraceGethTX succeeds, or fails for this transaction only.
Trace ==
    /\ pc = "trace"
    /\ Return(TRUE, ErrorOf(revertErr))
    /\ UNCHANGED <<cfg, network, current, candidate, attempt, input,
                   TracingLevel, revertErr>>

\* "debug_traceTransaction does not exist": tracing is switched off for good.
TraceNotSupported ==
    /\ pc = "trace"
    /\ TracingLevel' = "NONE"
    /\ Return(TRUE, ErrorOf(revertErr))
    /\ UNCHANGED <<cfg, network, current, candidate, attempt, input,
                   revertErr>>

DecodeStep ==
    \/ Start
    \/ GiveUp
    \/ RevertReason
    \/ DecodeTransaction
    \/ Panics
    \/ NoAnswer
    \/ Trace
    \/ TraceNotSupported

Next ==
    \/ DecodeStep
    \/ WaitStep /\ UNCHANGED decodeVars
    \/ Deadline /\ UNCHANGED decodeVars
    \/ BumpStep /\ UNCHANGED decodeVars
    \/ NextAttempt(Attempts) /\ UNCHANGED decodeVars
    \/ \E i \in live : Mine(i) /\ UNCHANGED decodeVars

Spec == Init /\ [][Next]_vars

(***************************************************************************)
(* The goroutine keeps running and its timer fires, although the loop is   *)
(* at the select only every other step.  Nothing makes the network mine.   *)
(***************************************************************************)
Fairness ==
    /\ WF_vars(DecodeStep)
    /\ WF_vars(WaitStep /\ UNCHANGED decodeVars)
    /\ WF_vars(BumpStep /\ UNCHANGED decodeVars)
    /\ WF_vars(NextAttempt(Attempts) /\ UNCHANGED decodeVars)
    /\ SF_vars(Deadline /\ UNCHANGED decodeVars)

FairSpec == Spec /\ Fairness

-----------------------------------------------------------------------------
(***************************************************************************)
(* A decoded transaction is the mined one and carries the error its        *)
(* receipt calls for, whatever decoding, tracing and bumping did           *)
(* (client.go 426: "If transaction was reverted the error returned will be *)
(* revert error").                                                         *)
(***************************************************************************)
ResultMatchesChain ==
    pc = "returned" /\ result.decoded =>
        /\ mined = current
        /\ (result.err = "revert") = (status = 0)

(***************************************************************************)
(* Waiting, bumping and retrying come to an end whatever the network and   *)
(* the node do: Decode returns, or the transaction it waits for is mined   *)
(* and it is the work on that one that panics, or asks an unreliable node  *)
(* something without a deadline (decode.go 283, 309; tracing.go 202).      *)
(***************************************************************************)
DecodeReturns ==
    <>(pc = "returned" \/ (pc \in {"panic", "unanswered"} /\ mined = current))

(***************************************************************************)
(* With a reliable node, a transaction mined before the last attempt is    *)
(* found: no timeout, bump or refused replacement makes Decode miss it.    *)
(* It returns the transaction unless decoding it panics.                   *)
(***************************************************************************)
MinedIsReported ==
    cfg.reliable /\ input = "tx" /\ mined # 0 /\ attempt < Attempts
        ~> (pc = "returned" /\ result.decoded) \/ (pc = "panic" /\ mined = current)
=============================================================================
