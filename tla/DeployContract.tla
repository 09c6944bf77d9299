--------------------------- MODULE DeployContract ---------------------------
(***************************************************************************)
(* Client.DeployContract (client.go): submit the creation, register the    *)
(* contract for tracing, wait until the transaction is mined and the code  *)
(* is at its address, bump gas on timeouts, save the address.  A           *)
(* replacement has the same sender and nonce, hence the same address.      *)
(***************************************************************************)
EXTENDS GasBump

CONSTANTS
    NoBumpAttempts  \* attempts when gas bumping is disabled, 10 in the code

ASSUME NoBumpAttemptsAssumption == NoBumpAttempts \in Nat \ {0}

VARIABLES
    save,     \* ShouldSaveDeployedContractMap
    code,     \* node: CodeAt returns the code of the contract
    waitErr,  \* local: the error of WaitDeployed
    errs,     \* the error log of retry.Do
    named,    \* the address is in ContractAddressToNameMap
    saved     \* the address is in the contract map file

deployVars == <<input, save, code, waitErr, errs, named, saved, result>>
deploymentVars == <<bumpVars, deployVars>>

NotDeployed == [ok |-> FALSE, errs |-> <<"pending">>]

DeployInit ==
    /\ BumpInit(FALSE)
    /\ input \in {"tx", "contextErr", "submitErr"}
    /\ save \in BOOLEAN
    /\ code = FALSE
    /\ waitErr = "none"
    /\ errs = <<>>
    /\ named = FALSE
    /\ saved = FALSE
    /\ result = NotDeployed

\* Attempts option of retry.Do.
DeployAttempts == IF cfg.retries = 0 THEN NoBumpAttempts ELSE cfg.retries

DeployReturn(ok, list) ==
    /\ pc' = "returned"
    /\ result' = [ok |-> ok, errs |-> list]

\* The context carries an error, or the node refuses the creation.
StartFails ==
    /\ pc = "start"
    /\ \/ input = "contextErr" /\ DeployReturn(FALSE, <<"context">>)
       \/ input = "submitErr" /\ DeployReturn(FALSE, <<"submission">>)
    /\ UNCHANGED <<cfg, network, current, candidate, attempt, input, save,
                   code, waitErr, errs, named, saved>>

\* bind.DeployContract: the node takes it.
Submit ==
    /\ pc = "start"
    /\ input = "tx"
    /\ live' = {1}
    /\ pc' = "submitted"
    /\ UNCHANGED <<cfg, txs, mined, status, current, candidate, attempt, deployVars>>

\* AddContract and AddABI: the contract can be named in traces.
Register ==
    /\ pc = "submitted"
    /\ named' = TRUE
    /\ pc' = "poll"
    /\ UNCHANGED <<cfg, network, current, candidate, attempt, input, save,
                   code, waitErr, errs, saved, result>>

\* An attempt fails with err: retry.Do keeps it and goes to the given place.
AttemptFails(err, place) ==
    /\ errs' = Append(errs, err)
    /\ pc' = place
    /\ UNCHANGED <<cfg, network, current, candidate, attempt, input, save,
                   code, named, saved, result>>

\* Mutant of WaitDeadline: the loop goes on after the deadline.
WaitDeadlineIgnored ==
    /\ pc = "tick"
    /\ pc' = "poll"
    /\ UNCHANGED <<cfg, network, current, candidate, attempt, deployVars>>

WaitDeadline ==
    /\ Deadline
    /\ errs' = Append(errs, "deadline")
    /\ UNCHANGED <<input, save, code, waitErr, named, saved, result>>

\* WaitDeployed has the receipt and asks for the code.
CodeFound ==
    /\ pc = "receipt"
    /\ code
    /\ pc' = "deployed"
    /\ UNCHANGED <<cfg, network, current, candidate, attempt, deployVars>>

\* Mutant of CodeMissing: the code at the address is not looked at.
CodeNotChecked ==
    /\ pc = "receipt"
    /\ ~code
    /\ pc' = "deployed"
    /\ UNCHANGED <<cfg, network, current, candidate, attempt, deployVars>>

\* There is none, or the RPC call fails with an error other than the deadline.
CodeMissing ==
    /\ pc = "receipt"
    /\ pc' = "confirm"
    /\ \/ ~code /\ waitErr' = "nocode"
       \/ Unreliable /\ waitErr' = "rpc"
    /\ UNCHANGED <<cfg, network, current, candidate, attempt, input, save,
                   code, errs, named, saved, result>>

\* The deadline passes during CodeAt.
CodeDeadline ==
    /\ Unreliable
    /\ pc = "receipt"
    /\ AttemptFails("deadline", AfterDeadline)
    /\ UNCHANGED waitErr

(***************************************************************************)
(* After any error but a deadline the receipt is fetched again, to tell a  *)
(* reverted creation, which is final, from code that is not there yet,     *)
(* which is waited for without bumping.                                    *)
(***************************************************************************)
ConfirmStatus ==
    /\ pc = "confirm"
    /\ CASE status = 0                         -> AttemptFails("reverted", "gaveup")
         [] status # 0 /\ waitErr = "nocode" -> AttemptFails("nocode", "next")
         [] OTHER                              -> AttemptFails("rpc", "gaveup")
    /\ waitErr' = "none"

ConfirmDeadline ==
    /\ Unreliable
    /\ pc = "confirm"
    /\ AttemptFails("deadline", AfterDeadline)
    /\ waitErr' = "none"

(***************************************************************************)
(* rewriteDeploymentError: the loop over the error log stops at the first  *)
(* error that is not a timeout, but does not clear areAllTimeouts, so one  *)
(* leading timeout is enough to rewrite every error.                       *)
(***************************************************************************)
AreAllTimeouts == Head(errs) = "deadline"

RewriteDeploymentError ==
    IF AreAllTimeouts THEN [i \in DOMAIN errs |-> "notMined"] ELSE errs

\* Decode(tx, ErrContractDeploymentFailed), called first, returns at once.
DeployGivesUp ==
    /\ pc = "gaveup"
    /\ DeployReturn(FALSE, RewriteDeploymentError)
    /\ UNCHANGED <<cfg, network, current, candidate, attempt, input, save,
                   code, waitErr, errs, named, saved>>

\* Saving the address may fail, which only logs a warning.
Deployed ==
    /\ pc = "deployed"
    /\ saved' \in IF save THEN BOOLEAN ELSE {FALSE}
    /\ DeployReturn(TRUE, <<>>)
    /\ UNCHANGED <<cfg, network, current, candidate, attempt, input, save,
                   code, waitErr, errs, named>>

DeployStep ==
    \/ StartFails
    \/ Submit
    \/ Register
    \/ CodeFound
    \/ CodeMissing
    \/ CodeDeadline
    \/ ConfirmStatus
    \/ ConfirmDeadline
    \/ DeployGivesUp
    \/ Deployed

\* A successful creation leaves code, which a lagging node shows later.
MineCreation(i) ==
    /\ Mine(i)
    /\ code' \in IF status' = 0 THEN {FALSE} ELSE IF Unreliable THEN BOOLEAN ELSE {TRUE}
    /\ UNCHANGED <<input, save, waitErr, errs, named, saved, result>>

CodeAppears ==
    /\ mined # 0 /\ status = 1
    /\ ~code
    /\ code' = TRUE
    /\ UNCHANGED <<bumpVars, input, save, waitErr, errs, named, saved, result>>

DeployNext ==
    \/ DeployStep
    \/ WaitStep /\ UNCHANGED deployVars
    \/ WaitDeadline
    \/ BumpStep /\ UNCHANGED deployVars
    \/ NextAttempt(DeployAttempts) /\ UNCHANGED deployVars
    \/ \E i \in live : MineCreation(i)
    \/ CodeAppears

DeploySpec == DeployInit /\ [][DeployNext]_deploymentVars

\* As in Decode: the goroutine runs and its timer fires, nothing else is fair.
DeployFairness ==
    /\ WF_deploymentVars(DeployStep)
    /\ WF_deploymentVars(WaitStep /\ UNCHANGED deployVars)
    /\ WF_deploymentVars(BumpStep /\ UNCHANGED deployVars)
    /\ WF_deploymentVars(NextAttempt(DeployAttempts) /\ UNCHANGED deployVars)
    /\ SF_deploymentVars(WaitDeadline)

DeployFairSpec == DeploySpec /\ DeployFairness

-----------------------------------------------------------------------------
(***************************************************************************)
(* client.go 1111: DeployContract "waits for transaction to be minted and  *)
(* contract really available at the address, so that when the method       *)
(* returns it's safe to interact with it".  Whatever was bumped, lost or   *)
(* late, the transaction it returns is the mined one and the code is       *)
(* there; the same holds for an address in the contract map file, which    *)
(* later sessions load.                                                    *)
(***************************************************************************)
DeployedIsUsable ==
    result.ok \/ saved => mined = current /\ status = 1 /\ code

\* DeployContract returns, whatever the network and the node do.
DeployReturns == <>(pc = "returned")

(***************************************************************************)
(* With gas bumping and a reliable node, a creation that was mined with    *)
(* success before the last attempt is found, whichever timeout, bump or    *)
(* refused replacement it raced with.                                      *)
(***************************************************************************)
DeploymentIsFound ==
    cfg.reliable /\ cfg.retries # 0 /\ mined # 0 /\ status = 1 /\ attempt < DeployAttempts
        ~> pc = "returned" /\ result.ok
=============================================================================
