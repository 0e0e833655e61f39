--------------------------- MODULE PortfolioJobs ---------------------------
(***************************************************************************)
(* The consumer of system events beside the menu whose jobs it reads       *)
(* (internal/consumers/system_events_consumer.go): it runs the onboarding  *)
(* (internal/services/onboarding/service.go), which creates the strategy   *)
(* when the job names none, and tells the user about a failure.            *)
(***************************************************************************)
EXTENDS InvestFlow

VARIABLES
    offset,    \* jobs read; a read commits
    work,      \* the job at hand, 0 if none
    outcome    \* what became of the jobs dealt with

jobVars == <<offset, work, outcome>>

InitJobs == Init /\ offset = 0 /\ work = 0 /\ outcome = <<>>

ReadJob ==
    /\ work = 0
    /\ offset < Len(jobs)
    /\ offset' = offset + 1
    /\ work' = offset'
    /\ UNCHANGED <<vars, outcome>>

(* What StartOnboarding passes to CreateStrategy when the job names no     *)
(* strategy: neither a market type, which the job has, nor a frequency.    *)
FallbackParams == [market |-> "", rebalance |-> ""]

(* Two of the checks of CreateStrategy.                                    *)
ValidParams(p) ==
    /\ p.market \in {"spot", "futures"}
    /\ p.rebalance \in {"daily", "weekly", "monthly", "never"}

Finish(result) ==
    /\ outcome' = Append(outcome, result)
    /\ work' = 0
    /\ UNCHANGED <<vars, offset>>

(* handlePortfolioInitialization: the user gets a portfolio, or is told to *)
(* try again, when CreateStrategy refuses the parameters ("refused") or    *)
(* the database or the workflow fails ("error").                           *)
Onboard ==
    /\ work # 0
    /\ \/ /\ jobs[work].strategy = "" => ValidParams(FallbackParams)
          /\ Finish("portfolio")
       \/ /\ jobs[work].strategy = ""
          /\ ~ValidParams(FallbackParams)
          /\ Finish("refused")
       \/ Finish("error")

(* A crash loses the job at hand.                                          *)
CrashJobs ==
    /\ Crash
    /\ work' = 0
    /\ outcome' = IF work = 0 THEN outcome ELSE Append(outcome, "lost")
    /\ UNCHANGED offset

MenuStep ==
    /\ \/ \E x \in Handlers : Receive(x) \/ HandlerStep(x)
       \/ Expire
    /\ UNCHANGED jobVars

NextJobs == MenuStep \/ ReadJob \/ Onboard \/ CrashJobs

SpecJobs == InitJobs /\ [][NextJobs]_<<vars, jobVars>>

-----------------------------------------------------------------------------
(* "Empty strategy_id -> onboarding service will create it"                *)
(* (invest_menu.go): the creation is not refused.                          *)
StrategyIsCreated == \A i \in 1 .. Len(outcome) : outcome[i] # "refused"
=============================================================================
