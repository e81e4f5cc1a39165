------------------------ MODULE StakingCoordinator ------------------------
(***************************************************************************)
(* The staking loop of StakingCoordinator.LaunchStaker                     *)
(* (src/staking/coordinator.go) and the Factom monitor that feeds it.      *)
(*                                                                         *)
(* The monitor publishes one event per (height, minute) on the listener    *)
(* channel `alert`, blocking while the channel is full (spec.md 5).  The   *)
(* loop takes one event at a time, or returns when the context is         *)
(* cancelled.  On minute 1 it checks the entry-credit balance and, if it   *)
(* is not already staking, asks the SPR maker for a new SPR of that        *)
(* height; on minute 8 it stops staking.  The balance query and the SPR    *)
(* maker are external calls whose outcomes are chosen nondeterministically.*)
(***************************************************************************)
EXTENDS Integers, Sequences

CONSTANTS
    MaxHeight,    \* the monitor stops after this directory-block height
    AlertCap,     \* capacity of the listener channel
    MinuteSkips,  \* TRUE: the monitor may skip minutes between two events
    NoSPR         \* nil *StakingPriceRecord

ASSUME /\ MaxHeight \in Nat \ {0} /\ AlertCap \in Nat \ {0}
       /\ MinuteSkips \in BOOLEAN

Minutes == 0..9
Event == [dbht : 1..MaxHeight, minute : Minutes]

(* Outcomes of FactomEntryWriter.ECBalance() and SPRMaker.NewSPR().        *)
BalanceResults == {"error", "zero", "positive"}
SPRResults == {"ok", "canceled", "error"}

VARIABLES
    monitor,      \* the next event the monitor will publish
    alert,        \* the listener channel
    ctxDone,      \* ctx has been cancelled
    running,      \* LaunchStaker has not returned
    staking,      \* local `staking`
    sprTemplate,  \* local `sprTemplate`: NoSPR or [dbht |-> height]
    seen,         \* the last event the loop took (history variable)
    built         \* "no", "yes" or "panic": NewStakingCoordinatorFromConfig

(* The local `sprHash` is assigned at minute 1 but never read by the loop, *)
(* so it is left out.                                                      *)
vars == <<monitor, alert, ctxDone, running, staking, sprTemplate, seen, built>>

-----------------------------------------------------------------------------
(* The monitor, as spec.md 6 describes the ledger's block events.          *)

Successor(e) ==
    IF e.minute = 9 THEN [dbht |-> e.dbht + 1, minute |-> 0]
                    ELSE [dbht |-> e.dbht, minute |-> e.minute + 1]

(* Events that may follow e: the next minute, or with MinuteSkips any      *)
(* later minute up to the same minute of the next height.                  *)
Later(e) ==
    IF MinuteSkips
    THEN { f \in Event : \/ f.dbht = e.dbht /\ f.minute > e.minute
                         \/ f.dbht = e.dbht + 1 /\ f.minute <= e.minute }
    ELSE { f \in Event : f = Successor(e) }

Publish ==
    /\ built = "yes" /\ monitor.dbht <= MaxHeight
    /\ Len(alert) < AlertCap
    /\ alert' = Append(alert, monitor)
    /\ monitor' \in Later(monitor) \cup
                    (IF Successor(monitor).dbht > MaxHeight THEN {Successor(monitor)} ELSE {})
    /\ UNCHANGED <<ctxDone, running, staking, sprTemplate, seen, built>>

-----------------------------------------------------------------------------
(* The loop.                                                               *)

Init ==
    /\ monitor \in [dbht : {1}, minute : Minutes]
    /\ alert = <<>>
    /\ ctxDone = FALSE
    /\ running = TRUE
    /\ staking = FALSE
    /\ sprTemplate = NoSPR
    /\ seen = [dbht |-> 0, minute |-> 0]
    /\ built = "no"

(* NewStakingCoordinatorFromConfig and InitStaker: reading                *)
(* Staker.RecordsPerBlock or PopulateECAddress may fail, and either       *)
(* failure panics, ending the node before LaunchStaker runs.              *)
Construct ==
    /\ built = "no"
    /\ \E ok \in BOOLEAN :
         /\ built' = IF ok THEN "yes" ELSE "panic"
         /\ running' = ok
    /\ UNCHANGED <<monitor, alert, ctxDone, staking, sprTemplate, seen>>

(* The case minute 1 once the balance is known.                           *)
MinuteOne(fds, bal) ==
    IF bal # "positive" \/ staking
    THEN UNCHANGED <<staking, sprTemplate>>
    ELSE \E r \in SPRResults :
            /\ r = "canceled" => ctxDone
            /\ IF r = "ok"
               THEN /\ staking' = TRUE /\ sprTemplate' = [dbht |-> fds.dbht]
               ELSE staking' = FALSE /\ sprTemplate' = NoSPR

(* Mutant: no `case 8` reset of staking.                                    *)
HandleAlertNoMinuteEight ==
    /\ running /\ built = "yes"
    /\ alert # <<>>
    /\ LET fds == Head(alert) IN
         /\ alert' = Tail(alert)
         /\ seen' = fds
         /\ IF fds.minute = 1 THEN \E bal \in BalanceResults : MinuteOne(fds, bal)
                              ELSE UNCHANGED <<staking, sprTemplate>>
    /\ UNCHANGED <<monitor, ctxDone, running, built>>

(* Mutant: a failed balance query leaves the loop with `return` where the  *)
(* code has `continue StakingLoop`.                                        *)
HandleAlertReturnOnError ==
    /\ running /\ built = "yes"
    /\ alert # <<>>
    /\ LET fds == Head(alert) IN
         /\ alert' = Tail(alert)
         /\ seen' = fds
         /\ \E bal \in BalanceResults :
              IF fds.minute = 1 /\ bal = "error"
              THEN running' = FALSE /\ UNCHANGED <<staking, sprTemplate>>
              ELSE /\ running' = running
                   /\ CASE fds.minute = 1 -> MinuteOne(fds, bal)
                        [] fds.minute = 8 -> staking' = FALSE /\ UNCHANGED sprTemplate
                        [] OTHER          -> UNCHANGED <<staking, sprTemplate>>
    /\ UNCHANGED <<monitor, ctxDone, built>>

(* One iteration of StakingLoop that took fds from the alert channel.      *)
HandleAlert ==
    /\ running /\ built = "yes"
    /\ alert # <<>>
    /\ LET fds == Head(alert) IN
         /\ alert' = Tail(alert)
         /\ seen' = fds
         /\ CASE fds.minute = 1 -> \E bal \in BalanceResults : MinuteOne(fds, bal)
              [] fds.minute = 8 -> staking' = FALSE /\ UNCHANGED sprTemplate
              [] OTHER          -> UNCHANGED <<staking, sprTemplate>>
    /\ UNCHANGED <<monitor, ctxDone, running, built>>

(* The select took ctx.Done(): LaunchStaker returns.                       *)
Return ==
    /\ running /\ built = "yes"
    /\ ctxDone
    /\ running' = FALSE
    /\ UNCHANGED <<monitor, alert, ctxDone, staking, sprTemplate, seen, built>>

(* The node's exit handler cancels the context.                            *)
Cancel ==
    /\ ~ctxDone
    /\ ctxDone' = TRUE
    /\ UNCHANGED <<monitor, alert, running, staking, sprTemplate, seen, built>>

(* Nothing is left to do: the loop has returned, or the monitor has        *)
(* stopped and the loop waits on an empty channel.                         *)
Halted ==
    /\ \/ ~running
       \/ monitor.dbht > MaxHeight /\ alert = <<>>
    /\ UNCHANGED vars

Next ==
    \/ Construct
    \/ Publish
    \/ HandleAlert
    \/ Return
    \/ Cancel
    \/ Halted

(* The loop's goroutine is runnable whenever an event waits on its        *)
(* channel, so taking an event is weakly fair.  Nothing else needs to be. *)
Spec == Init /\ [][Next]_vars /\ WF_vars(HandleAlert)

-----------------------------------------------------------------------------
(* While the loop is staking, the SPR template it holds was made for the  *)
(* height of the event it handled last: a template never outlives its     *)
(* block.  It relies on minute 8 resetting `staking` and on every failed  *)
(* NewSPR resetting it too.                                                *)
TemplateCurrent ==
    staking => sprTemplate # NoSPR /\ sprTemplate.dbht = seen.dbht

(* The monitor blocks while the listener channel is full (it feeds every  *)
(* listener in turn), and nothing but LaunchStaker reads this channel.     *)
(* Every error of the minute-1 branch must `continue` the loop: a full    *)
(* channel is drained again unless the node is shutting down.              *)
ListenerDrained ==
    (built = "yes" /\ Len(alert) = AlertCap) ~> (Len(alert) < AlertCap \/ ctxDone)

=============================================================================
