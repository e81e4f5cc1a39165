--------------------------- MODULE ChainCreation ---------------------------
(***************************************************************************)
(* The chain-creation tool (src/initialization/main.go): main walks the   *)
(* map of PegNet chains and calls CreateChain for each; CreateChain skips  *)
(* a chain that exists, otherwise commits and reveals it in a loop of at   *)
(* most 1000 iterations, sleeping 5 s after a failed iteration.  Any error *)
(* is log.Fatal: the process exits, and the operator may run it again.     *)
(*                                                                         *)
(* factomd is the environment.  A commit is accepted once per chain; a     *)
(* reveal succeeds only for a committed, unrevealed chain.  Up to          *)
(* MaxFaults calls fail transiently: not applied, or (for a commit)        *)
(* applied with the reply lost.                                            *)
(***************************************************************************)
EXTENDS Integers, FiniteSets

CONSTANTS
    Chains,     \* the chains of the chainNames map
    MaxIter,    \* iterations of the retry loop (1000 in the code)
    MaxFaults,  \* transient factomd failures in a behaviour
    MaxRuns,    \* how many times the operator starts the tool
    SetupFails, \* TRUE: the config or walletd may fail before any chain
    NoChain

ASSUME MaxIter \in Nat \ {0} /\ MaxFaults \in Nat /\ MaxRuns \in Nat \ {0}
       /\ SetupFails \in BOOLEAN

VARIABLES
    committed,   \* factomd: chains whose commit was accepted
    revealed,    \* factomd: chains that exist
    faults,      \* transient failures so far
    runs,        \* times the tool was started
    pc,          \* "setup", "main", "loop", "fatal" or "exit"
    todo,        \* chains main has not handled in this run
    cur,         \* the chain CreateChain works on
    i,           \* loop counter
    commitErr,   \* commitErr != nil
    revealErr,   \* revealErr != nil
    reported     \* chains main logged as created or existing

vars == <<committed, revealed, faults, runs, pc, todo, cur, i,
          commitErr, revealErr, reported>>

-----------------------------------------------------------------------------
(* factomd.  Each operator gives the set of possible results of one call  *)
(* as records [err, committed | revealed, faults].                         *)

CommitResults(c, f) ==
    LET accepted == c \notin committed
    IN  { [err |-> ~accepted, committed |-> committed \cup (IF accepted THEN {c} ELSE {}),
           faults |-> f] }
        \cup
        (IF f < MaxFaults
         THEN { [err |-> TRUE, committed |-> committed, faults |-> f + 1],
                [err |-> TRUE, committed |-> committed \cup {c}, faults |-> f + 1] }
         ELSE {})

RevealResults(c, comm, f) ==
    LET ok == c \in comm /\ c \notin revealed
    IN  { [err |-> ~ok, revealed |-> revealed \cup (IF ok THEN {c} ELSE {}),
           faults |-> f] }
        \cup
        (IF f < MaxFaults
         THEN { [err |-> TRUE, revealed |-> revealed, faults |-> f + 1] }
         ELSE {})

-----------------------------------------------------------------------------
Init ==
    /\ committed = {} /\ revealed = {} /\ faults = 0
    /\ runs = 1
    /\ pc = "setup"
    /\ todo = {}
    /\ cur = NoChain
    /\ i = 0
    /\ commitErr = FALSE /\ revealErr = FALSE
    /\ reported = {}

(* main before the map walk: the config reads (panic on a missing key),   *)
(* the flags, and FetchECAddress (log.Fatal when walletd fails); then the  *)
(* chain map is built.                                                     *)
Setup ==
    /\ pc = "setup"
    /\ \/ /\ pc' = "main"
          /\ todo' = Chains
       \/ /\ SetupFails
          /\ pc' = "fatal"
          /\ UNCHANGED todo
    /\ UNCHANGED <<committed, revealed, faults, runs, cur, i,
                   commitErr, revealErr, reported>>

(* main picks the next chain of the map (in Go's random map order) and    *)
(* CreateChain asks factomd whether it exists.                            *)
StartChain ==
    /\ pc = "main"
    /\ \E c \in todo :
         /\ todo' = todo \ {c}
         /\ cur' = c
         /\ IF c \in revealed
            THEN /\ reported' = reported \cup {c}
                 /\ UNCHANGED <<pc, i, commitErr, revealErr>>
            ELSE /\ pc' = "loop"
                 /\ i' = 0
                 /\ commitErr' = FALSE /\ revealErr' = FALSE
                 /\ UNCHANGED reported
    /\ UNCHANGED <<committed, revealed, faults, runs>>

(* The loop test: retry the commit after a failed commit, and call the    *)
(* reveal again only while revealErr is nil.                               *)
RetryCommit == i = 0 \/ commitErr
RetryReveal == i = 0 \/ ~revealErr

(* The results of one iteration: the commit's (or the kept commitErr when  *)
(* it is not called again), then the reveal's.                             *)
CallResults ==
    LET Commits == IF RetryCommit THEN CommitResults(cur, faults)
                   ELSE {[err |-> commitErr, committed |-> committed, faults |-> faults]}
        Reveals(cr) == IF RetryReveal THEN RevealResults(cur, cr.committed, cr.faults)
                       ELSE {[err |-> revealErr, revealed |-> revealed, faults |-> cr.faults]}
    IN  UNION {{<<cr, rr>> : rr \in Reveals(cr)} : cr \in Commits}

(* The calls of one iteration, then the loop's exit test: the loop is left *)
(* when <<commitErr, revealErr>> is one of Exits, and main logs the chain; *)
(* otherwise the loop counts and sleeps.                                   *)
CallAndTest(Exits) ==
    \E r \in CallResults :
       LET cr == r[1]  rr == r[2] IN
         /\ committed' = cr.committed /\ revealed' = rr.revealed
         /\ faults' = rr.faults
         /\ commitErr' = cr.err /\ revealErr' = rr.err
         /\ IF <<cr.err, rr.err>> \in Exits
            THEN pc' = "main" /\ reported' = reported \cup {cur} /\ UNCHANGED i
            ELSE i' = i + 1 /\ UNCHANGED <<pc, reported>>
         /\ UNCHANGED <<runs, todo, cur>>

(* Mutant: leave the loop when either call succeeded.                      *)
IterateBreakOnEither ==
    pc = "loop" /\ i < MaxIter /\ CallAndTest(BOOLEAN \X BOOLEAN \ {<<TRUE, TRUE>>})

(* Mutant: the loop bound is not checked.                                  *)
IterateUnbounded ==
    pc = "loop" /\ CallAndTest({<<FALSE, FALSE>>})

(* One iteration of the for loop of CreateChain: leave when both calls    *)
(* returned nil (commitErr == nil && revealErr == nil).                    *)
Iterate ==
    pc = "loop" /\ i < MaxIter /\ CallAndTest({<<FALSE, FALSE>>})

(* The loop ran out: CreateChain returns the error and main exits.         *)
GiveUp ==
    /\ pc = "loop"
    /\ i = MaxIter
    /\ pc' = "fatal"
    /\ UNCHANGED <<committed, revealed, faults, runs, todo, cur, i,
                   commitErr, revealErr, reported>>

(* main has walked the whole map.                                          *)
Finish ==
    /\ pc = "main"
    /\ todo = {}
    /\ pc' = "exit"
    /\ UNCHANGED <<committed, revealed, faults, runs, todo, cur, i,
                   commitErr, revealErr, reported>>

(* The operator starts the tool again; factomd keeps its state.            *)
Rerun ==
    /\ pc \in {"fatal", "exit"}
    /\ runs < MaxRuns
    /\ runs' = runs + 1
    /\ pc' = "setup"
    /\ todo' = {}
    /\ cur' = NoChain
    /\ i' = 0
    /\ commitErr' = FALSE /\ revealErr' = FALSE
    /\ reported' = {}
    /\ UNCHANGED <<committed, revealed, faults>>

(* The tool is not running and will not be started again.                  *)
Stopped ==
    /\ pc \in {"fatal", "exit"}
    /\ UNCHANGED vars

Next == Setup \/ StartChain \/ Iterate \/ GiveUp \/ Finish \/ Rerun \/ Stopped

(* Only safety properties are checked here, so no step is assumed fair.    *)
Spec == Init /\ [][Next]_vars

-----------------------------------------------------------------------------
TypeOK ==
    /\ committed \subseteq Chains /\ revealed \subseteq committed
    /\ faults \in 0..MaxFaults /\ runs \in 1..MaxRuns
    /\ pc \in {"setup", "main", "loop", "fatal", "exit"}
    /\ todo \subseteq Chains /\ cur \in Chains \cup {NoChain}
    /\ i \in 0..MaxIter
    /\ commitErr \in BOOLEAN /\ revealErr \in BOOLEAN
    /\ reported \subseteq Chains

(* main logs a chain as created or existing only if factomd has it: the   *)
(* loop leaves only when both the commit and the reveal returned nil.      *)
ReportedChainsExist == reported \subseteq revealed

(* The loop retries "in 5 seconds" after a failure: a single transient    *)
(* factomd failure must not make the tool give up on a chain.             *)
SurvivesOneTransientFault == pc = "fatal" => faults > 1

=============================================================================
