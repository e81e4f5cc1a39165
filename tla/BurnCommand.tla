---------------------------- MODULE BurnCommand ----------------------------
(***************************************************************************)
(* The `pegnet burn` command (src/cmd/cmd.go) run by several CLI           *)
(* processes against one factom-walletd.  Each run builds its transaction  *)
(* in the wallet under the fixed temporary name "burn": delete it, check   *)
(* the balance, create it, add the FCT input and the 0 EC output to the    *)
(* burn address, sign it twice (the first signature only reports an        *)
(* insufficient fee), and send it, or print it and exit on --dryrun.       *)
(* Every error goes through CmdError, i.e. os.Exit(1): the deferred        *)
(* DeleteTransaction runs only when the command returns normally.          *)
(*                                                                         *)
(* A process's input is abstracted to the process itself; its amount to    *)
(* "tiny" (below the wallet's fee) or "normal".  The wallet is the         *)
(* environment: one slot for the transaction named "burn", which           *)
(* SendTransaction removes once the transaction is sent.                   *)
(***************************************************************************)
EXTENDS Integers, FiniteSets, TLC

CONSTANTS
    Procs,       \* CLI processes, each running the command once
    MaxFaults,   \* wallet RPCs that fail in a behaviour
    ConfigNames, \* values the Pegnet.Network setting may hold
    Lower,       \* strings.ToLower on those and on the network names
    NoKey,       \* the setting is missing
    NoTx

VARIABLES
    tx,          \* the wallet's transaction "burn": NoTx or [inputs, outputs, signed]
    sent,        \* transactions the wallet submitted: [by, inputs, outputs]
    faults,      \* RPC failures so far
    pc,          \* where each process is
    amount,      \* the amount argument, "tiny" or "normal"
    dryrun,      \* the --dryrun flag
    network,     \* the network LoadConfigNetwork returned
    outcome,     \* how each run ended
    overlapped   \* history: another run was active during this one

vars == <<tx, sent, faults, pc, amount, dryrun, network, outcome, overlapped>>

Idle == {"idle", "done"}

-----------------------------------------------------------------------------
(* Network names (src/common/common.go).                                   *)

MainNetwork == "MainNet"
TestNetwork == "TestNet-pM7"
UnitTestNetwork == "unit-test"

(* GetNetwork: the canonical name for any casing, "" with an error else.  *)
GetNetwork(n) ==
    CASE Lower[n] = Lower[MainNetwork]                         -> MainNetwork
      [] Lower[n] \in {Lower[TestNetwork], Lower["TestNet"]}     -> TestNetwork
      [] Lower[n] \in {Lower[UnitTestNetwork], Lower["UnitTest"]} -> UnitTestNetwork
      [] OTHER                                                  -> ""

(* LoadConfigNetwork: the setting through GetNetwork; "" is an error.      *)
LoadConfigNetwork(n) == IF n = NoKey THEN "" ELSE GetNetwork(n)

(* PegnetBurnAddress: BurnAddresses[network], "" for a network it lacks.   *)
BurnAddresses == MainNetwork :> "EC2BURNFCT2PEGNET" @@ TestNetwork :> "EC2BURNFCT2TEST"
PegnetBurnAddress(n) == IF n \in DOMAIN BurnAddresses THEN BurnAddresses[n] ELSE ""

-----------------------------------------------------------------------------
(* The wallet (factom-walletd).                                            *)

EmptyTx == [inputs |-> {}, outputs |-> 0, signed |-> FALSE]

(* SignTransaction(name, false) fails with "Insufficient Fee" when the    *)
(* inputs do not cover the fee.                                            *)
InsufficientFee(t) == \A q \in t.inputs : amount[q] = "tiny"

(* The transaction named "burn" exists, has an input, and carries its    *)
(* signatures: what the wallet's send accepts.                             *)
Signed == tx # NoTx /\ tx.inputs # {} /\ tx.signed

(* An RPC may fail transiently while faults remain.                       *)
RPCFails == faults < MaxFaults

-----------------------------------------------------------------------------
Init ==
    /\ tx = NoTx
    /\ sent = {}
    /\ faults = 0
    /\ pc = [p \in Procs |-> "idle"]
    /\ amount \in [Procs -> {"tiny", "normal"}]
    /\ dryrun \in [Procs -> BOOLEAN]
    /\ network = [p \in Procs |-> ""]
    /\ outcome = [p \in Procs |-> "none"]
    /\ overlapped = [p \in Procs |-> FALSE]

(* CmdError / CmdErrorf: print and os.Exit(1); no deferred call runs.     *)
Fail(p, why) ==
    /\ pc' = [pc EXCEPT ![p] = "done"]
    /\ outcome' = [outcome EXCEPT ![p] = why]

(* A wallet RPC of step `at` failed: the error is fatal.                   *)
Fault(p, at) ==
    /\ pc[p] = at
    /\ RPCFails
    /\ faults' = faults + 1
    /\ Fail(p, "fault")
    /\ UNCHANGED <<tx, sent, amount, dryrun, network, overlapped>>

Goto(p, to) == pc' = [pc EXCEPT ![p] = to]

(* History: p starting while others run marks all of them as overlapped.  *)
MarkOverlap(p) ==
    LET active == {q \in Procs : pc[q] \notin Idle}
    IN  overlapped' = [q \in Procs |->
                         overlapped[q] \/ (active # {} /\ q \in active \cup {p})]

(* Mutant: the leftover transaction is not deleted first.                  *)
StartNoDelete(p) ==
    /\ pc[p] = "idle"
    /\ Goto(p, "check")
    /\ MarkOverlap(p)
    /\ UNCHANGED <<tx, sent, faults, amount, dryrun, network, outcome>>

(* The command starts: DeleteTransaction(name), its error ignored.         *)
Start(p) ==
    /\ pc[p] = "idle"
    /\ tx' = NoTx
    /\ Goto(p, "check")
    /\ MarkOverlap(p)
    /\ UNCHANGED <<sent, faults, amount, dryrun, network, outcome>>

(* LoadConfigNetwork (CmdError on an error), FetchFactoidAddress,        *)
(* GetFactoidBalance and the balance check; the setting and the balance    *)
(* read are the environment's.  A failed RPC is a Fault.                   *)
Check(p) ==
    /\ pc[p] = "check"
    /\ \E n \in ConfigNames \cup {NoKey}, enough \in BOOLEAN :
         LET net == LoadConfigNetwork(n)
         IN  /\ network' = [network EXCEPT ![p] = net]
             /\ CASE net = ""  -> Fail(p, "config")
                  [] ~enough   -> Fail(p, "balance")
                  [] OTHER     -> Goto(p, "new") /\ UNCHANGED outcome
    /\ UNCHANGED <<tx, sent, faults, amount, dryrun, overlapped>>

(* NewTransaction(name): the wallet refuses a name already in use.        *)
New(p) ==
    /\ pc[p] = "new"
    /\ \/ tx # NoTx /\ Fail(p, "exists") /\ UNCHANGED tx
       \/ tx = NoTx /\ tx' = EmptyTx /\ Goto(p, "input") /\ UNCHANGED outcome
    /\ UNCHANGED <<sent, faults, amount, dryrun, network, overlapped>>

(* AddTransactionInput(name, ownedAddress, factoshiBurn).                  *)
Input(p) ==
    /\ pc[p] = "input"
    /\ \/ tx = NoTx /\ Fail(p, "missing") /\ UNCHANGED tx
       \/ /\ tx # NoTx
          /\ tx' = [tx EXCEPT !.inputs = @ \cup {p}, !.signed = FALSE]
          /\ Goto(p, "output") /\ UNCHANGED outcome
    /\ UNCHANGED <<sent, faults, amount, dryrun, network, overlapped>>

(* AddTransactionECOutput(name, PegnetBurnAddress(network), 0): the       *)
(* wallet refuses the empty address of a network without a burn address.   *)
Output(p) ==
    /\ pc[p] = "output"
    /\ \/ tx = NoTx /\ Fail(p, "missing") /\ UNCHANGED tx
       \/ tx # NoTx /\ PegnetBurnAddress(network[p]) = "" /\ Fail(p, "address") /\ UNCHANGED tx
       \/ /\ tx # NoTx /\ PegnetBurnAddress(network[p]) # ""
          /\ tx' = [tx EXCEPT !.outputs = @ + 1, !.signed = FALSE]
          /\ Goto(p, "sign") /\ UNCHANGED outcome
    /\ UNCHANGED <<sent, faults, amount, dryrun, network, overlapped>>

(* SignTransaction(name, false): only "Insufficient Fee" is fatal; any    *)
(* other error (a missing transaction, a fee too high, a failed call) is  *)
(* ignored.  The signature is replaced by the forced one below.            *)
Sign(p) ==
    /\ pc[p] = "sign"
    /\ \/ tx # NoTx /\ InsufficientFee(tx) /\ Fail(p, "fee")
       \/ ~(tx # NoTx /\ InsufficientFee(tx)) /\ Goto(p, "force") /\ UNCHANGED outcome
    /\ UNCHANGED <<tx, sent, faults, amount, dryrun, network, overlapped>>

(* SignTransaction(name, true), then the flag read of the --dryrun branch. *)
Force(p) ==
    /\ pc[p] = "force"
    /\ \/ tx = NoTx /\ Fail(p, "missing") /\ UNCHANGED tx
       \/ /\ tx # NoTx
          /\ tx' = [tx EXCEPT !.signed = TRUE]
          /\ Goto(p, IF dryrun[p] THEN "compose" ELSE "send")
          /\ UNCHANGED outcome
    /\ UNCHANGED <<sent, faults, amount, dryrun, network, overlapped>>

(* --dryrun: ComposeTransaction(name), print, os.Exit(0).  The            *)
(* transaction stays in the wallet: the deferred delete does not run.      *)
Compose(p) ==
    /\ pc[p] = "compose"
    /\ \/ tx = NoTx /\ Fail(p, "missing")
       \/ tx # NoTx /\ Fail(p, "dryrun")
    /\ UNCHANGED <<tx, sent, faults, amount, dryrun, network, overlapped>>

(* SendTransaction(name): the wallet submits a signed transaction and     *)
(* forgets it; a missing or unsigned one is an error.                      *)
Send(p) ==
    /\ pc[p] = "send"
    /\ \/ ~Signed /\ Fail(p, "missing") /\ UNCHANGED <<tx, sent>>
       \/ /\ Signed
          /\ sent' = sent \cup {[by |-> p, inputs |-> tx.inputs, outputs |-> tx.outputs]}
          /\ tx' = NoTx
          /\ Goto(p, "cleanup") /\ UNCHANGED outcome
    /\ UNCHANGED <<faults, amount, dryrun, network, overlapped>>

(* Run returns: "Burn transaction sent" is printed and the deferred       *)
(* DeleteTransaction(name) deletes whatever transaction has that name.     *)
Cleanup(p) ==
    /\ pc[p] = "cleanup"
    /\ tx' = NoTx
    /\ pc' = [pc EXCEPT ![p] = "done"]
    /\ outcome' = [outcome EXCEPT ![p] = "sent"]
    /\ UNCHANGED <<sent, faults, amount, dryrun, network, overlapped>>

(* Steps that make a wallet RPC whose error is fatal.                      *)
RPCSteps == {"check", "new", "input", "output", "force", "compose", "send"}

(* Every run has ended.                                                    *)
Done ==
    /\ \A p \in Procs : pc[p] = "done"
    /\ UNCHANGED vars

Next ==
    \/ \E p \in Procs :
         \/ Start(p) \/ Check(p) \/ New(p) \/ Input(p) \/ Output(p)
         \/ Sign(p) \/ Force(p) \/ Compose(p) \/ Send(p) \/ Cleanup(p)
         \/ \E at \in RPCSteps : Fault(p, at)
    \/ Done

Spec == Init /\ [][Next]_vars

-----------------------------------------------------------------------------
(* A run that ran alone never fails on the wallet name: "burn" is free   *)
(* at NewTransaction and still there at every later step, even when an     *)
(* earlier run ended in CmdError or --dryrun (os.Exit) and left its        *)
(* transaction behind.                                                     *)
NoNameConflict == \A p \in Procs : ~overlapped[p] => outcome[p] \notin {"exists", "missing"}

(* The command's help: the transaction has one input, the burner's FCT,   *)
(* and one output of 0 EC to the burn address.                             *)
SentTxIsOwn == \A s \in sent : s.inputs = {s.by} /\ s.outputs = 1

=============================================================================
