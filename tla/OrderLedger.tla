---------------------------- MODULE OrderLedger ----------------------------
(***************************************************************************)
(* What the trade journal promises about the order commands of one         *)
(* instance, without files, polling or crashes: a command is issued once,  *)
(* may be carried out by the terminal at any time after that, gets an      *)
(* intent line, and its line is settled at most once, either with an       *)
(* outcome the terminal really produced or with a timeout.                 *)
(***************************************************************************)
EXTENDS Naturals

CONSTANT MaxCommands    \* bound on the commands ever issued

Command    == 1..MaxCommands
AckStatus  == {"SUCCESS", "FAILED", "REJECTED"}
Settlement == AckStatus \cup {"TIMEOUT"}
Line       == {"ABSENT", "INTENT"} \cup Settlement

VARIABLES
    issuedCount,    \* commands 1..issuedCount have been issued
    produced,       \* produced[c]: the outcomes the terminal reached for c
    line            \* line[c]: what the trade journal says of c

ledgerVars == <<issuedCount, produced, line>>

LedgerInit ==
    /\ issuedCount = 0
    /\ produced = [c \in Command |-> {}]
    /\ line = [c \in Command |-> "ABSENT"]

Issue ==
    /\ issuedCount < MaxCommands
    /\ issuedCount' = issuedCount + 1
    /\ UNCHANGED <<produced, line>>

Execute(c, outcome) ==
    /\ c <= issuedCount
    /\ produced' = [produced EXCEPT ![c] = @ \cup {outcome}]
    /\ UNCHANGED <<issuedCount, line>>

WriteIntent(c) ==
    /\ c <= issuedCount
    /\ line[c] = "ABSENT"
    /\ line' = [line EXCEPT ![c] = "INTENT"]
    /\ UNCHANGED <<issuedCount, produced>>

Settle(c, settlement) ==
    /\ line[c] = "INTENT"
    /\ settlement \in AckStatus => settlement \in produced[c]
    /\ line' = [line EXCEPT ![c] = settlement]
    /\ UNCHANGED <<issuedCount, produced>>

LedgerNext ==
    \/ Issue
    \/ \E c \in Command :
          \/ WriteIntent(c)
          \/ \E outcome \in AckStatus : Execute(c, outcome)
          \/ \E settlement \in Settlement : Settle(c, settlement)

LedgerSpec == LedgerInit /\ [][LedgerNext]_ledgerVars
=============================================================================
