---------------------------- MODULE IntentStates ----------------------------
(***************************************************************************)
(* The order-intent state machine of src/guvolu/domain/intent.py: one      *)
(* state per intent, the legal moves between states, and the classes of    *)
(* states the rest of the execution chain branches on.  "ABSENT" stands    *)
(* for an intent the ledger does not know yet.                             *)
(***************************************************************************)

IntentState ==
    {"RECORDED", "GATE_REJECTED", "SENDING", "ACCEPTED", "REJECTED",
     "SEND_TIMEOUT", "FAILED", "DRY_RUN_BLOCKED", "PAPER_FILLED",
     "PAPER_REJECTED"}

EntryState == IntentState \union {"ABSENT"}

(* The states a finished send attempt may leave an intent in. *)
SendOutcome ==
    {"ACCEPTED", "REJECTED", "SEND_TIMEOUT", "DRY_RUN_BLOCKED",
     "PAPER_FILLED", "PAPER_REJECTED"}

(* The legal moves; a state without a successor is terminal for the ledger.*)
Allowed(source) ==
    CASE source = "ABSENT"       -> {"RECORDED"}
      [] source = "RECORDED"     -> {"GATE_REJECTED", "SENDING"}
      [] source = "SENDING"      -> SendOutcome
      [] source = "SEND_TIMEOUT" -> {"ACCEPTED", "FAILED"}
      [] OTHER                   -> {}

InFlightStates == {"SENDING", "SEND_TIMEOUT"}

(* Leaving one of these needs the evidence of a READ_ONLY query. *)
QueryRequiredStates == {"SEND_TIMEOUT"}

TerminalStates ==
    {"GATE_REJECTED", "ACCEPTED", "REJECTED", "FAILED", "DRY_RUN_BLOCKED",
     "PAPER_FILLED", "PAPER_REJECTED"}

=============================================================================
