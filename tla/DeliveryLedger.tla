---------------------------- MODULE DeliveryLedger ----------------------------
(***************************************************************************)
(* What one trial of the benchmark promises to the reader of its row,      *)
(* whatever the port (WORKLOAD.md, "Output"): envelopes are accepted by    *)
(* the bus and consumed; then the trial ends, once, with a valid row, an   *)
(* invalid row, or no row at all.  A valid row, the one whose `drained`    *)
(* is true, accounts for every accepted envelope, and nothing is consumed  *)
(* after it.  Only a trial that gave up while accepted envelopes were      *)
(* unconsumed may end with an invalid row, or with none (as may a trial to *)
(* which no envelope was ever accepted).                                   *)
(***************************************************************************)
EXTENDS Naturals

VARIABLES accepted,    \* envelopes the bus has taken
          consumed,    \* envelopes whose consumer has returned
          verdict,     \* "open", "undrained", then "valid", "invalid" or "lost"
          total,       \* the row's `total`
          delivered    \* the row's `delivered`

vars == <<accepted, consumed, verdict, total, delivered>>

Init ==
    /\ accepted = 0
    /\ consumed = 0
    /\ verdict = "open"
    /\ total = 0
    /\ delivered = 0

Accept ==
    /\ verdict = "open"
    /\ accepted' = accepted + 1
    /\ UNCHANGED <<consumed, verdict, total, delivered>>

Consume ==
    /\ consumed < accepted
    /\ consumed' = consumed + 1
    /\ UNCHANGED <<accepted, verdict, total, delivered>>

ReportValid ==
    /\ verdict = "open"
    /\ consumed = accepted
    /\ verdict' = "valid"
    /\ total' = accepted
    /\ delivered' = accepted
    /\ UNCHANGED <<accepted, consumed>>

\* The shutdown gives up on envelopes still to be consumed.
GiveUp ==
    /\ verdict = "open"
    /\ consumed < accepted
    /\ verdict' = "undrained"
    /\ UNCHANGED <<accepted, consumed, total, delivered>>

ReportInvalid ==
    /\ verdict = "undrained"
    /\ verdict' = "invalid"
    /\ total' \in Nat
    /\ delivered' \in Nat
    /\ UNCHANGED <<accepted, consumed>>

Lose ==
    /\ verdict = "undrained" \/ (verdict = "open" /\ accepted = 0)
    /\ verdict' = "lost"
    /\ UNCHANGED <<accepted, consumed, total, delivered>>

Next == Accept \/ Consume \/ ReportValid \/ GiveUp \/ ReportInvalid \/ Lose

Spec == Init /\ [][Next]_vars
=============================================================================
