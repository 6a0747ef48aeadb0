----------------------------- MODULE VcxMailbox -----------------------------
(***************************************************************************)
(* What the protocols of libvcx share: mailboxes at an agency and calls    *)
(* over the network to them (v3/handlers/connection/agent.rs).  A call     *)
(* that fails may have taken effect or not.                                *)
(***************************************************************************)
EXTENDS Naturals, Sequences, FiniteSets

CONSTANTS
    MaxFaults  \* bound: calls over the network that fail

ASSUME FaultsAssumption == MaxFaults \in Nat

VARIABLES
    faults,    \* how many calls have failed
    doubts     \* history: the kinds of calls that failed and took effect

\* ok; failed without effect; failed, as the caller sees it, with effect.
Outcome == {"ok", "lost", "doubt"}
\* Marking a message; or none, when the application passes the message itself.
Mark == Outcome \cup {"given"}
Fine(out) == out \in {"ok", "given"}

\* send_message: what mailbox box holds after it.
Post(box, m, out) == IF out = "lost" THEN box ELSE Append(box, m)

\* update_message_status of message i.
Review(box, i, mark) ==
    IF mark \in {"ok", "doubt"} THEN [box EXCEPT ![i].read = TRUE] ELSE box

\* get_messages returns what is not reviewed; an application may pass a message
\* whether or not it is.
Pending(box, i, mark) == mark = "given" \/ ~box[i].read

\* The failures of the calls made in a step: a set of <<call, outcome>>.
Account(outs) ==
    LET bad == {o \in outs : ~Fine(o[2])}
    IN  /\ faults + Cardinality(bad) <= MaxFaults
        /\ faults' = faults + Cardinality(bad)
        /\ doubts' = doubts \cup {o[1] : o \in {b \in bad : b[2] = "doubt"}}
=============================================================================
