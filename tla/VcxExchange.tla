----------------------------- MODULE VcxExchange -----------------------------
(***************************************************************************)
(* The credential exchanges of libvcx (vcx/libvcx/src/v3/handlers): an     *)
(* issuance between IssuerSM and HolderSM, or a presentation between       *)
(* VerifierSM and ProverSM.  The institution starts the exchange with an   *)
(* offer or a request, whose id is the thread of the exchange; the user    *)
(* makes an object of its own from each one it receives.                   *)
(*                                                                         *)
(* Each side has a mailbox at its agency; sends and marks may fail, as in  *)
(* VcxMailbox.  A call of the API is one step, because the object cache is *)
(* locked while it runs; a call that an error or a state that ignores it   *)
(* leaves without any effect is left out.  An application that passes      *)
(* messages itself passes those of the thread.  The issuer's               *)
(* CredentialSent state is left out: no step enters it.                    *)
(***************************************************************************)
EXTENDS VcxMailbox

CONSTANTS
    Kinds,       \* the exchanges: "issuance", "presentation"
    MaxThreads   \* bound: offers or requests the institution makes

ASSUME ExchangeAssumption ==
    /\ Kinds \subseteq {"issuance", "presentation"}
    /\ MaxThreads \in Nat

VARIABLES
    kind,      \* which exchange this is
    service,   \* does the request ask for the answer at an endpoint of its own?
    inst,      \* IssuerSM or VerifierSM
    user,      \* the HolderSMs or ProverSMs by thread, Absent before they are made
    toInst,    \* the mailbox of the institution ...
    toUser,    \* ... and that of the user
    threads,   \* offers or requests made
    issued,    \* credentials created by the issuer
    wallet,    \* ids of the credentials in the holder's wallet
    stores     \* how often the holder stored one

boxes == <<toInst, toUser>>
books == <<issued, wallet, stores>>
vars  == <<kind, service, inst, user, toInst, toUser, threads, issued, wallet, stores,
           faults, doubts>>

Thread == 1..MaxThreads
NoThread == 0
Absent == [st |-> "Absent", status |-> "Undefined", cred |-> 0, valid |-> FALSE, ask |-> FALSE]
Made(st) == [Absent EXCEPT !.st = st]
Finished(sm, status) == [sm EXCEPT !.st = "Finished", !.status = status]

Init ==
    /\ kind \in Kinds
    /\ service \in IF kind = "presentation" THEN BOOLEAN ELSE {FALSE}
    /\ inst = [st |-> "Initial", thid |-> NoThread, status |-> "Undefined"]
    /\ user = [t \in Thread |-> Absent]
    /\ toInst = <<>> /\ toUser = <<>>
    /\ threads = 0 /\ issued = 0 /\ wallet = {} /\ stores = 0
    /\ faults = 0 /\ doubts = {}

----------------------------------------------------------------------------
(* Calls over the network *)

Msg(type, t) == [type |-> type, thid |-> t, valid |-> FALSE, ask |-> FALSE, read |-> FALSE]

\* find_message_to_handle: a message of this thread, in any order.
Finds(box, i, type, t, mark) ==
    /\ box[i].type = type /\ box[i].thid = t
    /\ Pending(box, i, mark)

\* Issuer and Holder assign the new state once the message is marked ...
AfterMark(old, new, mark) == IF Fine(mark) THEN new ELSE old

\* ... Verifier and Prover before they mark it.
BeforeMark(old, new, mark) == new

Taken(old, new, mark) ==
    IF kind = "issuance" THEN AfterMark(old, new, mark) ELSE BeforeMark(old, new, mark)

----------------------------------------------------------------------------
(* The institution *)

\* CredentialInit or SendPresentationRequest: each attempt has an id of its own.
SendOffer ==
    /\ inst.st = "Initial" /\ threads < MaxThreads
    /\ threads' = threads + 1
    /\ \E out \in Outcome :
          /\ toUser' = Post(toUser, Msg("Offer", threads + 1), out)
          /\ inst' = IF out = "ok" THEN [inst EXCEPT !.st = "OfferSent", !.thid = threads + 1]
                                   ELSE inst
          /\ Account({<<"send", out>>})
    /\ UNCHANGED <<kind, service, user, toInst, books>>

\* What the institution does with message i once its handler has let it
\* become new: the state, the mark, the failures.
InstTakes(i, new, mark, outs) ==
    /\ inst' = Taken(inst, new, mark)
    /\ toInst' = Review(toInst, i, mark)
    /\ Account(outs \cup {<<"mark", mark>>})

\* A handler that sends a problem report first, to the mailbox box; if that
\* fails nothing else happens.
InstReports(i, box, new, mark, outs) ==
    \E out \in Outcome :
        /\ toUser' = Post(box, Msg("ProblemReport", inst.thid), out)
        /\ \/ out = "ok" /\ InstTakes(i, new, mark, outs)
           \/ /\ out # "ok" /\ mark = "ok"
              /\ Account(outs \cup {<<"report", out>>})
              /\ UNCHANGED <<inst, toInst>>

InstProblem(i, mark) ==
    /\ inst.st = "OfferSent" /\ Finds(toInst, i, "ProblemReport", inst.thid, mark)
    /\ InstTakes(i, Finished(inst, "Failed"), mark, {})
    /\ UNCHANGED <<kind, service, user, toUser, threads, books>>

\* Proposals are not supported.
InstProposal(i, mark) ==
    /\ inst.st = "OfferSent" /\ Finds(toInst, i, "Proposal", inst.thid, mark)
    /\ InstReports(i, toUser, Finished(inst, "Failed"), mark, {})
    /\ UNCHANGED <<kind, service, user, threads, books>>

IssuerRequest(i, mark) ==
    /\ kind = "issuance" /\ inst.st = "OfferSent"
    /\ Finds(toInst, i, "Request", inst.thid, mark)
    /\ InstTakes(i, [inst EXCEPT !.st = "RequestReceived"], mark, {})
    /\ UNCHANGED <<kind, service, user, toUser, threads, books>>

\* Mutant of SendCredential: finished before the credential is sent.
SendCredentialEarly ==
    /\ kind = "issuance" /\ inst.st = "RequestReceived"
    /\ issued' = issued + 1
    /\ \E out \in Outcome :
          /\ toUser' = Post(toUser, Msg("Credential", inst.thid), out)
          /\ inst' = Finished(inst, "Success")
          /\ Account({<<"send", out>>})
    /\ UNCHANGED <<kind, service, user, toInst, threads, wallet, stores>>

\* Mutant of SendCredential: the credential is created and sent twice.
SendCredentialTwice ==
    /\ kind = "issuance" /\ inst.st = "RequestReceived"
    /\ issued' = issued + 2
    /\ toUser' = Append(toUser, Msg("Credential", inst.thid))
    /\ inst' = Finished(inst, "Success")
    /\ UNCHANGED <<kind, service, user, toInst, threads, wallet, stores, faults, doubts>>

\* CredentialSend: the credential is created and sent, or the failure to
\* create it is reported.  An issuer of another make may ask for an ack.
SendCredential ==
    /\ kind = "issuance" /\ inst.st = "RequestReceived"
    /\ \E out \in Outcome :
          /\ \/ /\ issued' = issued + 1
                /\ \E ask \in BOOLEAN :
                      toUser' = Post(toUser, [Msg("Credential", inst.thid) EXCEPT !.ask = ask], out)
                /\ inst' = IF out = "ok" THEN Finished(inst, "Success") ELSE inst
             \/ /\ UNCHANGED issued
                /\ toUser' = Post(toUser, Msg("ProblemReport", inst.thid), out)
                /\ inst' = IF out = "ok" THEN Finished(inst, "Failed") ELSE inst
          /\ Account({<<"send", out>>})
    /\ UNCHANGED <<kind, service, user, toInst, threads, wallet, stores>>

\* Mutant of VerifierPresentation: the ack is sent before the proof is checked.
VerifierPresentationAcksFirst(i, mark) ==
    /\ kind = "presentation" /\ inst.st = "OfferSent"
    /\ Finds(toInst, i, "Presentation", inst.thid, mark)
    /\ toUser' = Append(toUser, Msg("Ack", inst.thid))
    /\ InstTakes(i, Finished(inst, IF toInst[i].valid THEN "Success" ELSE "Revoked"), mark, {})
    /\ UNCHANGED <<kind, service, user, threads, books>>

\* VerifyPresentation: a valid proof is acknowledged if the prover asks for
\* it; a proof that is not valid is reported, and recorded as revoked.  An ack
\* that cannot be sent, and a check that cannot be made, are reported and fail.
VerifierPresentation(i, mark) ==
    /\ kind = "presentation" /\ inst.st = "OfferSent"
    /\ Finds(toInst, i, "Presentation", inst.thid, mark)
    /\ \/ /\ toInst[i].valid /\ ~toInst[i].ask
          /\ InstTakes(i, Finished(inst, "Success"), mark, {})
          /\ UNCHANGED toUser
       \/ /\ toInst[i].valid /\ toInst[i].ask
          /\ toUser' = Append(toUser, Msg("Ack", inst.thid))
          /\ InstTakes(i, Finished(inst, "Success"), mark, {})
       \/ /\ toInst[i].valid /\ toInst[i].ask
          /\ \E out \in {"lost", "doubt"} :
                InstReports(i, Post(toUser, Msg("Ack", inst.thid), out),
                            Finished(inst, "Failed"), mark, {<<"send", out>>})
       \/ ~toInst[i].valid /\ InstReports(i, toUser, Finished(inst, "Revoked"), mark, {})
       \/ InstReports(i, toUser, Finished(inst, "Failed"), mark, {})
    /\ UNCHANGED <<kind, service, user, threads, books>>

\* vcx_*_update_state, or with Mark also vcx_*_update_state_with_message.
InstPolls(marks) ==
    \E i \in 1..Len(toInst), mark \in marks :
        InstProblem(i, mark) \/ InstProposal(i, mark) \/ IssuerRequest(i, mark)
            \/ VerifierPresentation(i, mark)

----------------------------------------------------------------------------
(* The user *)

\* HolderSM::new and ProverSM::new, from an offer or a request received.
Create(t) ==
    /\ user[t].st = "Absent"
    /\ \E i \in 1..Len(toUser) : toUser[i].type = "Offer" /\ toUser[i].thid = t
    /\ user' = [user EXCEPT ![t] = Made("Initial")]
    /\ UNCHANGED <<kind, service, inst, boxes, threads, books, faults, doubts>>

\* The user's object sends m, to the institution or to the endpoint the request
\* names, and becomes new unless that fails.
UserSends(t, m, new) ==
    /\ \E out \in Outcome :
          /\ toInst' = IF service THEN toInst ELSE Post(toInst, m, out)
          /\ user' = IF out = "ok" THEN [user EXCEPT ![t] = new] ELSE user
          /\ Account({<<"send", out>>})
    /\ UNCHANGED <<kind, service, inst, toUser, threads, books>>

\* CredentialRequestSend: the request is made and sent, or a problem report.
SendRequest(t) ==
    /\ kind = "issuance" /\ user[t].st = "Initial"
    /\ \/ UserSends(t, Msg("Request", t), [user[t] EXCEPT !.st = "Sent"])
       \/ UserSends(t, Msg("ProblemReport", t), Finished(user[t], "Failed"))

\* PreparePresentation, which asks for an ack, and SetPresentation, which takes
\* what it is given; a presentation may turn out not to be valid.
Prepare(t) ==
    /\ kind = "presentation" /\ user[t].st = "Initial"
    /\ \/ \E valid, ask \in BOOLEAN :
             user' = [user EXCEPT ![t].st = "Prepared", ![t].valid = valid, ![t].ask = ask]
       \/ user' = [user EXCEPT ![t].st = "PreparationFailed"]
    /\ UNCHANGED <<kind, service, inst, boxes, threads, books, faults, doubts>>

\* SendPresentation.  What is sent to an endpoint of its own is not followed
\* up: the exchange is over, with the status of one that was declined.
SendPresentation(t) ==
    \/ /\ user[t].st = "Prepared"
       /\ UserSends(t, [Msg("Presentation", t) EXCEPT !.valid = user[t].valid, !.ask = user[t].ask],
                    IF service THEN Finished(user[t], "Declined") ELSE [user[t] EXCEPT !.st = "Sent"])
    \/ /\ user[t].st = "PreparationFailed"
       /\ UserSends(t, Msg("ProblemReport", t), Finished(user[t], "Failed"))

\* decline_presentation_request, with a reason or with a proposal.
Decline(t) ==
    /\ kind = "presentation" /\ user[t].st \in {"Initial", "Prepared"}
    /\ \E type \in {"ProblemReport", "Proposal"} :
          UserSends(t, Msg(type, t), Finished(user[t], "Declined"))

\* A holder of another make proposes other credentials instead of asking.
Propose(t) ==
    /\ kind = "issuance" /\ user[t].st = "Initial"
    /\ UserSends(t, Msg("Proposal", t), [user[t] EXCEPT !.st = "Sent"])

UserTakes(t, i, new, mark, outs) ==
    /\ user' = [user EXCEPT ![t] = Taken(user[t], new, mark)]
    /\ toUser' = Review(toUser, i, mark)
    /\ Account(outs \cup {<<"mark", mark>>})

\* A credential: it is stored under an id of its own, and acknowledged if the
\* issuer asks for it; or the failure to store it is reported.
HolderCredential(t, i, mark) ==
    /\ kind = "issuance" /\ user[t].st = "Sent" /\ Finds(toUser, i, "Credential", t, mark)
    /\ \/ /\ stores' = stores + 1 /\ wallet' = wallet \cup {stores + 1}
          /\ \/ /\ toInst' = IF toUser[i].ask THEN Append(toInst, Msg("Ack", t)) ELSE toInst
                /\ UserTakes(t, i, [Finished(user[t], "Success") EXCEPT !.cred = stores + 1], mark, {})
             \/ /\ toUser[i].ask /\ mark = "ok"
                /\ \E out \in {"lost", "doubt"} :
                      /\ toInst' = Post(toInst, Msg("Ack", t), out)
                      /\ Account({<<"send", out>>})
                /\ UNCHANGED <<user, toUser>>
       \/ /\ \E out \in Outcome :
                /\ toInst' = Post(toInst, Msg("ProblemReport", t), out)
                /\ \/ out = "ok" /\ UserTakes(t, i, Finished(user[t], "Failed"), mark, {})
                   \/ /\ out # "ok" /\ mark = "ok"
                      /\ Account({<<"send", out>>})
                      /\ UNCHANGED <<user, toUser>>
          /\ UNCHANGED <<wallet, stores>>
    /\ UNCHANGED <<kind, service, inst, threads, issued>>

ProverAck(t, i, mark) ==
    /\ kind = "presentation" /\ user[t].st = "Sent" /\ Finds(toUser, i, "Ack", t, mark)
    /\ UserTakes(t, i, Finished(user[t], "Success"), mark, {})
    /\ UNCHANGED <<kind, service, inst, toInst, threads, books>>

UserProblem(t, i, mark) ==
    /\ user[t].st = "Sent" /\ Finds(toUser, i, "ProblemReport", t, mark)
    /\ UserTakes(t, i, Finished(user[t], "Failed"), mark, {})
    /\ UNCHANGED <<kind, service, inst, toInst, threads, books>>

UserPolls(t, marks) ==
    \E i \in 1..Len(toUser), mark \in marks :
        HolderCredential(t, i, mark) \/ ProverAck(t, i, mark) \/ UserProblem(t, i, mark)

\* The finished holder deletes the credential it knows of.
DeleteCredential(t) ==
    /\ user[t].st = "Finished" /\ user[t].cred \in wallet
    /\ wallet' = wallet \ {user[t].cred}
    /\ UNCHANGED <<kind, service, inst, user, boxes, threads, issued, stores, faults, doubts>>

----------------------------------------------------------------------------
Next ==
    \/ SendOffer \/ SendCredential \/ InstPolls(Mark)
    \/ \E t \in Thread :
          \/ Create(t) \/ SendRequest(t) \/ Propose(t)
          \/ Prepare(t) \/ SendPresentation(t) \/ Decline(t)
          \/ UserPolls(t, Mark) \/ DeleteCredential(t)

Spec == Init /\ [][Next]_vars

\* Applications poll vcx_*_update_state until the exchange is over, and calls
\* that fail are repeated.  Nothing makes a user answer, or an application pass
\* a message itself.
FairSpec ==
    /\ Spec
    /\ WF_vars(InstPolls(Outcome))
    /\ \A t \in Thread : WF_vars(UserPolls(t, Outcome))

----------------------------------------------------------------------------
(* Properties *)

\* The two sides do not disagree: a user whose exchange succeeded has an
\* institution that says so of the same thread, and a proof that is accepted
\* is valid.  Only a message that arrived although its sender was told it did
\* not can make them disagree.  The status is that of presentation_status and
\* credential_status; the verifier's state() calls a revoked proof accepted too.
Agreement ==
    /\ "send" \notin doubts =>
          \A t \in Thread : user[t].status = "Success" =>
              inst.thid = t /\ inst.status = "Success"
    /\ kind = "presentation" /\ inst.status = "Success" => user[inst.thid].valid

InstWaits == inst.st = "OfferSent"
UserWaits(t) == user[t].st = "Sent"

\* Issuer and holder lose a message whose marking fails after it took effect.
MarkLost == kind = "issuance" /\ "mark" \in doubts

\* A user may wait for nothing if it asked for no ack, or if the institution
\* was ended by a message the user was told had not been sent.
Unasked(t) == kind = "presentation" /\ ~user[t].ask
Excused(t) == MarkLost \/ "send" \in doubts \/ Unasked(t)

\* Retries are paid for: one credential is created and one is stored, and at
\* most one more for each call that failed; and only a call that failed leaves
\* a credential in the wallet that no object knows.
OncePerFault ==
    /\ issued <= 1 + faults /\ stores <= 1 + faults
    /\ Cardinality(wallet \ {user[t].cred : t \in Thread}) <= faults

\* Polling ends the exchange: an institution whose user has answered, and a
\* user whose institution is done, do not wait for ever.  What can make them
\* wait is a call reported as failed that took effect: a mark, after which an
\* issuer or holder does not find the message again, and for the user a send.
PollingEnds ==
    /\ InstWaits /\ user[inst.thid].st \in {"Sent", "Finished"} /\ ~service
          ~> ~InstWaits \/ MarkLost
    /\ \A t \in Thread :
          inst.st = "Finished" /\ inst.thid = t /\ UserWaits(t) ~> ~UserWaits(t) \/ Excused(t)
=============================================================================
