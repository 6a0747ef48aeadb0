-------------------------- MODULE VcxExchangeProofs --------------------------
(***************************************************************************)
(* Proofs about VcxExchange: for any number of threads and of calls over   *)
(* the network that fail, the two sides of an exchange agree on how it     *)
(* ended, and a credential is created and stored once, and once more for   *)
(* each call that failed at most.                                          *)
(***************************************************************************)
EXTENDS VcxExchange, FiniteSetTheorems, TLAPS

----------------------------------------------------------------------------
(* The inductive invariant *)

Type   == {"Offer", "Request", "Proposal", "Credential", "Presentation", "Ack", "ProblemReport"}
Status == {"Undefined", "Success", "Failed", "Revoked", "Declined"}

Message == [type : Type, thid : Nat, valid : BOOLEAN, ask : BOOLEAN, read : BOOLEAN]

Inst == [st : {"Initial", "OfferSent", "RequestReceived", "Finished"}, thid : Nat, status : Status]

User ==
    [st : {"Absent", "Initial", "Prepared", "PreparationFailed", "Sent", "Finished"},
     status : Status, cred : Nat, valid : BOOLEAN, ask : BOOLEAN]

Typed ==
    /\ kind \in {"issuance", "presentation"}
    /\ inst \in Inst /\ user \in [Thread -> User]
    /\ toInst \in Seq(Message) /\ toUser \in Seq(Message)
    /\ threads \in Nat /\ issued \in Nat /\ stores \in Nat /\ faults \in Nat
    /\ wallet \in SUBSET (1..stores)

\* The issuer has been asked for the credential of its thread.
Requested(s) == s.st \in {"RequestReceived", "Finished"}
Succeeded(s, t) == s.thid = t /\ s.status = "Success"

\* An institution that says how the exchange ended is done with it.
Over(s) == s.status # "Undefined" => s.st = "Finished"

\* A message that may make the user's side end well: it is of the thread that
\* was asked for, and the institution's side has ended well, or the message
\* arrived although its sender was told it did not.
Vouched(m, s, D) ==
    /\ m.type = "Credential" => Requested(s) /\ m.thid = s.thid
    /\ "send" \notin D /\ m.type \in {"Credential", "Ack"} => Succeeded(s, m.thid)

AllVouched == \A i \in 1..Len(toUser) : Vouched(toUser[i], inst, doubts)

\* The user of thread t has a presentation, valid or not.
Shows(u, t, valid) ==
    /\ t \in Thread /\ u[t].st \notin {"Absent", "Initial"}
    /\ valid => u[t].valid

\* A presentation in the mailbox is as good as the one its user has, and so is
\* one that was accepted.
Shown ==
    \A i \in 1..Len(toInst) :
        toInst[i].type = "Presentation" => Shows(user, toInst[i].thid, toInst[i].valid)

Accepts == kind = "presentation" /\ inst.status = "Success" => Shows(user, inst.thid, TRUE)

\* A user that succeeded was told so by the institution.
Confirmed ==
    "send" \notin doubts =>
        \A t \in Thread : user[t].status = "Success" => Succeeded(inst, t)

\* Only the user of the thread that was asked for knows a credential.
Stored ==
    \A t \in Thread :
        /\ user[t].cred \in 0..stores
        /\ user[t].cred # 0 => user[t].st = "Finished" /\ Requested(inst) /\ inst.thid = t

Known(u) == {u[t].cred : t \in Thread}
Settled(u) == \E t \in Thread : u[t].cred # 0

\* n is at most one more than the failures.
OneMore(n, f) == n <= f + 1

\* Creating and storing a credential without a failure ends the side that does.
Counted ==
    /\ OneMore(issued, faults) /\ (issued <= faults \/ inst.st = "Finished")
    /\ OneMore(stores, faults) /\ (stores <= faults \/ Settled(user))
    /\ Cardinality(wallet \ Known(user)) <= faults

IInv ==
    /\ Typed /\ Over(inst) /\ AllVouched /\ Shown /\ Accepts /\ Confirmed /\ Stored /\ Counted

----------------------------------------------------------------------------
(* Mailboxes and failures *)

\* Two messages that differ in whether they are read at most.
Alike(m, n) == m.type = n.type /\ m.thid = n.thid /\ m.valid = n.valid

\* A mailbox that holds what it held, and copies of m.
Grown(old, new, m) ==
    /\ new \in Seq(Message)
    /\ \A i \in 1..Len(new) :
          new[i] = m \/ (i \in 1..Len(old) /\ Alike(new[i], old[i]))

\* A mailbox that holds what it held.
Kept(old, new) ==
    /\ new \in Seq(Message)
    /\ \A i \in 1..Len(new) : i \in 1..Len(old) /\ Alike(new[i], old[i])

\* A message posted is the only one that is new, whatever the outcome.
LEMMA PostGrows ==
    ASSUME NEW box \in Seq(Message), NEW m \in Message, NEW out
    PROVE  Grown(box, Post(box, m, out), m)
<1>1. Append(box, m) \in Seq(Message) /\ Len(Append(box, m)) = Len(box) + 1
  OBVIOUS
<1>2. \A i \in 1..(Len(box) + 1) :
         Append(box, m)[i] = m \/ (i \in 1..Len(box) /\ Append(box, m)[i] = box[i])
  OBVIOUS
<1> QED
  BY <1>1, <1>2 DEF Post, Grown, Alike

\* Marking a message keeps the mailbox otherwise.
LEMMA ReviewKeeps ==
    ASSUME NEW box \in Seq(Message), NEW i \in 1..Len(box), NEW mark
    PROVE  Kept(box, Review(box, i, mark))
<1>1. CASE mark \in {"ok", "doubt"}
  <2> DEFINE m == [box[i] EXCEPT !.read = TRUE]
             new == [box EXCEPT ![i] = m]
  <2>1. Review(box, i, mark) = new
    BY <1>1 DEF Review
  <2>2. m \in Message /\ Alike(m, box[i])
    <3>1. box[i] \in Message
      OBVIOUS
    <3> QED
      BY <3>1 DEF Message, Alike
  <2> HIDE DEF m
  <2>3. new \in Seq(Message) /\ Len(new) = Len(box)
    BY <2>2
  <2>4. \A j \in 1..Len(box) : new[j] = IF j = i THEN m ELSE box[j]
    OBVIOUS
  <2> HIDE DEF new
  <2> QED
    BY <2>1, <2>2, <2>3, <2>4 DEF Kept, Alike
<1>2. CASE mark \notin {"ok", "doubt"}
  BY <1>2 DEF Review, Kept, Alike
<1> QED
  BY <1>1, <1>2

\* The failures are counted, each one that may have arrived is noted, and
\* none is forgotten.
Failing(outs) ==
    /\ faults' \in Nat /\ faults <= faults' /\ doubts \subseteq doubts'
    /\ \A o \in outs : ~Fine(o[2]) => faults + 1 <= faults'
    /\ \A o \in outs : o[2] = "doubt" => o[1] \in doubts'

\* Account does that for any finite set of calls.
LEMMA AccountFails ==
    ASSUME faults \in Nat, NEW outs, IsFiniteSet(outs), Account(outs)
    PROVE  Failing(outs)
<1> DEFINE bad == {o \in outs : ~Fine(o[2])}
<1>1. IsFiniteSet(bad)
  BY FS_Subset
<1>2. Cardinality(bad) \in Nat /\ (Cardinality(bad) = 0 <=> bad = {})
  BY <1>1, FS_CardinalityType, FS_EmptySet
<1>3. faults' = faults + Cardinality(bad)
      /\ doubts' = doubts \cup {o[1] : o \in {b \in bad : b[2] = "doubt"}}
  BY DEF Account
<1>4. ASSUME NEW o \in outs, o[2] = "doubt" PROVE o[1] \in doubts'
  BY <1>3, <1>4 DEF Fine
<1>5. ASSUME NEW o \in outs, ~Fine(o[2]) PROVE faults + 1 <= faults'
  <2>1. o \in bad
    BY <1>5
  <2> HIDE DEF bad
  <2> QED
    BY <1>2, <1>3, <2>1
<1> HIDE DEF bad
<1>6. faults' \in Nat /\ faults <= faults'
  BY <1>2, <1>3
<1> QED
  BY <1>3, <1>4, <1>5, <1>6 DEF Failing

\* One call more.
LEMMA MarkFails ==
    ASSUME faults \in Nat, NEW outs, IsFiniteSet(outs), NEW c, Account(outs \cup {c})
    PROVE  Failing(outs \cup {c})
<1>1. IsFiniteSet(outs \cup {c})
  BY FS_AddElement
<1> QED
  BY <1>1, AccountFails

\* A single call.
LEMMA OneFails ==
    ASSUME faults \in Nat, NEW c, Account({c})
    PROVE  Failing({c})
<1>1. IsFiniteSet({c})
  BY FS_Singleton
<1> QED
  BY <1>1, AccountFails

\* The number of credentials nobody knows is a number.
LEMMA Countable ==
    ASSUME Typed, NEW S
    PROVE  IsFiniteSet(wallet \ S) /\ Cardinality(wallet \ S) \in Nat
<1>1. IsFiniteSet(1..stores) /\ wallet \subseteq 1..stores
  BY FS_Interval DEF Typed
<1> QED
  BY <1>1, FS_Subset, FS_CardinalityType

\* What is within the failures stays within them as they grow.
LEMMA StillWithin ==
    ASSUME NEW n \in Nat, NEW f \in Nat, NEW g \in Nat, f <= g
    PROVE  (OneMore(n, f) => OneMore(n, g)) /\ (n <= f => n <= g)
BY DEF OneMore

----------------------------------------------------------------------------
(* Steps of the institution *)

\* The institution's object goes on: what ended has ended.
Advances(s, r) ==
    /\ r \in Inst /\ Over(r)
    /\ s.st = "Finished" => r = s
    /\ Requested(s) => Requested(r) /\ r.thid = s.thid

\* What a step of the institution may do.
InstMoves ==
    /\ UNCHANGED <<kind, user, wallet, stores>>
    /\ threads' \in Nat /\ issued' \in Nat
    /\ Advances(inst, inst') /\ Kept(toInst, toInst') /\ Failing({})
    /\ toUser' \in Seq(Message)
    /\ \A i \in 1..Len(toUser') :
          \/ Vouched(toUser'[i], inst', doubts')
          \/ i \in 1..Len(toUser) /\ Alike(toUser'[i], toUser[i])
    /\ OneMore(issued', faults') /\ (issued' <= faults' \/ inst'.st = "Finished")
    /\ kind = "presentation" /\ inst'.status = "Success" =>
          inst' = inst \/ Shows(user, inst'.thid, TRUE)

\* Such a step keeps the invariant.
LEMMA InstStep == IInv /\ InstMoves => IInv'
<1> SUFFICES ASSUME IInv, InstMoves PROVE IInv'
  OBVIOUS
<1> USE DEF InstMoves
<1>1. Typed'
  BY DEF IInv, Typed, Advances, Kept, Failing
<1>2. Over(inst')
  BY DEF Advances
<1>3. faults \in Nat /\ faults' \in Nat /\ faults <= faults' /\ stores \in Nat
  BY DEF IInv, Typed, Failing
<1>4. ASSUME NEW t, Succeeded(inst, t) PROVE inst' = inst
  BY <1>4 DEF IInv, Over, Succeeded, Advances
<1>5. AllVouched'
  <2> SUFFICES ASSUME NEW i \in 1..Len(toUser'), i \in 1..Len(toUser),
                      Alike(toUser'[i], toUser[i])
               PROVE  Vouched(toUser'[i], inst', doubts')
    BY DEF AllVouched
  <2>1. Vouched(toUser[i], inst, doubts)
    BY DEF IInv, AllVouched
  <2>2. PICK m : m = toUser'[i]
    OBVIOUS
  <2>3. PICK n : n = toUser[i]
    OBVIOUS
  <2>4. Vouched(m, inst', doubts')
    BY <1>4, <2>1, <2>2, <2>3 DEF Vouched, Alike, Failing, Advances
  <2> QED
    BY <2>2, <2>4
<1>6. Shown'
  BY DEF IInv, Shown, Shows, Kept, Alike
<1>7. Accepts'
  BY DEF IInv, Accepts, Shows
<1>8. Confirmed'
  BY <1>4 DEF IInv, Confirmed, Failing
<1>9. Stored'
  BY DEF IInv, Stored, Advances
<1>10. Counted'
  <2>1. Known(user') = Known(user) /\ (Settled(user') <=> Settled(user))
    BY DEF Known, Settled
  <2>2. Cardinality(wallet \ Known(user)) <= faults
        /\ OneMore(stores, faults) /\ (stores <= faults \/ Settled(user))
    BY DEF IInv, Counted
  <2>3. Cardinality(wallet \ Known(user)) \in Nat
    BY Countable DEF IInv
  <2>4. Cardinality(wallet' \ Known(user')) <= faults'
    <3>1. Cardinality(wallet \ Known(user)) <= faults'
      BY <1>3, <2>2, <2>3, StillWithin
    <3> QED
      BY <2>1, <3>1
  <2>5. OneMore(stores', faults') /\ (stores' <= faults' \/ Settled(user'))
    BY <1>3, <2>1, <2>2, StillWithin
  <2> QED
    BY <2>4, <2>5 DEF Counted
<1> QED
  BY <1>1, <1>2, <1>5, <1>6, <1>7, <1>8, <1>9, <1>10 DEF IInv

\* What the messages in the user's mailbox say is true after the step.
News ==
    /\ toUser' \in Seq(Message)
    /\ \A i \in 1..Len(toUser') :
          \/ Vouched(toUser'[i], inst', doubts')
          \/ i \in 1..Len(toUser) /\ Alike(toUser'[i], toUser[i])

\* A step of the institution that creates no credential.
InstTalks ==
    /\ UNCHANGED <<kind, user, wallet, stores, issued>>
    /\ threads' \in Nat
    /\ Advances(inst, inst') /\ Kept(toInst, toInst') /\ Failing({}) /\ News
    /\ kind = "presentation" /\ inst'.status = "Success" =>
          inst' = inst \/ Shows(user, inst'.thid, TRUE)

\* It keeps the invariant.
LEMMA InstTalksStep == IInv /\ InstTalks => IInv'
<1> SUFFICES ASSUME IInv, InstTalks PROVE IInv'
  OBVIOUS
<1>1. OneMore(issued', faults') /\ (issued' <= faults' \/ inst'.st = "Finished")
  <2>1. faults \in Nat /\ faults' \in Nat /\ faults <= faults' /\ issued \in Nat /\ issued' = issued
    BY DEF IInv, Typed, InstTalks, Failing
  <2>2. OneMore(issued, faults) /\ (issued <= faults \/ inst.st = "Finished")
    BY DEF IInv, Counted
  <2>3. inst.st = "Finished" => inst'.st = "Finished"
    BY DEF InstTalks, Advances
  <2> QED
    BY <2>1, <2>2, <2>3, StillWithin
<1>2. InstMoves
  BY <1>1 DEF InstTalks, InstMoves, News, IInv, Typed
<1> QED
  BY <1>2, InstStep

\* A message of the exchange is a message.
LEMMA MsgTyped ==
    ASSUME NEW type \in Type, NEW t \in Nat
    PROVE  /\ Msg(type, t) \in Message
           /\ Msg(type, t).type = type /\ Msg(type, t).thid = t
BY DEF Msg, Message

\* One new message that is true is no harm.
LEMMA GrownNews ==
    ASSUME NEW m, Grown(toUser, toUser', m), Vouched(m, inst', doubts')
    PROVE  News
BY DEF Grown, News

\* Messages that end nothing well are true in any case.
LEMMA Harmless ==
    ASSUME NEW m, m.type \notin {"Credential", "Ack"}, NEW s, NEW D
    PROVE  Vouched(m, s, D)
BY DEF Vouched

\* Failures of some calls are failures.
LEMMA FailingAtAll == \A outs : Failing(outs) => Failing({})
BY DEF Failing

\* SendOffer, whatever its outcome, starts the exchange or leaves it.
LEMMA SendOfferStep == IInv /\ SendOffer => IInv'
<1> SUFFICES ASSUME IInv, SendOffer PROVE IInv'
  OBVIOUS
<1>1. Typed
  BY DEF IInv
<1>2. PICK out \in Outcome :
        /\ toUser' = Post(toUser, Msg("Offer", threads + 1), out)
        /\ inst' = IF out = "ok" THEN [inst EXCEPT !.st = "OfferSent", !.thid = threads + 1]
                                 ELSE inst
        /\ Account({<<"send", out>>})
  BY DEF SendOffer
<1>3. threads + 1 \in Nat /\ threads' \in Nat
  BY <1>1 DEF Typed, SendOffer
<1>4. News
  <2>1. Msg("Offer", threads + 1) \in Message /\ Msg("Offer", threads + 1).type = "Offer"
    BY <1>3, MsgTyped DEF Type
  <2>2. Grown(toUser, toUser', Msg("Offer", threads + 1))
    BY <1>1, <1>2, <2>1, PostGrows DEF Typed
  <2> QED
    BY <2>1, <2>2, Harmless, GrownNews
<1>5. inst.st = "Initial" /\ inst.status = "Undefined" /\ inst \in Inst
  BY <1>1 DEF IInv, Typed, Over, SendOffer
<1>6. inst' \in Inst /\ inst'.status = "Undefined"
  BY <1>2, <1>3, <1>5 DEF Inst
<1>7. Advances(inst, inst')
  BY <1>5, <1>6 DEF Advances, Over, Requested
<1>8. Failing({})
  BY <1>1, <1>2, OneFails, FailingAtAll DEF Typed
<1>9. UNCHANGED <<kind, user, wallet, stores, issued>> /\ Kept(toInst, toInst')
  BY <1>1 DEF SendOffer, books, Kept, Alike, Typed
<1>10. InstTalks
  BY <1>3, <1>4, <1>6, <1>7, <1>8, <1>9 DEF InstTalks
<1> QED
  BY <1>10, InstTalksStep

\* How a message is taken while the institution waits.
Takes(outs, new) ==
    /\ Advances(inst, inst') /\ Kept(toInst, toInst') /\ Failing(outs)
    /\ inst' = inst \/ inst' = new
    /\ kind = "presentation" => inst' = new

\* InstTakes does that.
LEMMA InstTakesStep ==
    ASSUME IInv, NEW i \in 1..Len(toInst), inst.st = "OfferSent", NEW new \in Inst, Over(new),
           NEW mark, NEW outs, IsFiniteSet(outs), InstTakes(i, new, mark, outs)
    PROVE  Takes(outs, new)
<1>1. Typed /\ Over(inst)
  BY DEF IInv
<1>2. inst' = Taken(inst, new, mark)
  BY DEF InstTakes
<1>3. (inst' = inst \/ inst' = new) /\ (kind = "presentation" => inst' = new)
  BY <1>2 DEF Taken, AfterMark, BeforeMark
<1>4. Advances(inst, inst')
  BY <1>1, <1>3 DEF Typed, Advances, Requested
<1>5. toInst' = Review(toInst, i, mark)
  BY DEF InstTakes
<1>6. Kept(toInst, toInst')
  BY <1>1, <1>5, ReviewKeeps DEF Typed
<1>7. Failing(outs \cup {<<"mark", mark>>})
  BY <1>1, MarkFails DEF Typed, InstTakes
<1>8. Failing(outs)
  BY <1>7 DEF Failing
<1> QED
  BY <1>3, <1>4, <1>6, <1>8 DEF Takes

\* InstReports does that or leaves the object alone, and the report is the only
\* message that is new in the mailbox.
LEMMA InstReportsStep ==
    ASSUME IInv, NEW i \in 1..Len(toInst), inst.st = "OfferSent", NEW new \in Inst, Over(new),
           NEW mark, NEW outs, IsFiniteSet(outs), NEW box \in Seq(Message),
           InstReports(i, box, new, mark, outs)
    PROVE  /\ Advances(inst, inst') /\ Kept(toInst, toInst') /\ Failing(outs)
           /\ inst' = inst \/ inst' = new
           /\ Grown(box, toUser', Msg("ProblemReport", inst.thid))
<1>1. Typed /\ Over(inst)
  BY DEF IInv
<1>2. PICK out \in Outcome :
        /\ toUser' = Post(box, Msg("ProblemReport", inst.thid), out)
        /\ \/ out = "ok" /\ InstTakes(i, new, mark, outs)
           \/ /\ out # "ok" /\ mark = "ok"
              /\ Account(outs \cup {<<"report", out>>})
              /\ UNCHANGED <<inst, toInst>>
  BY DEF InstReports
<1>3. Grown(box, toUser', Msg("ProblemReport", inst.thid))
  <2>1. Msg("ProblemReport", inst.thid) \in Message
    BY <1>1, MsgTyped DEF Typed, Inst, Type
  <2> QED
    BY <1>2, <2>1, PostGrows
<1>4. CASE InstTakes(i, new, mark, outs)
  <2>1. Takes(outs, new)
    BY <1>4, InstTakesStep
  <2> QED
    BY <1>3, <2>1 DEF Takes
<1>5. CASE Account(outs \cup {<<"report", out>>}) /\ UNCHANGED <<inst, toInst>>
  <2>1. Failing(outs \cup {<<"report", out>>})
    BY <1>1, <1>5, MarkFails DEF Typed
  <2>2. Failing(outs)
    BY <2>1 DEF Failing
  <2>3. Advances(inst, inst') /\ Kept(toInst, toInst')
    BY <1>1, <1>5 DEF Typed, Advances, Kept, Alike
  <2> QED
    BY <1>3, <1>5, <2>2, <2>3
<1> QED
  BY <1>2, <1>4, <1>5

\* An institution that waits becomes finished, with the status given.
LEMMA FinishedInst ==
    ASSUME IInv, NEW status \in Status
    PROVE  /\ Finished(inst, status) \in Inst /\ Over(Finished(inst, status))
           /\ Finished(inst, status).thid = inst.thid
           /\ Finished(inst, status).status = status
           /\ Finished(inst, status).st = "Finished"
<1>1. inst \in Inst
  BY DEF IInv, Typed
<1> QED
  BY <1>1 DEF Finished, Inst, Over

\* A report to the user ends nothing well.
LEMMA ReportedStep ==
    ASSUME IInv, NEW i \in 1..Len(toInst), inst.st = "OfferSent",
           NEW status \in Status \ {"Success"}, NEW mark,
           InstReports(i, toUser, Finished(inst, status), mark, {}),
           UNCHANGED <<kind, service, user, threads, books>>
    PROVE  IInv'
<1>1. Typed
  BY DEF IInv
<1>2. PICK new : new = Finished(inst, status)
  OBVIOUS
<1>3. new \in Inst /\ Over(new) /\ new.status # "Success"
  BY <1>2, FinishedInst
<1>4. IsFiniteSet({}) /\ toUser \in Seq(Message)
  BY <1>1, FS_EmptySet DEF Typed
<1>5. /\ Advances(inst, inst') /\ Kept(toInst, toInst') /\ Failing({})
      /\ inst' = inst \/ inst' = new
      /\ Grown(toUser, toUser', Msg("ProblemReport", inst.thid))
  BY <1>2, <1>3, <1>4, InstReportsStep
<1>6. News
  <2>1. Msg("ProblemReport", inst.thid).type = "ProblemReport"
    BY DEF Msg
  <2> QED
    BY <1>5, <2>1, Harmless, GrownNews
<1>7. InstTalks
  BY <1>1, <1>3, <1>5, <1>6 DEF InstTalks, books, Typed
<1> QED
  BY <1>7, InstTalksStep

\* Taking a message without an answer changes nothing in the user's mailbox.
LEMMA TakenStep ==
    ASSUME IInv, NEW i \in 1..Len(toInst), inst.st = "OfferSent", NEW new \in Inst, Over(new),
           NEW mark, InstTakes(i, new, mark, {}),
           kind = "presentation" /\ new.status = "Success" => Shows(user, new.thid, TRUE),
           UNCHANGED <<kind, service, user, toUser, threads, books>>
    PROVE  IInv'
<1>1. Typed
  BY DEF IInv
<1>2. IsFiniteSet({})
  BY FS_EmptySet
<1>3. Takes({}, new)
  BY <1>2, InstTakesStep
<1>4. News
  BY <1>1 DEF News, Alike, Typed
<1>5. InstTalks
  BY <1>1, <1>3, <1>4 DEF InstTalks, Takes, books, Typed
<1> QED
  BY <1>5, InstTalksStep

\* A problem report of the user ends the exchange.
LEMMA InstProblemStep ==
    ASSUME IInv, NEW i \in 1..Len(toInst), NEW mark, InstProblem(i, mark)
    PROVE  IInv'
<1>1. PICK new : new = Finished(inst, "Failed")
  OBVIOUS
<1>2. new \in Inst /\ Over(new) /\ new.status = "Failed"
  BY <1>1, FinishedInst DEF Status
<1> QED
  BY <1>1, <1>2, TakenStep DEF InstProblem

\* So does a proposal.
LEMMA InstProposalStep ==
    ASSUME IInv, NEW i \in 1..Len(toInst), NEW mark, InstProposal(i, mark)
    PROVE  IInv'
<1>1. "Failed" \in Status \ {"Success"}
  BY DEF Status
<1> QED
  BY <1>1, ReportedStep DEF InstProposal

\* A request is received.
LEMMA IssuerRequestStep ==
    ASSUME IInv, NEW i \in 1..Len(toInst), NEW mark, IssuerRequest(i, mark)
    PROVE  IInv'
<1>1. PICK new : new = [inst EXCEPT !.st = "RequestReceived"]
  OBVIOUS
<1>2. inst \in Inst /\ inst.st = "OfferSent" /\ inst.status = "Undefined"
  BY DEF IInv, Typed, Over, IssuerRequest
<1>3. new \in Inst /\ new.status = "Undefined"
  BY <1>1, <1>2 DEF Inst
<1>4. Over(new)
  BY <1>3 DEF Over
<1>5. InstTakes(i, new, mark, {}) /\ UNCHANGED <<kind, service, user, toUser, threads, books>>
  BY <1>1 DEF IssuerRequest
<1> QED
  BY <1>2, <1>3, <1>4, <1>5, TakenStep

\* The credential is created, sent and with it the exchange over; or it is
\* created and the sending fails, which is a failure; or it is not created.
LEMMA SendCredentialStep == IInv /\ SendCredential => IInv'
<1> SUFFICES ASSUME IInv, SendCredential PROVE IInv'
  OBVIOUS
<1>1. Typed
  BY DEF IInv
<1>2. inst \in Inst /\ inst.st = "RequestReceived" /\ inst.status = "Undefined"
  BY <1>1 DEF IInv, Typed, Over, SendCredential
<1>3. PICK out \in Outcome :
        /\ \/ /\ issued' = issued + 1
              /\ \E ask \in BOOLEAN :
                    toUser' = Post(toUser, [Msg("Credential", inst.thid) EXCEPT !.ask = ask], out)
              /\ inst' = IF out = "ok" THEN Finished(inst, "Success") ELSE inst
           \/ /\ UNCHANGED issued
              /\ toUser' = Post(toUser, Msg("ProblemReport", inst.thid), out)
              /\ inst' = IF out = "ok" THEN Finished(inst, "Failed") ELSE inst
        /\ Account({<<"send", out>>})
  BY DEF SendCredential
<1>4. Failing({<<"send", out>>})
  BY <1>1, <1>3, OneFails DEF Typed
<1>5. /\ faults \in Nat /\ faults' \in Nat /\ faults <= faults' /\ doubts \subseteq doubts'
      /\ out = "doubt" => "send" \in doubts'
      /\ out # "ok" => faults + 1 <= faults'
  BY <1>1, <1>4 DEF Failing, Typed, Fine, Outcome
<1>6. issued \in Nat /\ issued <= faults
  BY <1>1, <1>2 DEF IInv, Counted, Typed
<1>7. UNCHANGED <<kind, user, wallet, stores, threads>> /\ Kept(toInst, toInst') /\ Failing({})
  BY <1>1, <1>4, FailingAtAll DEF SendCredential, Kept, Alike, Typed
<1>8. "Success" \in Status /\ "Failed" \in Status
  BY DEF Status
<1>9. kind = "issuance" /\ inst.thid \in Nat
  BY <1>2 DEF SendCredential, Inst
<1>10. CASE issued' = issued + 1
  <2>1. PICK ask \in BOOLEAN :
          toUser' = Post(toUser, [Msg("Credential", inst.thid) EXCEPT !.ask = ask], out)
    BY <1>3, <1>6, <1>10
  <2>2. inst' = IF out = "ok" THEN Finished(inst, "Success") ELSE inst
    BY <1>3, <1>6, <1>10
  <2>3. inst' \in Inst /\ Over(inst') /\ Requested(inst') /\ inst'.thid = inst.thid
        /\ (out = "ok" => inst'.status = "Success" /\ inst'.st = "Finished")
    BY <1>2, <1>8, <2>2, FinishedInst DEF Over, Requested
  <2>4. PICK m : m = [Msg("Credential", inst.thid) EXCEPT !.ask = ask]
    OBVIOUS
  <2>5. m \in Message /\ m.type = "Credential" /\ m.thid = inst.thid
    BY <1>9, <2>4 DEF Msg, Message, Type
  <2>6. Grown(toUser, toUser', m)
    BY <1>1, <2>1, <2>4, <2>5, PostGrows DEF Typed
  <2>7. toUser' = IF out = "lost" THEN toUser ELSE Append(toUser, m)
    BY <2>1, <2>4 DEF Post
  <2>8. News
    <3>1. CASE out = "lost"
      BY <1>1, <2>7, <3>1 DEF News, Alike, Typed
    <3>2. CASE out # "lost"
      <4>1. Vouched(m, inst', doubts')
        BY <1>5, <2>3, <2>5, <3>2 DEF Vouched, Succeeded, Outcome
      <4> QED
        BY <2>6, <4>1, GrownNews
    <3> QED
      BY <3>1, <3>2
  <2>9. issued' \in Nat /\ OneMore(issued', faults') /\ (issued' <= faults' \/ inst'.st = "Finished")
    <3>1. issued' \in Nat
      BY <1>6, <1>10
    <3>2. OneMore(issued + 1, faults)
      BY <1>5, <1>6 DEF OneMore
    <3>3. OneMore(issued', faults')
      BY <1>5, <1>6, <1>10, <3>1, <3>2, StillWithin
    <3>4. out # "ok" => issued' <= faults'
      BY <1>5, <1>6, <1>10
    <3> QED
      BY <2>3, <3>1, <3>3, <3>4
  <2>10. Advances(inst, inst')
    BY <1>2, <2>3 DEF Advances
  <2>11. InstMoves
    BY <1>1, <1>7, <1>9, <2>8, <2>9, <2>10 DEF InstMoves, News, Typed
  <2> QED
    BY <2>11, InstStep
<1>11. CASE UNCHANGED issued
  <2>1. toUser' = Post(toUser, Msg("ProblemReport", inst.thid), out)
        /\ inst' = IF out = "ok" THEN Finished(inst, "Failed") ELSE inst
    BY <1>3, <1>6, <1>11
  <2>2. inst' \in Inst /\ Over(inst') /\ Requested(inst') /\ inst'.thid = inst.thid
    BY <1>2, <1>8, <2>1, FinishedInst DEF Over, Requested
  <2>3. Advances(inst, inst')
    BY <1>2, <2>2 DEF Advances
  <2>4. Msg("ProblemReport", inst.thid) \in Message
        /\ Msg("ProblemReport", inst.thid).type = "ProblemReport"
    BY <1>9, MsgTyped DEF Type
  <2>5. Grown(toUser, toUser', Msg("ProblemReport", inst.thid))
    BY <1>1, <2>1, <2>4, PostGrows DEF Typed
  <2>6. News
    BY <2>4, <2>5, Harmless, GrownNews
  <2>7. InstTalks
    BY <1>1, <1>7, <1>9, <1>11, <2>3, <2>6 DEF InstTalks, Typed
  <2> QED
    BY <2>7, InstTalksStep
<1> QED
  BY <1>3, <1>10, <1>11

\* A presentation is accepted only if its user's is valid, and acknowledged
\* only once it is accepted, or with a failure that is noted.
LEMMA VerifierPresentationStep ==
    ASSUME IInv, NEW i \in 1..Len(toInst), NEW mark, VerifierPresentation(i, mark)
    PROVE  IInv'
<1>1. Typed /\ inst \in Inst /\ inst.thid \in Nat
  BY DEF IInv, Typed, Inst
<1>2. inst.st = "OfferSent" /\ kind = "presentation"
      /\ UNCHANGED <<kind, service, user, threads, books>>
  BY DEF VerifierPresentation
<1>3. toInst[i].valid => Shows(user, inst.thid, TRUE)
  <2>1. toInst[i].type = "Presentation" /\ toInst[i].thid = inst.thid
    BY DEF VerifierPresentation, Finds
  <2> QED
    BY <2>1 DEF IInv, Shown, Shows
<1>4. PICK good : good = Finished(inst, "Success")
  OBVIOUS
<1>5. good \in Inst /\ Over(good) /\ Succeeded(good, inst.thid)
  BY <1>4, FinishedInst DEF Status, Succeeded
<1>6. Msg("Ack", inst.thid) \in Message /\ Msg("Ack", inst.thid).type = "Ack"
      /\ Msg("Ack", inst.thid).thid = inst.thid
  BY <1>1, MsgTyped DEF Type
<1>7. IsFiniteSet({})
  BY FS_EmptySet
<1>8. CASE toInst[i].valid /\ InstTakes(i, good, mark, {}) /\ UNCHANGED toUser
  BY <1>2, <1>3, <1>5, <1>8, TakenStep DEF Succeeded
<1>9. CASE /\ toInst[i].valid /\ toUser' = Append(toUser, Msg("Ack", inst.thid))
           /\ InstTakes(i, good, mark, {})
  <2>1. Takes({}, good)
    BY <1>2, <1>5, <1>7, <1>9, InstTakesStep
  <2>2. inst' = good
    BY <1>2, <2>1 DEF Takes
  <2>3. toUser' = Post(toUser, Msg("Ack", inst.thid), "ok")
    BY <1>9 DEF Post
  <2>4. Grown(toUser, toUser', Msg("Ack", inst.thid))
    BY <1>1, <1>6, <2>3, PostGrows DEF Typed
  <2>5. Vouched(Msg("Ack", inst.thid), inst', doubts')
    BY <1>5, <1>6, <2>2 DEF Vouched
  <2>6. News
    BY <2>4, <2>5, GrownNews
  <2>7. Shows(user, inst'.thid, TRUE)
    BY <1>3, <1>5, <1>9, <2>2 DEF Succeeded
  <2>8. InstTalks
    BY <1>1, <1>2, <2>1, <2>6, <2>7 DEF InstTalks, Takes, books, Typed
  <2> QED
    BY <2>8, InstTalksStep
<1>10. ASSUME NEW out \in {"lost", "doubt"},
              InstReports(i, Post(toUser, Msg("Ack", inst.thid), out),
                          Finished(inst, "Failed"), mark, {<<"send", out>>})
       PROVE  IInv'
  <2>1. PICK box : box = Post(toUser, Msg("Ack", inst.thid), out)
    OBVIOUS
  <2>2. PICK new : new = Finished(inst, "Failed")
    OBVIOUS
  <2>3. Grown(toUser, box, Msg("Ack", inst.thid)) /\ (out = "lost" => box = toUser)
    BY <1>1, <1>6, <2>1, PostGrows DEF Typed, Post
  <2>4. box \in Seq(Message)
    BY <2>3 DEF Grown
  <2>5. new \in Inst /\ Over(new) /\ new.status = "Failed"
    BY <2>2, FinishedInst DEF Status
  <2>6. IsFiniteSet({<<"send", out>>})
    BY FS_Singleton
  <2>7. /\ Advances(inst, inst') /\ Kept(toInst, toInst') /\ Failing({<<"send", out>>})
        /\ inst' = inst \/ inst' = new
        /\ Grown(box, toUser', Msg("ProblemReport", inst.thid))
    BY <1>2, <1>10, <2>1, <2>2, <2>4, <2>5, <2>6, InstReportsStep
  <2>8. Failing({}) /\ (out = "doubt" => "send" \in doubts')
    BY <2>7 DEF Failing
  <2>9. News
    <3>1. Vouched(Msg("ProblemReport", inst.thid), inst', doubts')
      <4>1. Msg("ProblemReport", inst.thid).type = "ProblemReport"
        BY DEF Msg
      <4> QED
        BY <4>1, Harmless
    <3>2. CASE out = "lost"
      BY <2>3, <2>7, <3>1, <3>2, GrownNews
    <3>3. CASE out = "doubt"
      <4>1. \A j \in 1..Len(box) :
               \/ Vouched(box[j], inst', doubts')
               \/ j \in 1..Len(toUser) /\ Alike(box[j], toUser[j])
        BY <1>6, <2>3, <2>8, <3>3 DEF Grown, Vouched
      <4> SUFFICES ASSUME NEW j \in 1..Len(toUser')
                   PROVE  \/ Vouched(toUser'[j], inst', doubts')
                          \/ j \in 1..Len(toUser) /\ Alike(toUser'[j], toUser[j])
        BY <2>7 DEF News, Grown
      <4>2. CASE toUser'[j] = Msg("ProblemReport", inst.thid)
        BY <3>1, <4>2
      <4>3. CASE j \in 1..Len(box) /\ Alike(toUser'[j], box[j])
        BY <4>1, <4>3 DEF Vouched, Alike
      <4> QED
        BY <2>7, <4>2, <4>3 DEF Grown
    <3> QED
      BY <3>2, <3>3
  <2>10. InstTalks
    BY <1>1, <1>2, <2>5, <2>7, <2>8, <2>9 DEF InstTalks, books, Typed
  <2> QED
    BY <2>10, InstTalksStep
<1>11. ASSUME NEW status \in {"Revoked", "Failed"},
              InstReports(i, toUser, Finished(inst, status), mark, {})
       PROVE  IInv'
  <2>1. status \in Status \ {"Success"}
    BY DEF Status
  <2> QED
    BY <1>2, <1>11, <2>1, ReportedStep
<1> QED
  BY <1>4, <1>8, <1>9, <1>10, <1>11 DEF VerifierPresentation

----------------------------------------------------------------------------
(* Steps of the user *)

\* What a step of the user of thread t may do, apart from storing.
UserMoves(t, new) ==
    /\ UNCHANGED <<kind, inst, issued, threads>>
    /\ new \in User /\ user' = [user EXCEPT ![t] = new]
    /\ Kept(toUser, toUser') /\ Failing({})
    /\ user[t].st \notin {"Absent", "Initial"} =>
          new.st \notin {"Absent", "Initial"} /\ new.valid = user[t].valid
    /\ toInst' \in Seq(Message)
    /\ \A i \in 1..Len(toInst') :
          \/ toInst'[i].type # "Presentation"
          \/ Shows(user, toInst'[i].thid, toInst'[i].valid)
          \/ i \in 1..Len(toInst) /\ Alike(toInst'[i], toInst[i])
    /\ new.status = "Success" /\ "send" \notin doubts' =>
          Succeeded(inst, t) \/ user[t].status = "Success"

\* Such a step keeps the invariant, if the books are right after it.
LEMMA UserStep ==
    ASSUME IInv, NEW t \in Thread, NEW new, UserMoves(t, new),
           stores' \in Nat, wallet' \in SUBSET (1..stores'), Stored', Counted'
    PROVE  IInv'
<1> USE DEF UserMoves
<1>1. Typed'
  BY DEF IInv, Typed, Kept, Failing
<1>2. Over(inst')
  BY DEF IInv
<1>3. user'[t] = new /\ \A x \in Thread : x # t => user'[x] = user[x]
  BY DEF IInv, Typed
<1>4. ASSUME NEW x, NEW valid, Shows(user, x, valid) PROVE Shows(user', x, valid)
  BY <1>3, <1>4 DEF Shows
<1>5. AllVouched'
  <2> SUFFICES ASSUME NEW i \in 1..Len(toUser')
               PROVE  Vouched(toUser'[i], inst, doubts')
    BY DEF AllVouched
  <2>1. i \in 1..Len(toUser) /\ Alike(toUser'[i], toUser[i])
    BY DEF Kept
  <2>2. Vouched(toUser[i], inst, doubts)
    BY <2>1 DEF IInv, AllVouched
  <2> QED
    BY <2>1, <2>2 DEF Vouched, Alike, Failing
<1>6. Shown'
  <2> SUFFICES ASSUME NEW i \in 1..Len(toInst'), toInst'[i].type = "Presentation"
               PROVE  Shows(user', toInst'[i].thid, toInst'[i].valid)
    BY DEF Shown
  <2>1. Shows(user, toInst'[i].thid, toInst'[i].valid)
    BY DEF IInv, Shown, Alike
  <2> QED
    BY <1>4, <2>1
<1>7. Accepts'
  BY <1>4 DEF IInv, Accepts
<1>8. Confirmed'
  BY <1>3 DEF IInv, Confirmed, Failing
<1> QED
  BY <1>1, <1>2, <1>5, <1>6, <1>7, <1>8 DEF IInv

\* A step of the user that stores nothing keeps the books right.
LEMMA UserTalks ==
    ASSUME IInv, NEW t \in Thread, NEW new, UserMoves(t, new), UNCHANGED <<wallet, stores>>,
           new.cred = user[t].cred, new.cred # 0 => new.st = "Finished"
    PROVE  IInv'
<1>1. user'[t] = new /\ \A x \in Thread : x # t => user'[x] = user[x]
  BY DEF IInv, Typed, UserMoves
<1>2. \A x \in Thread : user'[x].cred = user[x].cred
  BY <1>1
<1>3. Stored'
  BY <1>1, <1>2 DEF IInv, Stored, UserMoves
<1>4. Known(user') = Known(user) /\ (Settled(user') <=> Settled(user))
  BY <1>2 DEF Known, Settled
<1>5. Counted'
  <2>1. Cardinality(wallet \ Known(user)) \in Nat
    BY Countable DEF IInv
  <2>2. faults \in Nat /\ faults' \in Nat /\ faults <= faults' /\ stores \in Nat /\ issued \in Nat
    BY DEF IInv, Typed, UserMoves, Failing
  <2>3. /\ OneMore(issued, faults) /\ (issued <= faults \/ inst.st = "Finished")
        /\ OneMore(stores, faults) /\ (stores <= faults \/ Settled(user))
        /\ Cardinality(wallet \ Known(user)) <= faults
    BY DEF IInv, Counted
  <2>4. issued' = issued /\ inst' = inst
    BY DEF UserMoves
  <2> QED
    BY <1>4, <2>1, <2>2, <2>3, <2>4, StillWithin DEF Counted
<1>6. stores' \in Nat /\ wallet' \in SUBSET (1..stores')
  BY DEF IInv, Typed
<1> QED
  BY <1>3, <1>5, <1>6, UserStep

\* The object of a thread, and one that has not finished knows no credential.
LEMMA UserIs ==
    ASSUME IInv, NEW t \in Thread
    PROVE  /\ user[t] \in User /\ t \in Nat
           /\ [user EXCEPT ![t] = user[t]] = user
           /\ user[t].st # "Finished" => user[t].cred = 0
BY ExchangeAssumption DEF IInv, Typed, Stored, Thread

\* An object that is told nothing new about success, or that stays as it is.
Modest(t, new) ==
    /\ new \in User /\ new.cred = user[t].cred /\ (new.cred # 0 => new.st = "Finished")
    /\ user[t].st \notin {"Absent", "Initial"} =>
          new.st \notin {"Absent", "Initial"} /\ new.valid = user[t].valid
    /\ new.status = "Success" => user[t].status = "Success"

\* An object that stays as it is.
LEMMA StillModest ==
    ASSUME IInv, NEW t \in Thread
    PROVE  Modest(t, user[t])
BY UserIs DEF Modest, IInv, Stored

\* The user's mailbox, or the institution's, stays as it is.
LEMMA StillKept == ASSUME Typed PROVE Kept(toUser, toUser) /\ Kept(toInst, toInst)
BY DEF Typed, Kept, Alike

\* A message of the user, sent or not, whose content is that of its object.
LEMMA UserSendsStep ==
    ASSUME IInv, NEW t \in Thread, NEW m \in Message, NEW new, UserSends(t, m, new),
           Modest(t, new),
           m.type = "Presentation" => Shows(user, m.thid, m.valid)
    PROVE  IInv'
<1>1. Typed
  BY DEF IInv
<1>2. PICK out \in Outcome :
        /\ toInst' = IF service THEN toInst ELSE Post(toInst, m, out)
        /\ user' = IF out = "ok" THEN [user EXCEPT ![t] = new] ELSE user
        /\ Account({<<"send", out>>})
  BY DEF UserSends
<1>3. UNCHANGED <<kind, service, inst, toUser, threads, books>>
  BY DEF UserSends
<1>4. Failing({})
  BY <1>1, <1>2, OneFails, FailingAtAll DEF Typed
<1>5. Grown(toInst, toInst', m)
  <2>1. Grown(toInst, Post(toInst, m, out), m)
    BY <1>1, PostGrows DEF Typed
  <2>2. Grown(toInst, toInst, m)
    BY <1>1, StillKept DEF Grown, Kept
  <2> QED
    BY <1>2, <2>1, <2>2
<1>6. PICK eff : Modest(t, eff) /\ user' = [user EXCEPT ![t] = eff]
  <2>1. CASE out = "ok"
    BY <1>2, <2>1
  <2>2. CASE out # "ok"
    BY <1>2, <2>2, UserIs, StillModest
  <2> QED
    BY <2>1, <2>2
<1>7. Kept(toUser, toUser')
  BY <1>1, <1>3, StillKept
<1>8. UserMoves(t, eff)
  BY <1>3, <1>4, <1>5, <1>6, <1>7 DEF UserMoves, Modest, Grown, books
<1> QED
  BY <1>3, <1>6, <1>8, UserTalks DEF Modest, books

\* A change of the object alone.
LEMMA UserChanges ==
    ASSUME IInv, NEW t \in Thread, NEW new, Modest(t, new), user' = [user EXCEPT ![t] = new],
           UNCHANGED <<kind, service, inst, boxes, threads, books, faults, doubts>>
    PROVE  IInv'
<1>1. Typed
  BY DEF IInv
<1>2. Failing({})
  BY <1>1 DEF Typed, Failing
<1>3. Kept(toUser, toUser') /\ Kept(toInst, toInst')
  BY <1>1, StillKept DEF boxes
<1>4. UserMoves(t, new)
  BY <1>2, <1>3 DEF UserMoves, Modest, Kept, books
<1> QED
  BY <1>4, UserTalks DEF Modest, books

\* HolderSM::new and ProverSM::new.
LEMMA CreateStep ==
    ASSUME IInv, NEW t \in Thread, Create(t)
    PROVE  IInv'
<1>1. user[t] \in User /\ user[t].st = "Absent" /\ user[t].cred = 0
  BY UserIs DEF Create
<1>2. Made("Initial") \in User /\ Made("Initial").cred = 0 /\ Made("Initial").status = "Undefined"
  BY DEF Made, Absent, User, Status
<1>3. Modest(t, Made("Initial"))
  BY <1>1, <1>2 DEF Modest
<1> QED
  BY <1>3, UserChanges DEF Create

\* PreparePresentation and SetPresentation.
LEMMA PrepareStep ==
    ASSUME IInv, NEW t \in Thread, Prepare(t)
    PROVE  IInv'
<1>1. user[t] \in User /\ user[t].st = "Initial" /\ user[t].cred = 0
  BY UserIs DEF Prepare
<1>2. user \in [Thread -> User]
  BY DEF IInv, Typed
<1>3. UNCHANGED <<kind, service, inst, boxes, threads, books, faults, doubts>>
  BY DEF Prepare
<1>4. ASSUME NEW valid \in BOOLEAN, NEW ask \in BOOLEAN,
             user' = [user EXCEPT ![t].st = "Prepared", ![t].valid = valid, ![t].ask = ask]
      PROVE  IInv'
  <2>1. PICK new : new = [user[t] EXCEPT !.st = "Prepared", !.valid = valid, !.ask = ask]
    OBVIOUS
  <2>2. user' = [user EXCEPT ![t] = new]
    BY <1>2, <1>4, <2>1
  <2>3. new \in User /\ new.cred = user[t].cred /\ new.status = user[t].status
    BY <1>1, <2>1 DEF User
  <2>4. Modest(t, new)
    BY <1>1, <2>3 DEF Modest
  <2> QED
    BY <1>3, <2>2, <2>4, UserChanges
<1>5. ASSUME user' = [user EXCEPT ![t].st = "PreparationFailed"]
      PROVE  IInv'
  <2>1. PICK new : new = [user[t] EXCEPT !.st = "PreparationFailed"]
    OBVIOUS
  <2>2. user' = [user EXCEPT ![t] = new]
    BY <1>2, <1>5, <2>1
  <2>3. new \in User /\ new.cred = user[t].cred /\ new.status = user[t].status
    BY <1>1, <2>1 DEF User
  <2>4. Modest(t, new)
    BY <1>1, <2>3 DEF Modest
  <2> QED
    BY <1>3, <2>2, <2>4, UserChanges
<1> QED
  BY <1>4, <1>5 DEF Prepare

\* An object that ends without success, and one that waits for an answer.
LEMMA EndsModest ==
    ASSUME IInv, NEW t \in Thread, user[t].st \notin {"Absent", "Finished"},
           NEW status \in Status \ {"Success"}
    PROVE  Modest(t, Finished(user[t], status)) /\ Modest(t, [user[t] EXCEPT !.st = "Sent"])
<1>1. user[t] \in User /\ user[t].cred = 0
  BY UserIs
<1>2. /\ Finished(user[t], status) \in User /\ Finished(user[t], status).cred = user[t].cred
      /\ Finished(user[t], status).valid = user[t].valid
      /\ Finished(user[t], status).status = status /\ Finished(user[t], status).st = "Finished"
  BY <1>1 DEF Finished, User
<1>3. PICK new : new = [user[t] EXCEPT !.st = "Sent"]
  OBVIOUS
<1>4. /\ new \in User /\ new.cred = user[t].cred /\ new.valid = user[t].valid
      /\ new.status = user[t].status /\ new.st = "Sent"
  BY <1>1, <1>3 DEF User
<1>5. Modest(t, new)
  BY <1>1, <1>4 DEF Modest
<1>6. Modest(t, Finished(user[t], status))
  BY <1>1, <1>2 DEF Modest
<1> QED
  BY <1>3, <1>5, <1>6

\* The calls of the user that send a message.
LEMMA UserCalls ==
    ASSUME IInv, NEW t \in Thread,
           SendRequest(t) \/ Propose(t) \/ SendPresentation(t) \/ Decline(t)
    PROVE  IInv'
<1>1. user[t] \in User /\ t \in Nat
  BY UserIs
<1>2. {"Failed", "Declined"} \subseteq Status \ {"Success"}
  BY DEF Status
<1>3. ASSUME NEW type \in {"Request", "ProblemReport", "Proposal"}
      PROVE  Msg(type, t) \in Message /\ Msg(type, t).type # "Presentation"
  BY <1>1, <1>3, MsgTyped DEF Type
<1>4. CASE SendRequest(t)
  BY <1>2, <1>3, <1>4, EndsModest, UserSendsStep DEF SendRequest
<1>5. CASE Propose(t)
  BY <1>2, <1>3, <1>5, EndsModest, UserSendsStep DEF Propose
<1>6. CASE Decline(t)
  BY <1>2, <1>3, <1>6, EndsModest, UserSendsStep DEF Decline
<1>7. CASE SendPresentation(t)
  <2>1. CASE user[t].st = "PreparationFailed"
    BY <1>2, <1>3, <1>7, <2>1, EndsModest, UserSendsStep DEF SendPresentation
  <2>2. CASE user[t].st = "Prepared"
    <3>1. PICK m : m = [Msg("Presentation", t) EXCEPT !.valid = user[t].valid, !.ask = user[t].ask]
      OBVIOUS
    <3>2. user[t].valid \in BOOLEAN /\ user[t].ask \in BOOLEAN
      BY <1>1 DEF User
    <3>3. m \in Message /\ m.thid = t /\ m.valid = user[t].valid
      BY <1>1, <3>1, <3>2 DEF Msg, Message, Type
    <3>4. Shows(user, m.thid, m.valid)
      BY <2>2, <3>3 DEF Shows
    <3>5. PICK new : new = IF service THEN Finished(user[t], "Declined")
                                      ELSE [user[t] EXCEPT !.st = "Sent"]
      OBVIOUS
    <3>6. Modest(t, new)
      BY <1>2, <2>2, <3>5, EndsModest
    <3>7. UserSends(t, m, new)
      BY <1>7, <2>2, <3>1, <3>5 DEF SendPresentation
    <3> QED
      BY <3>3, <3>4, <3>6, <3>7, UserSendsStep
  <2> QED
    BY <1>7, <2>1, <2>2 DEF SendPresentation
<1> QED
  BY <1>4, <1>5, <1>6, <1>7

\* What UserTakes does: the object becomes new, or stays as it is when marking
\* the message fails.
LEMMA UserTakesStep ==
    ASSUME IInv, NEW t \in Thread, NEW i \in 1..Len(toUser), NEW new, NEW mark,
           UserTakes(t, i, new, mark, {})
    PROVE  /\ Kept(toUser, toUser') /\ Failing({})
           /\ \E eff : /\ user' = [user EXCEPT ![t] = eff]
                       /\ eff = new \/ (eff = user[t] /\ faults + 1 <= faults')
<1>1. Typed
  BY DEF IInv
<1>2. IsFiniteSet({}) /\ {} \cup {<<"mark", mark>>} = {<<"mark", mark>>}
  BY FS_EmptySet
<1>3. Account({<<"mark", mark>>})
  BY <1>2 DEF UserTakes
<1>4. Failing({<<"mark", mark>>})
  BY <1>1, <1>3, OneFails DEF Typed
<1>5. ~Fine(mark) => faults + 1 <= faults'
  BY <1>4 DEF Failing
<1>6. Kept(toUser, toUser')
  BY <1>1, ReviewKeeps DEF Typed, UserTakes
<1>7. PICK eff : eff = Taken(user[t], new, mark)
  OBVIOUS
<1>8. eff = new \/ (eff = user[t] /\ ~Fine(mark))
  BY <1>7 DEF Taken, AfterMark, BeforeMark
<1>9. user' = [user EXCEPT ![t] = eff]
  BY <1>7 DEF UserTakes
<1> QED
  BY <1>4, <1>5, <1>6, <1>8, <1>9, FailingAtAll

\* A user is told of success by a message that is vouched for.
LEMMA ProverAckStep ==
    ASSUME IInv, NEW t \in Thread, NEW i \in 1..Len(toUser), NEW mark, ProverAck(t, i, mark)
    PROVE  IInv'
<1>1. Typed
  BY DEF IInv
<1>2. user[t] \in User /\ user[t].st = "Sent" /\ user[t].cred = 0
  BY UserIs DEF ProverAck
<1>3. PICK new : new = Finished(user[t], "Success")
  OBVIOUS
<1>4. new \in User /\ new.cred = 0 /\ new.valid = user[t].valid /\ new.st = "Finished"
  BY <1>2, <1>3 DEF Finished, User, Status
<1>5. UserTakes(t, i, new, mark, {}) /\ UNCHANGED <<kind, service, inst, toInst, threads, books>>
  BY <1>3 DEF ProverAck
<1>6. Kept(toUser, toUser') /\ Failing({})
  BY <1>5, UserTakesStep
<1>7. PICK eff : user' = [user EXCEPT ![t] = eff] /\ (eff = new \/ eff = user[t])
  BY <1>5, UserTakesStep
<1>8. "send" \notin doubts' => Succeeded(inst, t)
  <2>1. Vouched(toUser[i], inst, doubts) /\ toUser[i].type = "Ack" /\ toUser[i].thid = t
    BY DEF IInv, AllVouched, ProverAck, Finds
  <2> QED
    BY <1>6, <2>1 DEF Vouched, Failing
<1>9. eff \in User /\ eff.cred = user[t].cred /\ eff.valid = user[t].valid
      /\ eff.st \in {"Sent", "Finished"} /\ (eff.cred # 0 => eff.st = "Finished")
  BY <1>2, <1>4, <1>7
<1>10. UserMoves(t, eff)
  BY <1>1, <1>5, <1>6, <1>7, <1>8, <1>9, StillKept DEF UserMoves, Kept, books
<1> QED
  BY <1>5, <1>9, <1>10, UserTalks DEF books

\* An object that takes a message and ends without success.
LEMMA UserFails ==
    ASSUME IInv, NEW t \in Thread, NEW i \in 1..Len(toUser), NEW mark, NEW m \in Message,
           user[t].st = "Sent", UserTakes(t, i, Finished(user[t], "Failed"), mark, {}),
           Grown(toInst, toInst', m), m.type # "Presentation",
           UNCHANGED <<kind, inst, threads, books>>
    PROVE  IInv'
<1>1. PICK new : new = Finished(user[t], "Failed")
  OBVIOUS
<1>2. Modest(t, new)
  BY <1>1, EndsModest DEF Status
<1>3. Kept(toUser, toUser') /\ Failing({})
  BY <1>1, UserTakesStep
<1>4. PICK eff : user' = [user EXCEPT ![t] = eff] /\ (eff = new \/ eff = user[t])
  BY <1>1, UserTakesStep
<1>5. Modest(t, eff)
  BY <1>2, <1>4, StillModest
<1>6. UserMoves(t, eff)
  BY <1>3, <1>4, <1>5 DEF UserMoves, Modest, Grown, books
<1> QED
  BY <1>5, <1>6, UserTalks DEF Modest, books

\* A problem report of the institution.
LEMMA UserProblemStep ==
    ASSUME IInv, NEW t \in Thread, NEW i \in 1..Len(toUser), NEW mark, UserProblem(t, i, mark)
    PROVE  IInv'
<1>1. Msg("Ack", t) \in Message /\ Msg("Ack", t).type # "Presentation"
  BY UserIs, MsgTyped DEF Type
<1>2. Grown(toInst, toInst', Msg("Ack", t))
  BY StillKept DEF UserProblem, Grown, Kept, IInv
<1> QED
  BY <1>1, <1>2, UserFails DEF UserProblem

\* A credential is stored: its object knows it and is finished, or a call
\* failed.
LEMMA StoreStep ==
    ASSUME IInv, NEW t \in Thread, NEW eff, UserMoves(t, eff),
           user[t].st = "Sent", Requested(inst), inst.thid = t,
           stores' = stores + 1, wallet' = wallet \cup {stores + 1},
           \/ eff.cred = stores + 1 /\ eff.st = "Finished"
           \/ eff.cred = 0 /\ faults + 1 <= faults'
    PROVE  IInv'
<1>1. Typed
  BY DEF IInv
<1>2. stores \in Nat /\ issued \in Nat /\ faults \in Nat /\ wallet \in SUBSET (1..stores)
  BY <1>1 DEF Typed
<1>3. user'[t] = eff /\ \A x \in Thread : x # t => user'[x] = user[x]
  BY <1>1 DEF Typed, UserMoves
<1>4. \A x \in Thread : user[x].cred = 0
  BY UserIs DEF IInv, Stored
<1>5. stores' \in Nat /\ wallet' \in SUBSET (1..stores') /\ stores + 1 \notin wallet /\ 0 \notin wallet
  <2>1. stores' \in Nat
    BY <1>2
  <2>2. 1..stores \subseteq 1..(stores + 1) /\ stores + 1 \in 1..(stores + 1)
    BY <1>2
  <2> QED
    BY <1>2, <2>1, <2>2
<1>6. Stored'
  <2>1. \A x \in Thread : user'[x].cred \in 0..(stores + 1)
    BY <1>2, <1>3, <1>4
  <2>2. \A x \in Thread : user'[x].cred # 0 => x = t /\ user'[x].st = "Finished"
    BY <1>3, <1>4
  <2>3. inst' = inst
    BY DEF UserMoves
  <2> QED
    BY <2>1, <2>2, <2>3 DEF Stored
<1>7. faults' \in Nat /\ faults <= faults' /\ inst' = inst /\ issued' = issued
  BY DEF UserMoves, Failing
<1>8. stores <= faults
  BY <1>4 DEF IInv, Counted, Settled
<1>9. OneMore(stores', faults') /\ (stores' <= faults' \/ Settled(user'))
  <2>1. OneMore(stores + 1, faults)
    BY <1>2, <1>8 DEF OneMore
  <2>2. OneMore(stores', faults')
    BY <1>2, <1>5, <1>7, <2>1, StillWithin
  <2>3. CASE faults + 1 <= faults'
    <3>1. stores' <= faults'
      BY <1>2, <1>7, <1>8, <2>3
    <3> QED
      BY <2>2, <3>1
  <2>4. CASE eff.cred = stores + 1
    <3>1. user'[t].cred # 0
      BY <1>2, <1>3, <2>4
    <3>2. Settled(user')
      BY <3>1 DEF Settled
    <3> QED
      BY <2>2, <3>2
  <2> QED
    BY <2>3, <2>4
<1>10. Cardinality(wallet' \ Known(user')) <= faults'
  <2> DEFINE old == wallet \ Known(user)
  <2>1. IsFiniteSet(old) /\ Cardinality(old) \in Nat /\ Cardinality(old) <= faults
    BY <1>1, Countable DEF IInv, Counted
  <2>2. Known(user) \subseteq {0}
    BY <1>4 DEF Known
  <2>3. old = wallet
    BY <1>5, <2>2
  <2>4. CASE eff.cred = stores + 1
    <3>1. stores + 1 \in Known(user')
      BY <1>3, <2>4 DEF Known
    <3>2. wallet' \ Known(user') \subseteq old
      BY <2>3, <3>1
    <3>3. IsFiniteSet(wallet' \ Known(user')) /\ Cardinality(wallet' \ Known(user')) <= Cardinality(old)
      BY <2>1, <3>2, FS_Subset
    <3>4. Cardinality(wallet' \ Known(user')) \in Nat
      BY <3>3, FS_CardinalityType
    <3> QED
      BY <1>2, <1>7, <2>1, <3>3, <3>4
  <2>5. CASE eff.cred = 0 /\ faults + 1 <= faults'
    <3>1. IsFiniteSet(old \cup {stores + 1}) /\ Cardinality(old \cup {stores + 1}) = Cardinality(old) + 1
      BY <1>5, <2>1, <2>3, FS_AddElement
    <3>2. wallet' \ Known(user') \subseteq old \cup {stores + 1}
      BY <2>3
    <3>3. /\ IsFiniteSet(wallet' \ Known(user'))
          /\ Cardinality(wallet' \ Known(user')) <= Cardinality(old \cup {stores + 1})
      BY <3>1, <3>2, FS_Subset
    <3>4. Cardinality(wallet' \ Known(user')) \in Nat
      BY <3>3, FS_CardinalityType
    <3> QED
      BY <1>2, <1>7, <2>1, <2>5, <3>1, <3>3, <3>4
  <2> QED
    BY <2>4, <2>5
<1>11. OneMore(issued', faults') /\ (issued' <= faults' \/ inst'.st = "Finished")
  <2>1. OneMore(issued, faults) /\ (issued <= faults \/ inst.st = "Finished")
    BY DEF IInv, Counted
  <2> QED
    BY <1>2, <1>7, <2>1, StillWithin
<1>12. Counted'
  BY <1>9, <1>10, <1>11 DEF Counted
<1> QED
  BY <1>5, <1>6, <1>12, UserStep

\* The holder stores a credential of the thread that was asked for, or reports
\* that it cannot.
LEMMA HolderCredentialStep ==
    ASSUME IInv, NEW t \in Thread, NEW i \in 1..Len(toUser), NEW mark, HolderCredential(t, i, mark)
    PROVE  IInv'
<1>1. Typed
  BY DEF IInv
<1>2. user[t] \in User /\ user[t].st = "Sent" /\ user[t].cred = 0 /\ t \in Nat
  BY UserIs DEF HolderCredential
<1>3. Vouched(toUser[i], inst, doubts) /\ toUser[i].type = "Credential" /\ toUser[i].thid = t
  BY DEF IInv, AllVouched, HolderCredential, Finds
<1>4. Requested(inst) /\ inst.thid = t
  BY <1>3 DEF Vouched
<1>5. UNCHANGED <<kind, service, inst, threads, issued>>
  BY DEF HolderCredential
<1>6. Msg("Ack", t) \in Message /\ Msg("Ack", t).type # "Presentation"
  BY <1>2, MsgTyped DEF Type
<1>7. Msg("ProblemReport", t) \in Message /\ Msg("ProblemReport", t).type # "Presentation"
  BY <1>2, MsgTyped DEF Type
<1>8. stores \in Nat
  BY <1>1 DEF Typed
<1>9. PICK new : new = [Finished(user[t], "Success") EXCEPT !.cred = stores + 1]
  OBVIOUS
<1>10. /\ new \in User /\ new.cred = stores + 1 /\ new.st = "Finished"
       /\ new.valid = user[t].valid
  <2>1. PICK fin : fin = Finished(user[t], "Success")
    OBVIOUS
  <2>2. fin \in User /\ fin.st = "Finished" /\ fin.valid = user[t].valid
    BY <1>2, <2>1 DEF Finished, User, Status
  <2>3. new = [fin EXCEPT !.cred = stores + 1] /\ stores + 1 \in Nat
    BY <1>8, <1>9, <2>1
  <2> QED
    BY <2>2, <2>3 DEF User
<1>11. ASSUME stores' = stores + 1, wallet' = wallet \cup {stores + 1},
              toInst' = IF toUser[i].ask THEN Append(toInst, Msg("Ack", t)) ELSE toInst,
              UserTakes(t, i, new, mark, {})
       PROVE  IInv'
  <2>1. Kept(toUser, toUser') /\ Failing({})
    BY <1>11, UserTakesStep
  <2>2. PICK eff : /\ user' = [user EXCEPT ![t] = eff]
                   /\ eff = new \/ (eff = user[t] /\ faults + 1 <= faults')
    BY <1>11, UserTakesStep
  <2>3. Grown(toInst, toInst', Msg("Ack", t))
    <3>1. Grown(toInst, Post(toInst, Msg("Ack", t), "ok"), Msg("Ack", t))
      BY <1>1, <1>6, PostGrows DEF Typed
    <3>2. Grown(toInst, toInst, Msg("Ack", t))
      BY <1>1, StillKept DEF Grown, Kept
    <3> QED
      BY <1>11, <3>1, <3>2 DEF Post
  <2>4. "send" \notin doubts' => Succeeded(inst, t)
    BY <1>3, <2>1 DEF Vouched, Failing
  <2>5. eff \in User /\ eff.valid = user[t].valid /\ eff.st \in {"Sent", "Finished"}
    BY <1>2, <1>10, <2>2
  <2>6. UserMoves(t, eff)
    BY <1>5, <1>6, <2>1, <2>2, <2>3, <2>4, <2>5 DEF UserMoves, Grown
  <2>7. \/ eff.cred = stores + 1 /\ eff.st = "Finished"
        \/ eff.cred = 0 /\ faults + 1 <= faults'
    BY <1>2, <1>10, <2>2
  <2> QED
    BY <1>2, <1>4, <1>11, <2>6, <2>7, StoreStep
<1>12. ASSUME stores' = stores + 1, wallet' = wallet \cup {stores + 1},
              NEW out \in {"lost", "doubt"},
              toInst' = Post(toInst, Msg("Ack", t), out), Account({<<"send", out>>}),
              UNCHANGED <<user, toUser>>
       PROVE  IInv'
  <2>1. Failing({<<"send", out>>})
    BY <1>1, <1>12, OneFails DEF Typed
  <2>2. Failing({}) /\ faults + 1 <= faults'
    BY <1>12, <2>1 DEF Failing, Fine
  <2>3. Grown(toInst, toInst', Msg("Ack", t))
    BY <1>1, <1>6, <1>12, PostGrows DEF Typed
  <2>4. Kept(toUser, toUser') /\ user' = [user EXCEPT ![t] = user[t]]
    BY <1>1, <1>12, StillKept, UserIs
  <2>5. UserMoves(t, user[t])
    BY <1>2, <1>5, <1>6, <2>2, <2>3, <2>4 DEF UserMoves, Grown
  <2> QED
    BY <1>2, <1>4, <1>12, <2>2, <2>5, StoreStep
<1>13. ASSUME NEW out \in Outcome, toInst' = Post(toInst, Msg("ProblemReport", t), out),
              UNCHANGED <<wallet, stores>>,
              \/ UserTakes(t, i, Finished(user[t], "Failed"), mark, {})
              \/ Account({<<"send", out>>}) /\ UNCHANGED <<user, toUser>>
       PROVE  IInv'
  <2>1. Grown(toInst, toInst', Msg("ProblemReport", t))
    BY <1>1, <1>7, <1>13, PostGrows DEF Typed
  <2>2. UNCHANGED books
    BY <1>5, <1>13 DEF books
  <2>3. CASE UserTakes(t, i, Finished(user[t], "Failed"), mark, {})
    BY <1>2, <1>5, <1>7, <2>1, <2>2, <2>3, UserFails
  <2>4. CASE Account({<<"send", out>>}) /\ UNCHANGED <<user, toUser>>
    <3>1. Failing({})
      BY <1>1, <2>4, OneFails, FailingAtAll DEF Typed
    <3>2. Kept(toUser, toUser') /\ user' = [user EXCEPT ![t] = user[t]]
      BY <1>1, <2>4, StillKept, UserIs
    <3>3. UserMoves(t, user[t])
      BY <1>2, <1>5, <1>7, <2>1, <3>1, <3>2 DEF UserMoves, Grown
    <3> QED
      BY <1>2, <1>13, <3>3, UserTalks
  <2> QED
    BY <1>13, <2>3, <2>4
<1> QED
  BY <1>9, <1>11, <1>12, <1>13 DEF HolderCredential

\* The holder deletes the credential it knows.
LEMMA DeleteStep ==
    ASSUME IInv, NEW t \in Thread, DeleteCredential(t)
    PROVE  IInv'
<1>1. Typed
  BY DEF IInv
<1>2. /\ wallet' = wallet \ {user[t].cred}
      /\ UNCHANGED <<kind, service, inst, user, boxes, threads, issued, stores, faults, doubts>>
  BY DEF DeleteCredential
<1>3. Cardinality(wallet' \ Known(user)) <= faults
  <2>1. /\ IsFiniteSet(wallet \ Known(user)) /\ Cardinality(wallet \ Known(user)) \in Nat
        /\ Cardinality(wallet \ Known(user)) <= faults /\ faults \in Nat
    BY <1>1, Countable DEF IInv, Counted, Typed
  <2>2. wallet' \ Known(user) \subseteq wallet \ Known(user)
    BY <1>2
  <2>3. /\ IsFiniteSet(wallet' \ Known(user))
        /\ Cardinality(wallet' \ Known(user)) <= Cardinality(wallet \ Known(user))
    BY <2>1, <2>2, FS_Subset
  <2>4. Cardinality(wallet' \ Known(user)) \in Nat
    BY <2>3, FS_CardinalityType
  <2> QED
    BY <2>1, <2>3, <2>4
<1>4. Known(user') = Known(user) /\ (Settled(user') <=> Settled(user))
  BY <1>2 DEF Known, Settled
<1>5. Counted'
  BY <1>2, <1>3, <1>4 DEF IInv, Counted
<1>6. Stored'
  BY <1>2 DEF IInv, Stored
<1>7. stores' \in Nat /\ wallet' \in SUBSET (1..stores')
  BY <1>1, <1>2 DEF Typed
<1>8. Failing({})
  BY <1>1, <1>2 DEF Typed, Failing
<1>9. Kept(toUser, toUser') /\ Kept(toInst, toInst')
  BY <1>1, <1>2, StillKept DEF boxes
<1>10. UserMoves(t, user[t])
  BY <1>2, <1>8, <1>9, UserIs DEF UserMoves, Kept
<1> QED
  BY <1>5, <1>6, <1>7, <1>10, UserStep

----------------------------------------------------------------------------
(* The invariant is inductive *)

\* Nothing has been sent at first.
LEMMA InitIInv == Init => IInv
<1> SUFFICES ASSUME Init PROVE IInv
  OBVIOUS
<1>1. \A t \in Thread : user[t] = Absent
  BY DEF Init
<1>2. /\ Absent \in User /\ Absent.st = "Absent" /\ Absent.status = "Undefined"
      /\ Absent.cred = 0 /\ Absent.valid = FALSE
  BY DEF Absent, User, Status
<1>3. inst \in Inst /\ inst.status = "Undefined" /\ inst.st = "Initial"
  BY DEF Init, Inst, Status, NoThread
<1>4. /\ toInst = <<>> /\ toUser = <<>> /\ threads = 0 /\ issued = 0 /\ wallet = {} /\ stores = 0
      /\ faults = 0 /\ doubts = {} /\ kind \in {"issuance", "presentation"}
  BY ExchangeAssumption DEF Init
<1>5. user \in [Thread -> User]
  BY <1>2 DEF Init
<1>6. Typed
  BY <1>3, <1>4, <1>5 DEF Typed
<1>7. Over(inst) /\ AllVouched /\ Shown /\ Accepts
  BY <1>3, <1>4 DEF Over, AllVouched, Shown, Accepts
<1>8. Confirmed /\ Stored
  BY <1>1, <1>2, <1>4 DEF Confirmed, Stored
<1>9. Counted
  <2>1. wallet \ Known(user) = {}
    BY <1>4
  <2>2. Cardinality(wallet \ Known(user)) = 0
    BY <2>1, FS_EmptySet
  <2> QED
    BY <1>4, <2>2 DEF Counted, OneMore
<1> QED
  BY <1>6, <1>7, <1>8, <1>9 DEF IInv

\* Every step keeps the invariant.
LEMMA NextIInv == IInv /\ [Next]_vars => IInv'
<1> SUFFICES ASSUME IInv, [Next]_vars PROVE IInv'
  OBVIOUS
<1>1. CASE SendOffer
  BY <1>1, SendOfferStep
<1>2. CASE SendCredential
  BY <1>2, SendCredentialStep
<1>3. CASE InstPolls(Mark)
  BY <1>3, InstProblemStep, InstProposalStep, IssuerRequestStep, VerifierPresentationStep
    DEF InstPolls
<1>4. ASSUME NEW t \in Thread, Create(t) PROVE IInv'
  BY <1>4, CreateStep
<1>5. ASSUME NEW t \in Thread, SendRequest(t) \/ Propose(t) \/ SendPresentation(t) \/ Decline(t)
      PROVE  IInv'
  BY <1>5, UserCalls
<1>6. ASSUME NEW t \in Thread, Prepare(t) PROVE IInv'
  BY <1>6, PrepareStep
<1>7. ASSUME NEW t \in Thread, UserPolls(t, Mark) PROVE IInv'
  BY <1>7, HolderCredentialStep, ProverAckStep, UserProblemStep DEF UserPolls
<1>8. ASSUME NEW t \in Thread, DeleteCredential(t) PROVE IInv'
  BY <1>8, DeleteStep
<1>9. CASE UNCHANGED vars
  BY <1>9 DEF vars, IInv, Typed, AllVouched, Shown, Accepts, Confirmed, Stored, Counted
<1> QED
  BY <1>1, <1>2, <1>3, <1>4, <1>5, <1>6, <1>7, <1>8, <1>9 DEF Next

\* The invariant holds throughout.
LEMMA Inductive == Spec => []IInv
BY InitIInv, NextIInv, PTL DEF Spec

----------------------------------------------------------------------------
(* The theorems *)

\* The two sides of an exchange agree: unless a message arrived although its
\* sender was told it did not, a user that succeeded has an institution that
\* says so of the same thread; and a proof that was accepted is valid.
THEOREM SidesAgree == Spec => []Agreement
<1>1. IInv => Agreement
  BY DEF IInv, Confirmed, Succeeded, Accepts, Shows, Agreement
<1> QED
  BY <1>1, Inductive, PTL

\* One credential is created and one is stored, and at most one more for each
\* call that failed; only failures leave one that no object knows.
THEOREM RetriesArePaid == Spec => []OncePerFault
<1>1. ASSUME IInv PROVE OncePerFault
  <2>1. issued \in Nat /\ stores \in Nat /\ faults \in Nat
    BY <1>1 DEF IInv, Typed
  <2>2. issued <= 1 + faults /\ stores <= 1 + faults
    BY <1>1, <2>1 DEF IInv, Counted, OneMore
  <2> QED
    BY <1>1, <2>2 DEF IInv, Counted, Known, OncePerFault
<1> QED
  BY <1>1, Inductive, PTL

=============================================================================
