------------------------- MODULE VcxConnectionProofs -------------------------
(***************************************************************************)
(* Proofs about VcxConnection: for any number of invitees, of connection   *)
(* attempts and of calls over the network that fail, the two ends of a     *)
(* connection hold each other's keys.                                      *)
(***************************************************************************)
EXTENDS VcxConnection, TLAPS

----------------------------------------------------------------------------
(* The inductive invariant.  Its parts are about any machines s, mailboxes *)
(* bs, number n of agents provisioned and kinds D of calls in doubt.       *)

Talk == {"Ack", "Ping", "PingResponse", "Query", "Disclose"}
Type == {"Request", "Response", "ProblemReport"} \cup Talk

Message == [type : Type, key : Nat, ask : BOOLEAN, read : BOOLEAN]

Machine ==
    [st : {"Absent", "Null", "Invited", "Requested", "Responded", "Completed"},
     me : Nat, inv : Nat, peer : Nat, known : BOOLEAN]

Mailboxes == [Agent -> Seq(Message)]

\* The inviter has answered; an invitee and the inviter hold each other's keys.
Answered(s) == s[inviter].st \in {"Responded", "Completed"}
Paired(s, c) == s[c].peer = s[inviter].me /\ s[inviter].peer = s[c].me

\* The agents of the inviter: the one it reads first and that of the invitation.
Own(s) == {s[inviter].me, s[inviter].inv}

Placed(s, n) ==
    /\ s \in [Party -> Machine] /\ n \in 0..MaxAgents
    /\ \A p \in Party : s[p].me <= n /\ s[p].inv <= n /\ s[p].peer <= n
    /\ \A c \in Invitee :
          /\ s[c].st # "Responded"
          /\ s[c].st # "Absent" => s[c].inv # NoAgent
          /\ s[c].st \notin {"Absent", "Invited"} => s[c].me # NoAgent
          /\ s[c].st = "Completed" => s[c].peer # NoAgent
    /\ s[inviter].st \notin {"Absent", "Requested"}
    /\ s[inviter].st # "Null" => NoAgent \notin Own(s)
    /\ s[inviter].me # NoAgent => s[inviter].inv # NoAgent
    /\ Answered(s) => s[inviter].peer # NoAgent

\* Agents are of one party only.
Apart(s) ==
    /\ \A c \in Invitee :
          /\ s[c].me # NoAgent => s[c].me \notin Own(s)
          /\ \A d \in Invitee : s[c].me # NoAgent /\ s[c].me = s[d].me => c = d
    /\ s[inviter].peer # NoAgent => s[inviter].peer \notin Own(s)

\* What KeysAgree says.
Agreed(s, D) ==
    /\ \A c \in Invitee :
          /\ s[c].st = "Completed" /\ s[c].peer = s[inviter].me => Paired(s, c)
          /\ s[c].st = "Completed" /\ "send" \notin D => Paired(s, c) /\ Answered(s)
    /\ s[inviter].st = "Completed" /\ "send" \notin D
          => \E c \in Invitee : s[c].st = "Completed" /\ Paired(s, c)

\* What message m in mailbox b means.  A request names an agent of an invitee.
\* The agent that a response names is the inviter's present one only if it was
\* sent to the inviter's peer.
Names(b, m, s, n) ==
    /\ m.type \in {"Request", "Response"} => m.key \in 1..n
    /\ m.type = "Request" => m.key \notin Own(s)
    /\ m.type = "Response" /\ m.key = s[inviter].me => s[inviter].peer = b

\* Unless a send that was reported as failed has arrived: an invitee that waits
\* and has a response is the one the inviter answered; a report to the inviter
\* is of the invitee it answered, which has given up; and whatever else it gets
\* is of an invitee that it is connected with.
GaveUp(s) ==
    \A c \in Invitee : s[c].st \in {"Requested", "Completed"} => s[c].me # s[inviter].peer

Means(b, m, s) ==
    /\ m.type = "Response" =>
          \A c \in Invitee : s[c].st = "Requested" /\ s[c].me = b =>
              Answered(s) /\ s[inviter].me = m.key /\ s[inviter].peer = b
    /\ m.type = "ProblemReport" /\ b \in Own(s) =>
          /\ s[inviter].st # "Invited"
          /\ GaveUp(s)
    /\ m.type \in Talk /\ b \in Own(s) =>
          \E c \in Invitee : s[c].st = "Completed" /\ Paired(s, c)

Right(b, m, s, n, D) == Names(b, m, s, n) /\ ("send" \in D \/ Means(b, m, s))

\* Every message is right, and no agent that is still to come has any.
MailRight(s, bs, n, D) ==
    /\ bs \in Mailboxes
    /\ \A b \in Agent : \A i \in 1..Len(bs[b]) : b <= n /\ Right(b, bs[b][i], s, n, D)

Good(s, bs, n, D) == Placed(s, n) /\ Apart(s) /\ Agreed(s, D) /\ MailRight(s, bs, n, D)

IInv == Good(sm, boxes, agents, doubts)

----------------------------------------------------------------------------
(* Mailboxes *)

\* Two messages that mean the same.
Alike(m, k) == m.type = k.type /\ m.key = k.key

\* From mailboxes bs to cs, nothing is new but messages of P, pairs of a
\* mailbox and a message.
Delivers(bs, cs, P) ==
    /\ cs \in Mailboxes
    /\ \A b \in Agent : \A i \in 1..Len(cs[b]) :
          \/ i \in 1..Len(bs[b]) /\ Alike(cs[b][i], bs[b][i])
          \/ <<b, cs[b][i]>> \in P

\* A message is posted, or lost.
LEMMA PutDelivers ==
    ASSUME NEW bs, NEW cs, NEW P, Delivers(bs, cs, P),
           NEW a \in Agent, NEW m \in Message, NEW out
    PROVE  Delivers(bs, Put(cs, a, m, out), P \cup {<<a, m>>})
<1>1. cs \in Mailboxes /\ cs[a] \in Seq(Message)
  BY DEF Delivers, Mailboxes
<1>2. CASE out = "lost"
  <2>1. Put(cs, a, m, out) = cs
    BY <1>1, <1>2 DEF Put, Post, Mailboxes
  <2> QED
    BY <2>1 DEF Delivers
<1>3. CASE out # "lost"
  <2>1. PICK box : box = Append(cs[a], m)
    OBVIOUS
  <2>2. box \in Seq(Message) /\ Len(box) = Len(cs[a]) + 1
        /\ \A i \in 1..Len(box) : box[i] = m \/ (i \in 1..Len(cs[a]) /\ box[i] = cs[a][i])
    BY <1>1, <2>1
  <2>3. PICK ds : ds = [cs EXCEPT ![a] = box]
    OBVIOUS
  <2>4. Put(cs, a, m, out) = ds
    BY <1>3, <2>1, <2>3 DEF Put, Post
  <2>5. ds \in Mailboxes /\ ds[a] = box /\ \A b \in Agent : b # a => ds[b] = cs[b]
    BY <1>1, <2>2, <2>3 DEF Mailboxes
  <2>6. ASSUME NEW b \in Agent, NEW i \in 1..Len(ds[b])
        PROVE  \/ i \in 1..Len(bs[b]) /\ Alike(ds[b][i], bs[b][i])
               \/ <<b, ds[b][i]>> \in P \cup {<<a, m>>}
    <3>1. CASE b # a
      BY <2>5, <3>1 DEF Delivers
    <3>2. CASE b = a /\ box[i] = m
      BY <2>5, <3>2
    <3>3. CASE b = a /\ i \in 1..Len(cs[a]) /\ box[i] = cs[a][i]
      BY <2>5, <3>3 DEF Delivers
    <3> QED
      BY <2>2, <2>5, <3>1, <3>2, <3>3
  <2>7. Delivers(bs, ds, P \cup {<<a, m>>})
    BY <2>5, <2>6 DEF Delivers
  <2> QED
    BY <2>4, <2>7
<1> QED
  BY <1>2, <1>3

\* Mailboxes that stay as they are.
LEMMA NothingDelivered ==
    ASSUME NEW bs \in Mailboxes PROVE Delivers(bs, bs, {})
BY DEF Delivers, Alike

\* A message is marked.
LEMMA ReviewedDelivers ==
    ASSUME boxes \in Mailboxes, NEW b \in Agent, NEW i \in 1..Len(boxes[b]), NEW mark
    PROVE  Delivers(boxes, Reviewed(b, i, mark), {})
<1>1. boxes[b] \in Seq(Message) /\ boxes[b][i] \in Message
  BY DEF Mailboxes
<1>2. CASE mark \in {"ok", "doubt"}
  <2>1. PICK m : m = [boxes[b][i] EXCEPT !.read = TRUE]
    OBVIOUS
  <2>2. m \in Message /\ Alike(m, boxes[b][i])
    BY <1>1, <2>1 DEF Message, Alike
  <2>3. PICK box : box = [boxes[b] EXCEPT ![i] = m]
    OBVIOUS
  <2>4. box \in Seq(Message) /\ Len(box) = Len(boxes[b])
        /\ \A j \in 1..Len(box) : box[j] = IF j = i THEN m ELSE boxes[b][j]
    BY <1>1, <2>2, <2>3
  <2>5. PICK ds : ds = [boxes EXCEPT ![b] = box]
    OBVIOUS
  <2>6. Reviewed(b, i, mark) = ds
    BY <1>2, <2>1, <2>3, <2>5 DEF Reviewed, Review
  <2>7. ds \in Mailboxes /\ ds[b] = box /\ \A a \in Agent : a # b => ds[a] = boxes[a]
    BY <2>4, <2>5 DEF Mailboxes
  <2>8. Delivers(boxes, ds, {})
    BY <2>2, <2>4, <2>7 DEF Delivers, Alike
  <2> QED
    BY <2>6, <2>8
<1>3. CASE mark \notin {"ok", "doubt"}
  <2>1. Reviewed(b, i, mark) = boxes
    BY <1>3 DEF Reviewed, Review, Mailboxes
  <2> QED
    BY <2>1, NothingDelivered
<1> QED
  BY <1>2, <1>3

\* What a message means depends on its type and key.
LEMMA AlikeRight ==
    ASSUME NEW b, NEW m, NEW k, Alike(m, k), NEW s, NEW n, NEW D, Right(b, k, s, n, D)
    PROVE  Right(b, m, s, n, D)
BY DEF Alike, Right, Names, Means

\* The machines go from s to t: they are placed, apart and agreed, and every
\* message that was right still is.
Moves(s, n, D, t, k, E) ==
    /\ Placed(t, k) /\ Apart(t) /\ Agreed(t, E)
    /\ \A b \in 1..n, m \in Message : Right(b, m, s, n, D) => Right(b, m, t, k, E)

\* Such a step, with messages that are right, keeps the invariant.
LEMMA MoveStep ==
    ASSUME NEW s, NEW bs, NEW n, NEW D, Good(s, bs, n, D), NEW t, NEW cs, NEW k, NEW E, n <= k,
           Moves(s, n, D, t, k, E), NEW P, Delivers(bs, cs, P),
           \A b \in Agent, m \in Message : <<b, m>> \in P => b <= k /\ Right(b, m, t, k, E)
    PROVE  Good(t, cs, k, E)
<1>1. n \in Nat /\ k \in Nat /\ MailRight(s, bs, n, D) /\ MaxAgents \in Nat
  BY ConnectionAssumption DEF Good, Placed, Moves
<1>2. ASSUME NEW b \in Agent, NEW i \in 1..Len(cs[b])
      PROVE  b <= k /\ Right(b, cs[b][i], t, k, E)
  <2>1. cs[b][i] \in Message /\ b \in Nat \ {0}
    BY DEF Delivers, Mailboxes, Agent
  <2>2. CASE i \in 1..Len(bs[b]) /\ Alike(cs[b][i], bs[b][i])
    <3>1. b <= n /\ Right(b, bs[b][i], s, n, D)
      BY <1>1, <2>2 DEF MailRight
    <3>2. b \in 1..n /\ b <= k
      BY <1>1, <2>1, <3>1
    <3>3. bs[b][i] \in Message
      BY <1>1, <2>2 DEF MailRight, Mailboxes
    <3>4. Right(b, bs[b][i], t, k, E)
      BY <3>1, <3>2, <3>3 DEF Moves
    <3> QED
      BY <2>2, <3>2, <3>4, AlikeRight
  <2>3. CASE <<b, cs[b][i]>> \in P
    BY <2>1, <2>3
  <2> QED
    BY <2>2, <2>3 DEF Delivers
<1> QED
  BY <1>2 DEF Good, Moves, MailRight, Delivers

----------------------------------------------------------------------------
(* How the machines move *)

\* What the types say of a machine.
LEMMA MachineIs ==
    ASSUME NEW s, NEW n, Placed(s, n), NEW p \in Party
    PROVE  /\ s[p] \in Machine /\ s[p].me \in 0..n /\ s[p].inv \in 0..n /\ s[p].peer \in 0..n
           /\ s \in [Party -> Machine] /\ n \in Nat /\ n <= MaxAgents
<1>1. s \in [Party -> Machine] /\ n \in Nat /\ n <= MaxAgents
  BY ConnectionAssumption DEF Placed
<1>2. s[p] \in Machine
  BY <1>1
<1>3. s[p].me \in Nat /\ s[p].inv \in Nat /\ s[p].peer \in Nat
  BY <1>2 DEF Machine
<1> QED
  BY <1>1, <1>2, <1>3 DEF Placed

\* One machine changes, the others do not.
Changes(s, p, x, t) ==
    /\ t \in [Party -> Machine] /\ t[p] = x
    /\ \A q \in Party : q # p => t[q] = s[q]

\* An assignment to one machine.
LEMMA OneChanges ==
    ASSUME NEW s \in [Party -> Machine], NEW p \in Party, NEW x \in Machine
    PROVE  Changes(s, p, x, [s EXCEPT ![p] = x])
BY DEF Changes

\* The parties are the inviter and the invitees.
LEMMA Parties == inviter \in Party /\ \A c \in Invitee : c \in Party /\ c # inviter
BY ConnectionAssumption DEF Party

\* Nothing moves but what is known of protocols, and agents nobody has.
LEMMA KeysStay ==
    ASSUME NEW s, NEW n, NEW D, Placed(s, n), Apart(s), Agreed(s, D),
           NEW t \in [Party -> Machine], NEW k \in 0..MaxAgents, n <= k, NEW E, D \subseteq E,
           \A p \in Party : /\ t[p].st = s[p].st /\ t[p].me = s[p].me
                            /\ t[p].inv = s[p].inv /\ t[p].peer = s[p].peer
    PROVE  Moves(s, n, D, t, k, E)
<1>1. \A p \in Party : t[p].me <= k /\ t[p].inv <= k /\ t[p].peer <= k
  <2> SUFFICES ASSUME NEW p \in Party PROVE t[p].me <= k /\ t[p].inv <= k /\ t[p].peer <= k
    OBVIOUS
  <2>1. s[p].me \in 0..n /\ s[p].inv \in 0..n /\ s[p].peer \in 0..n /\ n \in Nat /\ k \in Nat
    BY MachineIs, ConnectionAssumption
  <2> QED
    BY <2>1
<1>2. Placed(t, k)
  BY <1>1, Parties DEF Placed, Own, Answered
<1>3. Apart(t)
  BY Parties DEF Apart, Own
<1>4. Agreed(t, E)
  BY Parties DEF Agreed, Paired, Answered
<1>5. 1..n \subseteq 1..k
  BY MachineIs, ConnectionAssumption, Parties
<1>6. ASSUME NEW b \in 1..n, NEW m \in Message, Right(b, m, s, n, D)
      PROVE  Right(b, m, t, k, E)
  <2>1. Names(b, m, t, k)
    BY <1>5, <1>6, Parties DEF Right, Names, Own
  <2>2. Means(b, m, s) => Means(b, m, t)
    BY Parties DEF Means, Own, Answered, Paired, GaveUp
  <2> QED
    BY <1>6, <2>1, <2>2 DEF Right
<1> QED
  BY <1>2, <1>3, <1>4, <1>6 DEF Moves

\* The inviter makes an invitation with a new agent.
LEMMA InviterStarts ==
    ASSUME NEW s, NEW n, NEW D, Placed(s, n), Apart(s), Agreed(s, D), n + 1 <= MaxAgents,
           s[inviter].st = "Null", NEW t, NEW x, Changes(s, inviter, x, t),
           x.st = "Invited", x.me = n + 1, x.inv = n + 1, x.peer = NoAgent
    PROVE  Moves(s, n, D, t, n + 1, D)
<1>1. n \in Nat /\ n + 1 \in 0..MaxAgents
  BY MachineIs, Parties, ConnectionAssumption
<1>2. \A c \in Invitee : t[c] = s[c] /\ s[c].me \in 0..n /\ s[c].inv \in 0..n /\ s[c].peer \in 0..n
  BY MachineIs, Parties DEF Changes
<1>3. t[inviter] = x /\ t \in [Party -> Machine]
  BY DEF Changes
<1>4. \A p \in Party : t[p].me <= n + 1 /\ t[p].inv <= n + 1 /\ t[p].peer <= n + 1
  BY <1>1, <1>2, <1>3 DEF Party, NoAgent
<1>5. Placed(t, n + 1)
  BY <1>1, <1>2, <1>3, <1>4 DEF Placed, Own, Answered, NoAgent
<1>6. Apart(t)
  BY <1>1, <1>2, <1>3 DEF Apart, Own, NoAgent
<1>7. \A c \in Invitee : s[c].st = "Completed" => "send" \in D
  BY DEF Agreed, Answered
<1>8. Agreed(t, D)
  BY <1>1, <1>2, <1>3, <1>7 DEF Agreed, Answered
<1>9. ASSUME NEW b \in 1..n, NEW m \in Message, Right(b, m, s, n, D)
      PROVE  Right(b, m, t, n + 1, D)
  <2>1. Own(t) = {n + 1} /\ b \notin Own(t) /\ (m.key \in 1..n => m.key \notin Own(t) /\ m.key \in 1..(n + 1))
    BY <1>1, <1>3 DEF Own
  <2>2. Names(b, m, t, n + 1)
    BY <1>9, <2>1 DEF Right, Names, Own
  <2>3. Means(b, m, s) => Means(b, m, t)
    BY <1>2, <2>1 DEF Means, Answered
  <2> QED
    BY <1>9, <2>2, <2>3 DEF Right
<1> QED
  BY <1>5, <1>6, <1>8, <1>9 DEF Moves

\* An invitee gets the invitation, or asks with a new agent.
LEMMA InviteeStarts ==
    ASSUME NEW s, NEW n, NEW D, Placed(s, n), Apart(s), Agreed(s, D),
           NEW k \in 0..MaxAgents, NEW E, D \subseteq E,
           NEW c \in Invitee, s[c].st \in {"Absent", "Null", "Invited"},
           NEW t, NEW x, Changes(s, c, x, t), x.inv \in 1..n,
           \/ x.st = "Invited" /\ x.me = NoAgent /\ x.peer = NoAgent /\ k = n
           \/ x.st = "Invited" /\ x.me = s[c].me /\ x.peer = s[c].peer /\ k = n
           \/ x.st = "Requested" /\ x.me = k /\ x.peer = s[c].peer /\ k = n + 1
    PROVE  Moves(s, n, D, t, k, E)
<1>1. n \in Nat /\ k \in Nat /\ n <= k
  BY MachineIs, Parties, ConnectionAssumption
<1>2. \A d \in Invitee : s[d].me \in 0..n /\ s[d].inv \in 0..n /\ s[d].peer \in 0..n
  BY MachineIs, Parties
<1>3. t[c] = x /\ t \in [Party -> Machine] /\ c # inviter
      /\ t[inviter] = s[inviter] /\ \A d \in Invitee : d # c => t[d] = s[d]
  BY Parties DEF Changes
<1>4. s[inviter].me \in 0..n /\ s[inviter].inv \in 0..n /\ s[inviter].peer \in 0..n
  BY MachineIs, Parties
<1>5. x.me \in 0..k /\ x.inv \in 0..k /\ x.peer \in 0..k
  BY <1>1, <1>2 DEF NoAgent
<1>6. \A p \in Party : t[p].me <= k /\ t[p].inv <= k /\ t[p].peer <= k
  BY <1>1, <1>2, <1>3, <1>4, <1>5 DEF Party
<1>7. Own(t) = Own(s) /\ (Answered(t) <=> Answered(s))
  BY <1>3 DEF Own, Answered
<1>8. Placed(t, k)
  BY <1>1, <1>3, <1>5, <1>6, <1>7 DEF Placed, NoAgent
<1>9. x.me # NoAgent => x.me \notin Own(s) /\ \A d \in Invitee : d # c => s[d].me # x.me
  <2>1. CASE x.me = n + 1
    BY <1>1, <1>2, <1>4, <2>1 DEF Own, NoAgent
  <2>2. CASE x.me = s[c].me
    BY <2>2 DEF Apart
  <2> QED
    BY <2>1, <2>2
<1>10. Apart(t)
  BY <1>3, <1>7, <1>9 DEF Apart
<1>11. \A d \in Invitee : t[d].st = "Completed" => d # c /\ t[d] = s[d]
  BY <1>3
<1>12. Agreed(t, E)
  <2>1. \A d \in Invitee : d # c => (Paired(t, d) <=> Paired(s, d))
    BY <1>3 DEF Paired
  <2>2. \A d \in Invitee : s[d].st = "Completed" => d # c
    OBVIOUS
  <2> QED
    BY <1>3, <1>7, <1>11, <2>1, <2>2 DEF Agreed
<1>13. ASSUME NEW b \in 1..n, NEW m \in Message, Right(b, m, s, n, D)
       PROVE  Right(b, m, t, k, E)
  <2>1. 1..n \subseteq 1..k
    BY <1>1
  <2>2. Names(b, m, t, k)
    BY <1>3, <1>7, <1>13, <2>1 DEF Right, Names
  <2>3. ASSUME Means(b, m, s) PROVE Means(b, m, t)
    <3>1. x.st = "Requested" => x.me # b
      BY <1>1
    <3>2. m.type = "Response" =>
            \A d \in Invitee : t[d].st = "Requested" /\ t[d].me = b =>
                Answered(t) /\ t[inviter].me = m.key /\ t[inviter].peer = b
      BY <1>3, <1>7, <2>3, <3>1 DEF Means
    <3>3. \A d \in Invitee : s[d].st = "Completed" => t[d] = s[d]
      BY <1>3
    <3>4. ASSUME GaveUp(s) PROVE GaveUp(t)
      <4>1. x.st = "Requested" => x.me # s[inviter].peer
        BY <1>1, <1>4
      <4> QED
        BY <1>3, <3>4, <4>1 DEF GaveUp
    <3> QED
      BY <1>3, <1>7, <2>3, <3>2, <3>3, <3>4 DEF Means, Paired
  <2> QED
    BY <1>13, <2>2, <2>3 DEF Right
<1> QED
  BY <1>8, <1>10, <1>12, <1>13 DEF Moves

\* The inviter answers the request of agent a with a new agent.
LEMMA InviterAnswers ==
    ASSUME NEW s, NEW n, NEW D, Placed(s, n), Apart(s), Agreed(s, D), n + 1 <= MaxAgents,
           NEW E, D \subseteq E, s[inviter].st = "Invited", NEW a \in 1..n, a \notin Own(s),
           NEW t, NEW x, Changes(s, inviter, x, t),
           x.st = "Responded", x.me = n + 1, x.inv = s[inviter].inv, x.peer = a
    PROVE  Moves(s, n, D, t, n + 1, E)
<1>1. n \in Nat /\ n + 1 \in 0..MaxAgents /\ s[inviter].inv \in 0..n
  BY MachineIs, Parties, ConnectionAssumption
<1>2. \A c \in Invitee : t[c] = s[c] /\ s[c].me \in 0..n /\ s[c].inv \in 0..n /\ s[c].peer \in 0..n
  BY MachineIs, Parties DEF Changes
<1>3. t[inviter] = x /\ t \in [Party -> Machine]
  BY DEF Changes
<1>4. \A p \in Party : t[p].me <= n + 1 /\ t[p].inv <= n + 1 /\ t[p].peer <= n + 1
  BY <1>1, <1>2, <1>3 DEF Party
<1>5. Own(t) = {n + 1, s[inviter].inv} /\ s[inviter].inv \in Own(s) /\ NoAgent \notin Own(s)
  BY <1>3 DEF Own, Placed
<1>6. Placed(t, n + 1)
  BY <1>1, <1>2, <1>3, <1>4, <1>5 DEF Placed, Answered, NoAgent
<1>7. Apart(t)
  <2>1. a \notin Own(t)
    BY <1>1, <1>5
  <2>2. \A c \in Invitee : s[c].me # NoAgent => s[c].me \notin Own(t)
    BY <1>1, <1>2, <1>5 DEF Apart
  <2> QED
    BY <1>2, <1>3, <2>1, <2>2 DEF Apart
<1>8. \A c \in Invitee : s[c].st = "Completed" => "send" \in D
  BY DEF Agreed, Answered
<1>9. Agreed(t, E)
  <2>1. \A c \in Invitee : t[c].peer # t[inviter].me
    BY <1>1, <1>2, <1>3
  <2> QED
    BY <1>2, <1>3, <1>8, <2>1 DEF Agreed
<1>10. ASSUME NEW b \in 1..n, NEW m \in Message, Right(b, m, s, n, D)
       PROVE  Right(b, m, t, n + 1, E)
  <2>1. b # n + 1 /\ (m.key \in 1..n => m.key # n + 1 /\ m.key \in 1..(n + 1))
    BY <1>1
  <2>2. Names(b, m, t, n + 1)
    BY <1>3, <1>5, <1>10, <2>1 DEF Right, Names
  <2>3. ASSUME Means(b, m, s), "send" \notin E PROVE Means(b, m, t)
    <3>1. m.type = "Response" => \A c \in Invitee : ~(t[c].st = "Requested" /\ t[c].me = b)
      BY <1>2, <2>3 DEF Means, Answered
    <3>2. b \in Own(t) => b \in Own(s)
      BY <1>5, <2>1
    <3>3. b \in Own(t) => m.type # "ProblemReport"
      BY <2>3, <3>2 DEF Means
    <3>4. b \in Own(t) => m.type \notin Talk
      BY <1>8, <2>3, <3>2 DEF Means
    <3> QED
      BY <3>1, <3>3, <3>4 DEF Means
  <2> QED
    BY <1>10, <2>2, <2>3 DEF Right
<1> QED
  BY <1>6, <1>7, <1>9, <1>10 DEF Moves

\* The inviter gives up: nobody was answered, or the one that was has given up,
\* or a send that was reported as failed has arrived.
LEMMA InviterGivesUp ==
    ASSUME NEW s, NEW n, NEW D, Placed(s, n), Apart(s), Agreed(s, D),
           NEW k \in 0..MaxAgents, n <= k, NEW E, D \subseteq E,
           \/ s[inviter].st = "Invited"
           \/ s[inviter].st = "Responded" /\ "send" \in E
           \/ s[inviter].st = "Responded" /\ GaveUp(s),
           NEW t, NEW x, Changes(s, inviter, x, t), x.st = "Null",
           x.me = s[inviter].me, x.inv = s[inviter].inv, x.peer = s[inviter].peer
    PROVE  Moves(s, n, D, t, k, E)
<1>1. n \in Nat /\ k \in Nat
  BY MachineIs, Parties, ConnectionAssumption
<1>2. \A c \in Invitee : t[c] = s[c] /\ s[c].me \in 0..n /\ s[c].inv \in 0..n /\ s[c].peer \in 0..n
  BY MachineIs, Parties DEF Changes
<1>3. t[inviter] = x /\ t \in [Party -> Machine]
  BY DEF Changes
<1>4. s[inviter].me \in 0..n /\ s[inviter].inv \in 0..n /\ s[inviter].peer \in 0..n
  BY MachineIs, Parties
<1>5. \A p \in Party : t[p].me <= k /\ t[p].inv <= k /\ t[p].peer <= k
  BY <1>1, <1>2, <1>3, <1>4 DEF Party
<1>6. Own(t) = Own(s) /\ \A c \in Invitee : Paired(t, c) <=> Paired(s, c)
  BY <1>2, <1>3 DEF Own, Paired
<1>7. Placed(t, k)
  BY <1>1, <1>2, <1>3, <1>5, <1>6 DEF Placed, Answered
<1>8. Apart(t)
  BY <1>2, <1>3, <1>6 DEF Apart
<1>9. ASSUME NEW c \in Invitee, s[c].st \in {"Requested", "Completed"},
             Answered(s), s[inviter].peer = s[c].me
      PROVE  "send" \in E
  <2>1. CASE "send" \in E
    BY <2>1
  <2>2. CASE GaveUp(s)
    BY <1>9, <2>2 DEF GaveUp
  <2> QED
    BY <1>9, <2>1, <2>2 DEF Answered
<1>10. ASSUME NEW c \in Invitee, s[c].st = "Completed" PROVE "send" \in E
  BY <1>9, <1>10 DEF Agreed, Paired
<1>11. Agreed(t, E)
  BY <1>2, <1>3, <1>6, <1>10 DEF Agreed, Paired
<1>12. ASSUME NEW b \in 1..n, NEW m \in Message, Right(b, m, s, n, D)
       PROVE  Right(b, m, t, k, E)
  <2>1. 1..n \subseteq 1..k
    BY <1>1
  <2>2. Names(b, m, t, k)
    BY <1>3, <1>6, <1>12, <2>1 DEF Right, Names
  <2>3. ASSUME Means(b, m, s), "send" \notin E PROVE Means(b, m, t)
    <3>1. m.type = "Response" => \A c \in Invitee : ~(t[c].st = "Requested" /\ t[c].me = b)
      BY <1>2, <1>9, <2>3 DEF Means
    <3>2. m.type = "ProblemReport" /\ b \in Own(t) =>
            /\ t[inviter].st # "Invited"
            /\ GaveUp(t)
      BY <1>2, <1>3, <1>6, <2>3 DEF Means, GaveUp
    <3>3. m.type \in Talk /\ b \in Own(t) =>
            \E c \in Invitee : t[c].st = "Completed" /\ Paired(t, c)
      BY <1>2, <1>6, <2>3 DEF Means
    <3> QED
      BY <3>1, <3>2, <3>3 DEF Means
  <2> QED
    BY <1>12, <2>2, <2>3 DEF Right
<1> QED
  BY <1>7, <1>8, <1>11, <1>12 DEF Moves

\* An invitee gives up, or completes with the agent that the response names.
LEMMA InviteeEnds ==
    ASSUME NEW s, NEW n, NEW D, Placed(s, n), Apart(s), Agreed(s, D), NEW E, D \subseteq E,
           NEW c \in Invitee, s[c].st \in {"Requested", "Invited"}, s[c].me # NoAgent,
           NEW t, NEW x, Changes(s, c, x, t), x.me = s[c].me, x.inv = s[c].inv,
           NEW m, Right(s[c].me, m, s, n, D),
           \/ x.st = "Null" /\ x.peer = s[c].peer
           \/ /\ x.st = "Completed" /\ x.peer = m.key /\ m.type = "Response"
              /\ s[c].st = "Requested"
    PROVE  Moves(s, n, D, t, n, E)
<1>1. n \in Nat /\ n \in 0..MaxAgents
  BY MachineIs, Parties DEF Placed
<1>2. \A d \in Invitee : s[d].me \in 0..n /\ s[d].inv \in 0..n /\ s[d].peer \in 0..n
  BY MachineIs, Parties
<1>3. t[c] = x /\ t \in [Party -> Machine] /\ c # inviter
      /\ t[inviter] = s[inviter] /\ \A d \in Invitee : d # c => t[d] = s[d]
  BY Parties DEF Changes
<1>4. s[inviter].me \in 0..n /\ s[inviter].inv \in 0..n /\ s[inviter].peer \in 0..n
  BY MachineIs, Parties
<1>5. x.st = "Completed" =>
        /\ x.peer \in 1..n
        /\ x.peer = s[inviter].me => s[inviter].peer = s[c].me
        /\ "send" \notin D => Answered(s) /\ s[inviter].me = x.peer /\ s[inviter].peer = s[c].me
  BY DEF Right, Names, Means
<1>6. \A p \in Party : t[p].me <= n /\ t[p].inv <= n /\ t[p].peer <= n
  BY <1>1, <1>2, <1>3, <1>4, <1>5 DEF Party
<1>7. Own(t) = Own(s) /\ (Answered(t) <=> Answered(s))
  BY <1>3 DEF Own, Answered
<1>8. Placed(t, n)
  <2>1. s[c].me # NoAgent /\ s[c].inv # NoAgent
    BY DEF Placed
  <2> QED
    BY <1>1, <1>3, <1>5, <1>6, <1>7, <2>1 DEF Placed, NoAgent
<1>9. Apart(t)
  BY <1>3, <1>7 DEF Apart
<1>10. \A d \in Invitee : d # c => (Paired(t, d) <=> Paired(s, d))
  BY <1>3 DEF Paired
<1>11. Agreed(t, E)
  <2>1. ASSUME NEW d \in Invitee, t[d].st = "Completed"
        PROVE  /\ t[d].peer = t[inviter].me => Paired(t, d)
               /\ "send" \notin E => Paired(t, d) /\ Answered(t)
    <3>1. CASE d = c
      BY <1>3, <1>5, <1>7, <2>1, <3>1 DEF Paired
    <3>2. CASE d # c
      BY <1>3, <1>7, <1>10, <2>1, <3>2 DEF Agreed
    <3> QED
      BY <3>1, <3>2
  <2>2. t[inviter].st = "Completed" /\ "send" \notin E
          => \E d \in Invitee : t[d].st = "Completed" /\ Paired(t, d)
    BY <1>3, <1>10 DEF Agreed
  <2> QED
    BY <2>1, <2>2 DEF Agreed
<1>12. ASSUME NEW b \in 1..n, NEW k \in Message, Right(b, k, s, n, D)
       PROVE  Right(b, k, t, n, E)
  <2>1. Names(b, k, t, n)
    BY <1>3, <1>7, <1>12 DEF Right, Names
  <2>2. ASSUME Means(b, k, s) PROVE Means(b, k, t)
    <3>1. k.type = "Response" =>
            \A d \in Invitee : t[d].st = "Requested" /\ t[d].me = b =>
                Answered(t) /\ t[inviter].me = k.key /\ t[inviter].peer = b
      BY <1>3, <1>7, <2>2 DEF Means
    <3>2. \A d \in Invitee : s[d].st = "Completed" => d # c /\ t[d] = s[d]
      BY <1>3
    <3>3. k.type = "ProblemReport" /\ b \in Own(t) =>
            /\ t[inviter].st # "Invited"
            /\ GaveUp(t)
      BY <1>3, <1>7, <2>2 DEF Means, GaveUp
    <3>4. k.type \in Talk /\ b \in Own(t) =>
            \E d \in Invitee : t[d].st = "Completed" /\ Paired(t, d)
      BY <1>7, <1>10, <2>2, <3>2 DEF Means
    <3> QED
      BY <3>1, <3>3, <3>4 DEF Means
  <2> QED
    BY <1>12, <2>1, <2>2 DEF Right
<1> QED
  BY <1>8, <1>9, <1>11, <1>12 DEF Moves

\* The inviter completes once an invitee it is paired with has.
LEMMA InviterCompletes ==
    ASSUME NEW s, NEW n, NEW D, Placed(s, n), Apart(s), Agreed(s, D), NEW E, D \subseteq E,
           Answered(s), NEW t, NEW x, Changes(s, inviter, x, t), x.st = "Completed",
           x.me = s[inviter].me, x.inv = s[inviter].inv, x.peer = s[inviter].peer,
           "send" \notin E => \E c \in Invitee : s[c].st = "Completed" /\ Paired(s, c)
    PROVE  Moves(s, n, D, t, n, E)
<1>1. n \in Nat /\ n \in 0..MaxAgents
  BY MachineIs, Parties DEF Placed
<1>2. \A c \in Invitee : t[c] = s[c] /\ s[c].me \in 0..n /\ s[c].inv \in 0..n /\ s[c].peer \in 0..n
  BY MachineIs, Parties DEF Changes
<1>3. t[inviter] = x /\ t \in [Party -> Machine]
  BY DEF Changes
<1>4. s[inviter].me \in 0..n /\ s[inviter].inv \in 0..n /\ s[inviter].peer \in 0..n
  BY MachineIs, Parties
<1>5. \A p \in Party : t[p].me <= n /\ t[p].inv <= n /\ t[p].peer <= n
  BY <1>1, <1>2, <1>3, <1>4 DEF Party
<1>6. Own(t) = Own(s) /\ Answered(t) /\ \A c \in Invitee : Paired(t, c) <=> Paired(s, c)
  BY <1>2, <1>3 DEF Own, Paired, Answered
<1>7. Placed(t, n)
  BY <1>1, <1>2, <1>3, <1>5, <1>6 DEF Placed, Answered
<1>8. Apart(t)
  BY <1>2, <1>3, <1>6 DEF Apart
<1>9. Agreed(t, E)
  BY <1>2, <1>3, <1>6 DEF Agreed
<1>10. ASSUME NEW b \in 1..n, NEW m \in Message, Right(b, m, s, n, D)
       PROVE  Right(b, m, t, n, E)
  <2>1. Names(b, m, t, n)
    BY <1>3, <1>6, <1>10 DEF Right, Names
  <2>2. Means(b, m, s) => Means(b, m, t)
    BY <1>2, <1>3, <1>6 DEF Means, GaveUp
  <2> QED
    BY <1>10, <2>1, <2>2 DEF Right
<1> QED
  BY <1>7, <1>8, <1>9, <1>10 DEF Moves

----------------------------------------------------------------------------
(* The steps *)

\* Account forgets no doubt and notes each new one.
LEMMA Noted ==
    ASSUME NEW outs, Account(outs)
    PROVE  doubts \subseteq doubts' /\ \A o \in outs : o[2] = "doubt" => o[1] \in doubts'
BY DEF Account, Fine

\* The messages of the protocol.
LEMMA MsgTyped ==
    ASSUME NEW type \in Type, NEW a \in Nat
    PROVE  /\ Msg(type) \in Message /\ Msg(type).type = type
           /\ Keyed(type, a) \in Message /\ Keyed(type, a).type = type /\ Keyed(type, a).key = a
<1>1. Msg(type) \in Message /\ Msg(type).type = type
  BY DEF Msg, Message, NoAgent
<1>2. Keyed(type, a) \in Message /\ Keyed(type, a).type = type /\ Keyed(type, a).key = a
  BY <1>1 DEF Keyed, Message
<1> QED
  BY <1>1, <1>2

\* What the invariant says, part by part.
LEMMA Parts ==
    ASSUME IInv
    PROVE  /\ Placed(sm, agents) /\ Apart(sm) /\ Agreed(sm, doubts) /\ boxes \in Mailboxes
           /\ Good(sm, boxes, agents, doubts)
           /\ agents \in Nat /\ agents <= MaxAgents /\ MaxAgents \in Nat
           /\ sm \in [Party -> Machine]
           /\ \A b \in Agent : \A i \in 1..Len(boxes[b]) :
                 b \in 1..agents /\ Right(b, boxes[b][i], sm, agents, doubts)
<1>1. Placed(sm, agents) /\ Good(sm, boxes, agents, doubts) /\ MailRight(sm, boxes, agents, doubts)
  BY DEF IInv, Good
<1>2. agents \in Nat /\ agents <= MaxAgents /\ MaxAgents \in Nat /\ sm \in [Party -> Machine]
  BY <1>1, ConnectionAssumption DEF Placed
<1>3. \A b \in Agent : \A i \in 1..Len(boxes[b]) :
         b \in 1..agents /\ Right(b, boxes[b][i], sm, agents, doubts)
  BY <1>1, <1>2 DEF MailRight, Agent
<1> QED
  BY <1>1, <1>2, <1>3 DEF Good, MailRight

\* A message that goes to the peer of a party that is connected is right: the
\* inviter's peer is an invitee, and an invitee's is paired with it.
LEMMA TalkRight ==
    ASSUME NEW t, NEW k, NEW E, Placed(t, k), Apart(t), Agreed(t, E), NEW p \in Party,
           t[p].st \in {"Responded", "Completed"}, NEW m, m.type \in Talk
    PROVE  t[p].peer \in 1..k /\ Right(t[p].peer, m, t, k, E)
<1>1. t[p].peer \in 0..k /\ k \in Nat
  BY MachineIs
<1>2. t[p].peer # NoAgent
  BY DEF Placed, Answered, Party
<1>3. Names(t[p].peer, m, t, k)
  BY DEF Names, Talk
<1>4. "send" \in E \/ Means(t[p].peer, m, t)
  <2>1. CASE p = inviter
    BY <1>2, <2>1 DEF Means, Apart, Talk
  <2>2. CASE p \in Invitee
    <3>1. t[p].st = "Completed"
      BY <2>2 DEF Placed
    <3> QED
      BY <2>2, <3>1 DEF Agreed, Means, Talk
  <2> QED
    BY <2>1, <2>2 DEF Party
<1> QED
  BY <1>1, <1>2, <1>3, <1>4 DEF Right, NoAgent

\* The inviter's first step, and again after it gave up.
LEMMA InviterConnectStep == IInv /\ InviterConnect => IInv'
<1> SUFFICES ASSUME IInv, InviterConnect PROVE IInv'
  OBVIOUS
<1>1. /\ sm[inviter].st = "Null" /\ agents + 1 <= MaxAgents /\ agents' = agents + 1
      /\ boxes' = boxes /\ doubts' = doubts /\ agents <= agents + 1
  BY Parts DEF InviterConnect
<1>2. PICK y : y = Made("Invited")
  OBVIOUS
<1> DEFINE x == [y EXCEPT !.me = agents + 1, !.inv = agents + 1]
<1>3. x \in Machine /\ x.st = "Invited" /\ x.me = agents + 1 /\ x.inv = agents + 1 /\ x.peer = NoAgent
  <2>1. y \in Machine /\ y.st = "Invited" /\ y.peer = NoAgent
    BY <1>2 DEF Made, Machine, NoAgent
  <2>2. agents + 1 \in Nat
    BY Parts
  <2> QED
    BY <2>1, <2>2 DEF Machine
<1>4. sm' = [sm EXCEPT ![inviter] = x]
  BY <1>1, <1>2 DEF InviterConnect
<1> HIDE DEF x
<1>5. Changes(sm, inviter, x, sm')
  BY <1>3, <1>4, OneChanges, Parts, Parties
<1>6. Moves(sm, agents, doubts, sm', agents + 1, doubts)
  BY <1>1, <1>3, <1>5, InviterStarts, Parts
<1>7. Delivers(boxes, boxes, {})
  BY NothingDelivered, Parts
<1>8. Good(sm', boxes, agents + 1, doubts)
  BY <1>1, <1>6, <1>7, MoveStep, Parts
<1> QED
  BY <1>1, <1>8 DEF IInv

\* An invitee is made from the invitation.
LEMMA CreateWithInviteStep ==
    ASSUME IInv, NEW c \in Invitee, CreateWithInvite(c)
    PROVE  IInv'
<1>1. /\ sm[c].st = "Absent" /\ sm[inviter].st = "Invited"
      /\ boxes' = boxes /\ doubts' = doubts /\ agents' = agents
  BY DEF CreateWithInvite
<1>2. PICK y : y = Made("Invited")
  OBVIOUS
<1> DEFINE x == [y EXCEPT !.inv = sm[inviter].me]
<1>3. sm[inviter].me \in 0..agents /\ sm[inviter].me # NoAgent
  BY <1>1, MachineIs, Parts, Parties DEF Placed, Own
<1>4. x \in Machine /\ x.st = "Invited" /\ x.me = NoAgent /\ x.inv \in 1..agents /\ x.peer = NoAgent
  <2>1. y \in Machine /\ y.st = "Invited" /\ y.me = NoAgent /\ y.peer = NoAgent
    BY <1>2 DEF Made, Machine, NoAgent
  <2>2. sm[inviter].me \in 1..agents /\ sm[inviter].me \in Nat
    BY <1>3, Parts DEF NoAgent
  <2> QED
    BY <2>1, <2>2 DEF Machine
<1>5. sm' = [sm EXCEPT ![c] = x]
  BY <1>2 DEF CreateWithInvite
<1> HIDE DEF x
<1>6. Changes(sm, c, x, sm')
  BY <1>4, <1>5, OneChanges, Parts, Parties
<1>7. agents \in 0..MaxAgents /\ agents <= agents
  BY Parts
<1>8. Moves(sm, agents, doubts, sm', agents, doubts)
  BY <1>1, <1>4, <1>6, <1>7, InviteeStarts, Parts
<1>9. Delivers(boxes, boxes, {})
  BY NothingDelivered, Parts
<1>10. Good(sm', boxes, agents, doubts)
  BY <1>7, <1>8, <1>9, MoveStep, Parts
<1> QED
  BY <1>1, <1>10 DEF IInv

\* An invitee that gave up gets an invitation.
LEMMA InvitationReceivedStep ==
    ASSUME IInv, NEW c \in Invitee, InvitationReceived(c)
    PROVE  IInv'
<1>1. /\ sm[c].st = "Null"
      /\ boxes' = boxes /\ doubts' = doubts /\ agents' = agents
  BY DEF InvitationReceived
<1>2. PICK a \in {sm[c].inv, sm[inviter].inv} \ {NoAgent} :
          sm' = [sm EXCEPT ![c].st = "Invited", ![c].inv = a]
  BY DEF InvitationReceived
<1>3. a \in 1..agents /\ a \in Nat
  <2>1. sm[c].inv \in 0..agents /\ sm[inviter].inv \in 0..agents
    BY MachineIs, Parts, Parties
  <2> QED
    BY <1>2, <2>1, Parts DEF NoAgent
<1>4. PICK x : x = [sm[c] EXCEPT !.st = "Invited", !.inv = a]
  OBVIOUS
<1>5. sm[c] \in Machine
  BY MachineIs, Parts, Parties
<1>6. x \in Machine /\ x.st = "Invited" /\ x.me = sm[c].me /\ x.inv = a /\ x.peer = sm[c].peer
  BY <1>3, <1>4, <1>5 DEF Machine
<1>7. sm' = [sm EXCEPT ![c] = x]
  BY <1>2, <1>4, Parts, Parties
<1>8. Changes(sm, c, x, sm')
  BY <1>6, <1>7, OneChanges, Parts, Parties
<1>9. agents \in 0..MaxAgents /\ agents <= agents
  BY Parts
<1>10. Moves(sm, agents, doubts, sm', agents, doubts)
  BY <1>1, <1>3, <1>6, <1>8, <1>9, InviteeStarts, Parts
<1>11. Delivers(boxes, boxes, {})
  BY NothingDelivered, Parts
<1>12. Good(sm', boxes, agents, doubts)
  BY <1>9, <1>10, <1>11, MoveStep, Parts
<1> QED
  BY <1>1, <1>12 DEF IInv

\* An invitee asks, whatever becomes of its request.
LEMMA InviteeConnectStep ==
    ASSUME IInv, NEW c \in Invitee, InviteeConnect(c)
    PROVE  IInv'
<1>1. sm[c].st = "Invited" /\ agents + 1 \in 0..MaxAgents /\ agents' = agents + 1
      /\ agents <= agents + 1 /\ agents + 1 \in Nat
  BY Parts DEF InviteeConnect
<1>2. PICK m : m = Keyed("Request", agents + 1)
  OBVIOUS
<1>3. PICK out \in Outcome :
        /\ boxes' = Put(boxes, sm[c].inv, m, out)
        /\ sm' = IF out = "ok" THEN [sm EXCEPT ![c].st = "Requested", ![c].me = agents + 1]
                               ELSE sm
        /\ Account({<<"request", out>>})
  BY <1>1, <1>2 DEF InviteeConnect
<1>4. doubts \subseteq doubts'
  BY <1>3, Noted
<1>5. sm[c].inv \in 1..agents /\ sm[c].inv \in Agent
  <2>1. sm[c].inv \in 0..agents /\ sm[c].inv # NoAgent
    BY <1>1, MachineIs, Parts, Parties DEF Placed
  <2> QED
    BY <2>1, Parts DEF NoAgent, Agent
<1>6. m \in Message /\ m.type = "Request" /\ m.key = agents + 1
  BY <1>1, <1>2, MsgTyped DEF Type
<1>7. Delivers(boxes, boxes', {} \cup {<<sm[c].inv, m>>})
  BY <1>3, <1>5, <1>6, NothingDelivered, PutDelivers, Parts
<1>8. Moves(sm, agents, doubts, sm', agents + 1, doubts')
  <2>1. CASE out = "ok"
    <3>1. PICK x : x = [sm[c] EXCEPT !.st = "Requested", !.me = agents + 1]
      OBVIOUS
    <3>2. sm[c] \in Machine
      BY MachineIs, Parts, Parties
    <3>3. x \in Machine /\ x.st = "Requested" /\ x.me = agents + 1 /\ x.inv = sm[c].inv
          /\ x.peer = sm[c].peer
      BY <1>1, <3>1, <3>2 DEF Machine
    <3>4. sm' = [sm EXCEPT ![c] = x]
      BY <1>3, <2>1, <3>1, Parts, Parties
    <3>5. Changes(sm, c, x, sm')
      BY <3>3, <3>4, OneChanges, Parts, Parties
    <3> QED
      BY <1>1, <1>4, <1>5, <3>3, <3>5, InviteeStarts, Parts
  <2>2. CASE out # "ok"
    <3>1. sm' = sm
      BY <1>3, <2>2
    <3> QED
      BY <1>1, <1>4, <3>1, KeysStay, Parts
  <2> QED
    BY <2>1, <2>2
<1>9. Right(sm[c].inv, m, sm', agents + 1, doubts')
  <2>1. sm'[inviter] = sm[inviter]
    BY <1>3, Parts, Parties
  <2>2. sm[inviter].me \in 0..agents /\ sm[inviter].inv \in 0..agents
    BY MachineIs, Parts, Parties
  <2>3. agents + 1 \notin Own(sm')
    BY <2>1, <2>2, Parts DEF Own
  <2>4. agents + 1 \in 1..(agents + 1)
    BY Parts
  <2>5. Names(sm[c].inv, m, sm', agents + 1)
    BY <1>6, <2>3, <2>4 DEF Names
  <2>6. Means(sm[c].inv, m, sm')
    BY <1>6 DEF Means, Talk
  <2> QED
    BY <2>5, <2>6 DEF Right
<1>10. sm[c].inv <= agents + 1
  BY <1>5, Parts
<1>11. Good(sm', boxes', agents + 1, doubts')
  BY <1>1, <1>7, <1>8, <1>9, <1>10, MoveStep, Parts
<1> QED
  BY <1>1, <1>11 DEF IInv

----------------------------------------------------------------------------
(* Handling message i of mailbox b *)

\* Party p reads mailbox b, its own: the inviter has that of the invitation too.
Handling(p, b, i) ==
    /\ p \in Party /\ b \in Agent /\ i \in 1..Len(boxes[b])
    /\ p = inviter => b \in Own(sm)
    /\ p # inviter => b = sm[p].me

\* The message is one that was sent, and right.
LEMMA HandledRight ==
    ASSUME IInv, NEW p, NEW b, NEW i, Handling(p, b, i)
    PROVE  /\ boxes[b][i] \in Message /\ Right(b, boxes[b][i], sm, agents, doubts)
           /\ b \in 1..agents /\ b \in Agent /\ i \in 1..Len(boxes[b]) /\ p \in Party
<1>1. p \in Party /\ b \in Agent /\ i \in 1..Len(boxes[b])
  BY DEF Handling
<1>2. boxes[b] \in Seq(Message)
  BY <1>1, Parts DEF Mailboxes
<1> QED
  BY <1>1, <1>2, Parts

\* The machine of p that only gets to state st.
Gets(s, p, st, t) ==
    \E x : /\ Changes(s, p, x, t) /\ x.st = st
           /\ x.me = s[p].me /\ x.inv = s[p].inv /\ x.peer = s[p].peer

\* An assignment of the state alone.
LEMMA BecomesGets ==
    ASSUME IInv, NEW p \in Party, NEW st \in {"Null", "Completed"}, Becomes(p, st)
    PROVE  Gets(sm, p, st, sm')
<1>1. PICK x : x = [sm[p] EXCEPT !.st = st]
  OBVIOUS
<1>2. sm[p] \in Machine
  BY MachineIs, Parts
<1>3. x \in Machine /\ x.st = st /\ x.me = sm[p].me /\ x.inv = sm[p].inv /\ x.peer = sm[p].peer
  BY <1>1, <1>2 DEF Machine
<1>4. sm' = [sm EXCEPT ![p] = x]
  BY <1>1, Parts DEF Becomes
<1>5. Changes(sm, p, x, sm')
  BY <1>3, <1>4, OneChanges, Parts
<1> QED
  BY <1>3, <1>5 DEF Gets

\* A problem report is right anywhere but at the inviter, and there if a send
\* that was reported as failed has arrived.
LEMMA ReportRight ==
    ASSUME NEW b, NEW m, m.type = "ProblemReport", NEW t, NEW n, NEW E,
           b \notin Own(t) \/ "send" \in E
    PROVE  Right(b, m, t, n, E)
BY DEF Right, Names, Means, Talk

\* A message that is lost.
LEMMA PutLost ==
    ASSUME NEW bs, NEW cs, NEW P, Delivers(bs, cs, P), NEW a \in Agent, NEW m
    PROVE  Put(cs, a, m, "lost") = cs
<1>1. cs \in Mailboxes
  BY DEF Delivers
<1> QED
  BY <1>1 DEF Put, Post, Mailboxes

\* The inviter answers a request, or fails to.
LEMMA ExchangeRequestStep ==
    ASSUME IInv, NEW b, NEW i, Handling(inviter, b, i), NEW mark, ExchangeRequest(b, i, mark)
    PROVE  IInv'
<1>1. PICK k : k = boxes[b][i].key
  OBVIOUS
<1>2. sm[inviter].st = "Invited" /\ boxes[b][i].type = "Request"
  BY DEF ExchangeRequest
<1>3. k \in 1..agents /\ k \in Agent /\ k \notin Own(sm)
  <2>1. k \in 1..agents /\ k \notin Own(sm)
    BY <1>1, <1>2, HandledRight DEF Right, Names
  <2> QED
    BY <2>1, Parts DEF Agent
<1>4. PICK cs : cs = Reviewed(b, i, mark)
  OBVIOUS
<1>5. Delivers(boxes, cs, {})
  BY <1>4, ReviewedDelivers, HandledRight, Parts
<1>6. sm[inviter] \in Machine /\ sm[inviter].me \in 0..agents
  BY MachineIs, Parts, Parties
<1>7. ASSUME agents < MaxAgents, agents' = agents + 1, NEW ask \in BOOLEAN,
             boxes' = Put(cs, k, [Keyed("Response", agents + 1) EXCEPT !.ask = ask], "ok"),
             sm' = [sm EXCEPT ![inviter].st = "Responded", ![inviter].me = agents + 1,
                              ![inviter].peer = k],
             Account({<<"mark", mark>>})
      PROVE  IInv'
  <2>1. PICK y : y = Keyed("Response", agents + 1)
    OBVIOUS
  <2>2. y \in Message /\ y.type = "Response" /\ y.key = agents + 1
    BY <2>1, MsgTyped, Parts DEF Type
  <2>3. PICK m : m = [y EXCEPT !.ask = ask]
    OBVIOUS
  <2>4. m \in Message /\ m.type = "Response" /\ m.key = agents + 1
    BY <2>2, <2>3 DEF Message
  <2>5. boxes' = Put(cs, k, m, "ok")
    BY <1>7, <2>1, <2>3
  <2>6. Delivers(boxes, boxes', {} \cup {<<k, m>>})
    BY <1>3, <1>5, <2>4, <2>5, PutDelivers
  <2>7. PICK x : x = [sm[inviter] EXCEPT !.st = "Responded", !.me = agents + 1, !.peer = k]
    OBVIOUS
  <2>8. x \in Machine /\ x.st = "Responded" /\ x.me = agents + 1 /\ x.peer = k
        /\ x.inv = sm[inviter].inv
    <3>1. agents + 1 \in Nat /\ k \in Nat
      BY <1>3, Parts
    <3> QED
      BY <1>6, <2>7, <3>1 DEF Machine
  <2>9. sm' = [sm EXCEPT ![inviter] = x]
    BY <1>7, <2>7, Parts, Parties
  <2>10. Changes(sm, inviter, x, sm')
    BY <2>8, <2>9, OneChanges, Parts, Parties
  <2>11. doubts \subseteq doubts' /\ agents + 1 <= MaxAgents /\ agents <= agents + 1
    BY <1>7, Noted, Parts
  <2>12. Moves(sm, agents, doubts, sm', agents + 1, doubts')
    BY <1>2, <1>3, <2>8, <2>10, <2>11, InviterAnswers, Parts
  <2>13. sm'[inviter].st = "Responded" /\ sm'[inviter].me = agents + 1 /\ sm'[inviter].peer = k
    BY <2>8, <2>10 DEF Changes
  <2>14. Names(k, m, sm', agents + 1)
    BY <2>4, <2>13, Parts DEF Names
  <2>15. Means(k, m, sm')
    BY <2>4, <2>13 DEF Means, Answered, Talk
  <2>16. Right(k, m, sm', agents + 1, doubts') /\ k <= agents + 1
    BY <1>3, <2>14, <2>15, Parts DEF Right
  <2>17. Good(sm', boxes', agents + 1, doubts')
    BY <2>6, <2>11, <2>12, <2>16, MoveStep, Parts
  <2> QED
    BY <1>7, <2>17 DEF IInv
<1>8. ASSUME NEW out \in {"lost", "doubt"}, NEW report \in Outcome,
             agents' = IF out = "doubt" THEN agents + 1 ELSE agents, agents' <= MaxAgents,
             NEW ask \in BOOLEAN,
             boxes' = Put(Put(cs, k, [Keyed("Response", agents') EXCEPT !.ask = ask], out),
                          k, Msg("ProblemReport"), report),
             Becomes(inviter, "Null"),
             Account({<<"send", out>>, <<"report", report>>, <<"mark", mark>>})
      PROVE  IInv'
  <2>1. PICK n : n = agents'
    OBVIOUS
  <2>2. n \in 0..MaxAgents /\ agents <= n /\ n \in Nat
    BY <1>8, <2>1, Parts
  <2>3. PICK x : /\ Changes(sm, inviter, x, sm') /\ x.st = "Null" /\ x.me = sm[inviter].me
                 /\ x.inv = sm[inviter].inv /\ x.peer = sm[inviter].peer
    BY <1>8, BecomesGets, Parties DEF Gets
  <2>4. doubts \subseteq doubts' /\ (out = "doubt" => "send" \in doubts')
    <3>1. <<"send", out>> \in {<<"send", out>>, <<"report", report>>, <<"mark", mark>>}
          /\ <<"send", out>>[1] = "send" /\ <<"send", out>>[2] = out
      OBVIOUS
    <3> QED
      BY <1>8, <3>1, Noted
  <2>5. Moves(sm, agents, doubts, sm', n, doubts')
    BY <1>2, <2>2, <2>3, <2>4, InviterGivesUp, Parts
  <2>6. sm'[inviter].me = sm[inviter].me /\ Own(sm') = Own(sm)
    BY <2>3 DEF Changes, Own
  <2>15. PICK y : y = Keyed("Response", n)
    OBVIOUS
  <2>16. y \in Message /\ y.type = "Response" /\ y.key = n
    BY <2>2, <2>15, MsgTyped DEF Type
  <2>7. PICK m : m = [y EXCEPT !.ask = ask]
    OBVIOUS
  <2>8. m \in Message /\ m.type = "Response" /\ m.key = n
    BY <2>7, <2>16 DEF Message
  <2>9. PICK r : r = Msg("ProblemReport")
    OBVIOUS
  <2>10. r \in Message /\ r.type = "ProblemReport"
    BY <2>9, MsgTyped DEF Type
  <2>11. Right(k, r, sm', n, doubts') /\ k <= n
    BY <1>3, <2>2, <2>6, <2>10, ReportRight, Parts
  <2>12. boxes' = Put(Put(cs, k, m, out), k, r, report)
    BY <1>8, <2>1, <2>7, <2>9, <2>15
  <2>13. CASE out = "lost"
    <3>1. boxes' = Put(cs, k, r, report)
      BY <1>3, <1>5, <2>12, <2>13, PutLost
    <3>2. Delivers(boxes, boxes', {} \cup {<<k, r>>})
      BY <1>3, <1>5, <2>10, <3>1, PutDelivers
    <3>3. Good(sm', boxes', n, doubts')
      BY <2>2, <2>5, <2>11, <3>2, MoveStep, Parts
    <3> QED
      BY <2>1, <3>3 DEF IInv
  <2>14. CASE out = "doubt"
    <3>1. n = agents + 1 /\ n # sm'[inviter].me
      BY <1>6, <1>8, <2>1, <2>6, <2>14, Parts
    <3>2. Names(k, m, sm', n)
      BY <2>2, <2>8, <3>1, Parts DEF Names
    <3>3. Right(k, m, sm', n, doubts')
      BY <2>4, <2>14, <3>2 DEF Right
    <3>4. Delivers(boxes, Put(cs, k, m, out), {} \cup {<<k, m>>})
      BY <1>3, <1>5, <2>8, PutDelivers
    <3>5. Delivers(boxes, boxes', ({} \cup {<<k, m>>}) \cup {<<k, r>>})
      BY <1>3, <2>10, <2>12, <3>4, PutDelivers
    <3>6. Good(sm', boxes', n, doubts')
      BY <2>2, <2>5, <2>11, <3>3, <3>5, MoveStep, Parts
    <3> QED
      BY <2>1, <3>6 DEF IInv
  <2> QED
    BY <1>8, <2>13, <2>14
<1> QED
  BY <1>1, <1>4, <1>7, <1>8 DEF ExchangeRequest

\* An invitee acknowledges the response, or fails to.
LEMMA ExchangeResponseStep ==
    ASSUME IInv, NEW c \in Invitee, NEW b, NEW i, Handling(c, b, i), NEW mark,
           ExchangeResponse(c, b, i, mark)
    PROVE  IInv'
<1>1. PICK m : m = boxes[b][i]
  OBVIOUS
<1>2. PICK answer : answer = Msg(IF m.ask THEN "Ack" ELSE "Ping")
  OBVIOUS
<1>3. sm[c].st = "Requested" /\ m.type = "Response" /\ agents' = agents
  BY <1>1 DEF ExchangeResponse
<1>4. m \in Message /\ Right(b, m, sm, agents, doubts) /\ b = sm[c].me /\ b \in Agent
      /\ sm[c].me # NoAgent
  <2>1. b \in Agent /\ b = sm[c].me
    BY HandledRight, Parties DEF Handling
  <2>2. b # NoAgent
    BY <2>1 DEF Agent, NoAgent
  <2> QED
    BY <1>1, <2>1, <2>2, HandledRight
<1>5. m.key \in 1..agents /\ m.key \in Agent /\ m.key \in Nat
  <2>1. m.key \in 1..agents
    BY <1>3, <1>4 DEF Right, Names
  <2> QED
    BY <2>1, Parts DEF Agent
<1>6. answer \in Message /\ answer.type \in Talk /\ answer.type \notin {"Request", "Response", "ProblemReport"}
  <2>1. CASE m.ask
    BY <1>2, <2>1, MsgTyped DEF Type, Talk
  <2>2. CASE ~m.ask
    BY <1>2, <2>2, MsgTyped DEF Type, Talk
  <2> QED
    BY <2>1, <2>2
<1>7. PICK cs : cs = Reviewed(b, i, mark)
  OBVIOUS
<1>8. Delivers(boxes, cs, {})
  BY <1>7, ReviewedDelivers, HandledRight, Parts
<1>9. sm[c] \in Machine /\ c \in Party /\ c # inviter /\ agents \in 0..MaxAgents /\ agents <= agents
  BY MachineIs, Parts, Parties
<1>10. ASSUME boxes' = Put(cs, m.key, answer, "ok"),
              sm' = [sm EXCEPT ![c].st = "Completed", ![c].peer = m.key],
              Account({<<"mark", mark>>})
       PROVE  IInv'
  <2>1. PICK x : x = [sm[c] EXCEPT !.st = "Completed", !.peer = m.key]
    OBVIOUS
  <2>2. x \in Machine /\ x.st = "Completed" /\ x.peer = m.key
        /\ x.me = sm[c].me /\ x.inv = sm[c].inv
    BY <1>5, <1>9, <2>1 DEF Machine
  <2>3. sm' = [sm EXCEPT ![c] = x]
    BY <1>9, <1>10, <2>1, Parts
  <2>4. Changes(sm, c, x, sm')
    BY <1>9, <2>2, <2>3, OneChanges, Parts
  <2>5. doubts \subseteq doubts'
    BY <1>10, Noted
  <2>6. Moves(sm, agents, doubts, sm', agents, doubts')
    BY <1>3, <1>4, <2>2, <2>4, <2>5, InviteeEnds, Parts
  <2>7. sm'[c].st = "Completed" /\ sm'[c].peer = m.key
    BY <2>2, <2>4 DEF Changes
  <2>8. Placed(sm', agents) /\ Apart(sm') /\ Agreed(sm', doubts')
    BY <2>6 DEF Moves
  <2>9. m.key \in 1..agents /\ Right(m.key, answer, sm', agents, doubts')
    BY <1>6, <1>9, <2>7, <2>8, TalkRight
  <2>10. Delivers(boxes, boxes', {} \cup {<<m.key, answer>>})
    BY <1>5, <1>6, <1>8, <1>10, PutDelivers
  <2>11. m.key <= agents
    BY <2>9, Parts
  <2>12. Good(sm', boxes', agents, doubts')
    BY <1>9, <2>6, <2>9, <2>10, <2>11, MoveStep, Parts
  <2> QED
    BY <1>3, <2>12 DEF IInv
<1>11. ASSUME NEW out \in {"lost", "doubt"}, NEW report \in Outcome,
              boxes' = Put(Put(cs, m.key, answer, out), sm[c].inv, Msg("ProblemReport"), report),
              Becomes(c, "Null"),
              Account({<<"send", out>>, <<"report", report>>, <<"mark", mark>>})
       PROVE  IInv'
  <2>1. PICK x : /\ Changes(sm, c, x, sm') /\ x.st = "Null" /\ x.me = sm[c].me
                 /\ x.inv = sm[c].inv /\ x.peer = sm[c].peer
    BY <1>9, <1>11, BecomesGets DEF Gets
  <2>2. doubts \subseteq doubts' /\ (out = "doubt" => "send" \in doubts')
    <3>1. <<"send", out>> \in {<<"send", out>>, <<"report", report>>, <<"mark", mark>>}
          /\ <<"send", out>>[1] = "send" /\ <<"send", out>>[2] = out
      OBVIOUS
    <3> QED
      BY <1>11, <3>1, Noted
  <2>3. Moves(sm, agents, doubts, sm', agents, doubts')
    BY <1>3, <1>4, <2>1, <2>2, InviteeEnds, Parts
  <2>4. sm'[inviter] = sm[inviter] /\ sm'[c].st = "Null" /\ sm'[c].me = sm[c].me
    BY <1>9, <2>1, Parties DEF Changes
  <2>5. sm[c].inv \in 1..agents /\ sm[c].inv \in Agent /\ sm[c].inv <= agents
    <3>1. sm[c].inv \in 0..agents /\ sm[c].inv # NoAgent
      BY <1>3, <1>9, MachineIs, Parts DEF Placed
    <3> QED
      BY <3>1, Parts DEF NoAgent, Agent
  <2>6. PICK r : r = Msg("ProblemReport")
    OBVIOUS
  <2>7. r \in Message /\ r.type = "ProblemReport"
    BY <2>6, MsgTyped DEF Type
  <2>8. Right(sm[c].inv, r, sm', agents, doubts')
    <3>1. CASE "send" \in doubts'
      BY <2>7, <3>1, ReportRight
    <3>2. CASE "send" \notin doubts'
      <4>1. Means(b, m, sm)
        BY <1>4, <2>2, <3>2 DEF Right
      <4>2. Answered(sm) /\ sm[inviter].peer = sm[c].me
        BY <1>3, <1>4, <4>1 DEF Means
      <4>3. sm'[inviter].st # "Invited"
        BY <2>4, <4>2 DEF Answered
      <4>6. GaveUp(sm')
        <5>1. sm[c].me # NoAgent
          BY <1>3, Parts DEF Placed
        <5>2. \A d \in Invitee : d # c => sm[d].me # sm[c].me /\ sm'[d] = sm[d]
          BY <2>1, <5>1, Parts, Parties DEF Apart, Changes
        <5> QED
          BY <2>4, <4>2, <5>2 DEF GaveUp
      <4>4. Means(sm[c].inv, r, sm')
        BY <2>7, <4>3, <4>6 DEF Means, Talk
      <4>5. Names(sm[c].inv, r, sm', agents)
        BY <2>7 DEF Names
      <4> QED
        BY <4>4, <4>5 DEF Right
    <3> QED
      BY <3>1, <3>2
  <2>9. boxes' = Put(Put(cs, m.key, answer, out), sm[c].inv, r, report)
    BY <1>11, <2>6
  <2>10. CASE out = "lost"
    <3>1. boxes' = Put(cs, sm[c].inv, r, report)
      BY <1>5, <1>8, <2>9, <2>10, PutLost
    <3>2. Delivers(boxes, boxes', {} \cup {<<sm[c].inv, r>>})
      BY <1>8, <2>5, <2>7, <3>1, PutDelivers
    <3>3. Good(sm', boxes', agents, doubts')
      BY <1>9, <2>3, <2>5, <2>8, <3>2, MoveStep, Parts
    <3> QED
      BY <1>3, <3>3 DEF IInv
  <2>11. CASE out = "doubt"
    <3>1. Right(m.key, answer, sm', agents, doubts') /\ m.key <= agents
      BY <1>5, <1>6, <2>2, <2>11, Parts DEF Right, Names
    <3>2. Delivers(boxes, Put(cs, m.key, answer, out), {} \cup {<<m.key, answer>>})
      BY <1>5, <1>6, <1>8, PutDelivers
    <3>3. Delivers(boxes, boxes', ({} \cup {<<m.key, answer>>}) \cup {<<sm[c].inv, r>>})
      BY <2>5, <2>7, <2>9, <3>2, PutDelivers
    <3>4. Good(sm', boxes', agents, doubts')
      BY <1>9, <2>3, <2>5, <2>8, <3>1, <3>3, MoveStep, Parts
    <3> QED
      BY <1>3, <3>4 DEF IInv
  <2> QED
    BY <1>11, <2>10, <2>11
<1> QED
  BY <1>1, <1>2, <1>7, <1>10, <1>11 DEF ExchangeResponse

\* A problem report makes a party give up.
LEMMA ProblemReportStep ==
    ASSUME IInv, NEW p, NEW b, NEW i, Handling(p, b, i), NEW mark, ProblemReport(p, b, i, mark)
    PROVE  IInv'
<1>1. PICK m : m = boxes[b][i]
  OBVIOUS
<1>2. /\ m.type = "ProblemReport" /\ agents' = agents /\ boxes' = Reviewed(b, i, mark)
      /\ sm[p].st \in IF p = inviter THEN {"Invited", "Responded"} ELSE {"Requested", "Invited"}
      /\ Becomes(p, "Null") /\ Account({<<"mark", mark>>})
  BY <1>1 DEF ProblemReport
<1>3. Right(b, m, sm, agents, doubts) /\ p \in Party
  BY <1>1, HandledRight
<1>4. Delivers(boxes, boxes', {})
  BY <1>2, ReviewedDelivers, HandledRight, Parts
<1>5. PICK x : /\ Changes(sm, p, x, sm') /\ x.st = "Null" /\ x.me = sm[p].me
               /\ x.inv = sm[p].inv /\ x.peer = sm[p].peer
  BY <1>2, <1>3, BecomesGets DEF Gets
<1>6. doubts \subseteq doubts' /\ agents \in 0..MaxAgents /\ agents <= agents
  BY <1>2, Noted, Parts
<1>7. Moves(sm, agents, doubts, sm', agents, doubts')
  <2>1. CASE p = inviter
    <3>1. b \in Own(sm)
      BY <2>1 DEF Handling
    <3>2. "send" \in doubts' \/ GaveUp(sm)
      BY <1>2, <1>3, <1>6, <3>1 DEF Right, Means
    <3>3. sm[inviter].st \in {"Invited", "Responded"}
      BY <1>2, <2>1
    <3> QED
      BY <1>5, <1>6, <2>1, <3>2, <3>3, InviterGivesUp, Parts
  <2>2. CASE p # inviter
    <3>1. p \in Invitee /\ b = sm[p].me /\ sm[p].st \in {"Requested", "Invited"} /\ b # NoAgent
      BY <1>2, <1>3, <2>2 DEF Handling, Party, Agent, NoAgent
    <3> QED
      BY <1>3, <1>5, <1>6, <3>1, InviteeEnds, Parts
  <2> QED
    BY <2>1, <2>2
<1>8. Good(sm', boxes', agents, doubts')
  BY <1>4, <1>6, <1>7, MoveStep, Parts
<1> QED
  BY <1>2, <1>8 DEF IInv

\* The invariant holds after a step that leaves every key and, but perhaps
\* for the states of machines, everything else where it was, once the machines
\* have moved and the messages that are new are right.
LEMMA Settled ==
    ASSUME IInv, doubts \subseteq doubts', agents' = agents, NEW P, Delivers(boxes, boxes', P),
           Moves(sm, agents, doubts, sm', agents, doubts'),
           \A b \in Agent, m \in Message :
              <<b, m>> \in P => b <= agents /\ Right(b, m, sm', agents, doubts')
    PROVE  IInv'
<1>1. agents <= agents
  BY Parts
<1>2. Good(sm', boxes', agents, doubts')
  BY <1>1, MoveStep, Parts
<1> QED
  BY <1>2 DEF IInv

\* Completing: an invitee already had; the inviter has a message of an invitee
\* that has, or the send of its response failed and arrived all the same.
LEMMA Completes ==
    ASSUME IInv, NEW p, NEW b, NEW i, Handling(p, b, i), boxes[b][i].type \in Talk,
           Connected(p), Becomes(p, "Completed"), doubts \subseteq doubts'
    PROVE  /\ Moves(sm, agents, doubts, sm', agents, doubts')
           /\ sm'[p].st = "Completed" /\ sm'[p].peer = sm[p].peer
<1>1. p \in Party /\ Right(b, boxes[b][i], sm, agents, doubts)
  BY HandledRight
<1>2. PICK x : /\ Changes(sm, p, x, sm') /\ x.st = "Completed" /\ x.me = sm[p].me
               /\ x.inv = sm[p].inv /\ x.peer = sm[p].peer
  BY <1>1, BecomesGets DEF Gets
<1>3. agents \in 0..MaxAgents /\ agents <= agents
  BY Parts
<1>4. CASE p = inviter
  <2>1. b \in Own(sm) /\ Answered(sm)
    BY <1>4 DEF Handling, Answered, Connected
  <2>2. "send" \notin doubts' => \E c \in Invitee : sm[c].st = "Completed" /\ Paired(sm, c)
    BY <1>1, <2>1 DEF Right, Means
  <2> QED
    BY <1>2, <1>4, <2>1, <2>2, InviterCompletes, Parts DEF Changes
<1>5. CASE p # inviter
  <2>1. p \in Invitee /\ sm[p].st = "Completed"
    BY <1>1, <1>5, Parts DEF Party, Connected, Placed
  <2>2. \A q \in Party : /\ sm'[q].st = sm[q].st /\ sm'[q].me = sm[q].me
                         /\ sm'[q].inv = sm[q].inv /\ sm'[q].peer = sm[q].peer
    BY <1>2, <2>1 DEF Changes
  <2>3. sm' \in [Party -> Machine] /\ sm'[p] = x
    BY <1>2 DEF Changes
  <2> QED
    BY <1>2, <1>3, <2>2, <2>3, KeysStay, Parts
<1> QED
  BY <1>4, <1>5

\* An ack, or the answer to a ping.
LEMMA AcknowledgedStep ==
    ASSUME IInv, NEW p, NEW b, NEW i, Handling(p, b, i), NEW mark, Acknowledged(p, b, i, mark)
    PROVE  IInv'
<1>1. /\ boxes[b][i].type \in Talk /\ Connected(p) /\ Becomes(p, "Completed")
      /\ agents' = agents /\ boxes' = Reviewed(b, i, mark) /\ Account({<<"mark", mark>>})
  BY DEF Acknowledged, Talk
<1>2. doubts \subseteq doubts'
  BY <1>1, Noted
<1>3. Moves(sm, agents, doubts, sm', agents, doubts')
  BY <1>1, <1>2, Completes
<1>4. Delivers(boxes, boxes', {})
  BY <1>1, ReviewedDelivers, HandledRight, Parts
<1> QED
  BY <1>1, <1>2, <1>3, <1>4, Settled

\* What a ping or a query asks for, and of whom.
LEMMA AnswerTyped ==
    ASSUME NEW p, NEW m, Asks(p, m)
    PROVE  /\ m.type \in Talk /\ Connected(p)
           /\ Answers(m) # {} => LET a == CHOOSE k \in Answers(m) : TRUE
                                  IN  a \in Message /\ a.type \in Talk
<1>1. m.type \in Talk /\ Connected(p)
  BY DEF Asks, Connected, Talk
<1>2. \A a \in Answers(m) : a \in {Msg("PingResponse"), Msg("Disclose")}
  <2>1. CASE m.type = "Ping"
    BY <2>1 DEF Answers
  <2>2. CASE m.type = "Query"
    BY <2>2 DEF Answers
  <2> QED
    BY <2>1, <2>2 DEF Asks
<1>3. \A a \in Answers(m) : a \in Message /\ a.type \in Talk
  BY <1>2, MsgTyped DEF Type, Talk
<1>4. Answers(m) # {} => (CHOOSE k \in Answers(m) : TRUE) \in Answers(m)
  OBVIOUS
<1> QED
  BY <1>1, <1>3, <1>4

\* A ping or a query, answered.
LEMMA AskedStep ==
    ASSUME IInv, NEW p, NEW b, NEW i, Handling(p, b, i), NEW mark, Asked(p, b, i, mark)
    PROVE  IInv'
<1>1. /\ Asks(p, boxes[b][i]) /\ Becomes(p, "Completed") /\ agents' = agents
      /\ Account({<<"mark", mark>>})
  BY DEF Asked
<1>2. boxes[b][i].type \in Talk /\ Connected(p) /\ p \in Party
  BY <1>1, AnswerTyped, HandledRight
<1>3. doubts \subseteq doubts'
  BY <1>1, Noted
<1>4. /\ Moves(sm, agents, doubts, sm', agents, doubts')
      /\ sm'[p].st = "Completed" /\ sm'[p].peer = sm[p].peer
  BY <1>1, <1>2, <1>3, Completes
<1>5. PICK cs : cs = Reviewed(b, i, mark)
  OBVIOUS
<1>6. Delivers(boxes, cs, {})
  BY <1>5, ReviewedDelivers, HandledRight, Parts
<1>7. CASE Answers(boxes[b][i]) = {}
  <2>1. boxes' = cs
    BY <1>5, <1>7 DEF Asked
  <2> QED
    BY <1>1, <1>3, <1>4, <1>6, <2>1, Settled
<1>8. CASE Answers(boxes[b][i]) # {}
  <2>1. PICK a : a = CHOOSE m \in Answers(boxes[b][i]) : TRUE
    OBVIOUS
  <2>2. a \in Message /\ a.type \in Talk
    BY <1>1, <1>8, <2>1, AnswerTyped
  <2>3. Placed(sm', agents) /\ Apart(sm') /\ Agreed(sm', doubts')
    BY <1>4 DEF Moves
  <2>4. sm[p].peer \in 1..agents /\ Right(sm[p].peer, a, sm', agents, doubts')
    BY <1>2, <1>4, <2>2, <2>3, TalkRight
  <2>5. sm[p].peer \in Agent /\ sm[p].peer <= agents
    BY <2>4, Parts DEF Agent
  <2>6. boxes' = Put(cs, sm[p].peer, a, "ok")
    BY <1>5, <1>8, <2>1 DEF Asked
  <2>7. Delivers(boxes, boxes', {} \cup {<<sm[p].peer, a>>})
    BY <1>6, <2>2, <2>5, <2>6, PutDelivers
  <2> QED
    BY <1>1, <1>3, <1>4, <2>4, <2>5, <2>7, Settled
<1> QED
  BY <1>7, <1>8

\* What a party that is connected sends to its peer, whatever becomes of it.
LEMMA Talks ==
    ASSUME IInv, NEW p \in Party, Connected(p), NEW a \in Message, a.type \in Talk, NEW out,
           boxes' = Put(boxes, sm[p].peer, a, out), sm' = sm, agents' = agents,
           doubts \subseteq doubts'
    PROVE  IInv'
<1>1. agents \in 0..MaxAgents /\ agents <= agents
  BY Parts
<1>2. Moves(sm, agents, doubts, sm', agents, doubts')
  BY <1>1, KeysStay, Parts
<1>3. Placed(sm', agents) /\ Apart(sm') /\ Agreed(sm', doubts')
  BY <1>2 DEF Moves
<1>4. sm[p].peer \in 1..agents /\ Right(sm[p].peer, a, sm', agents, doubts')
  BY <1>3, TalkRight DEF Connected
<1>5. sm[p].peer \in Agent /\ sm[p].peer <= agents
  BY <1>4, Parts DEF Agent
<1>6. Delivers(boxes, boxes', {} \cup {<<sm[p].peer, a>>})
  BY <1>5, NothingDelivered, PutDelivers, Parts
<1> QED
  BY <1>2, <1>4, <1>5, <1>6, Settled

\* A ping or a query whose answer cannot be sent.
LEMMA AskedInVainStep ==
    ASSUME IInv, NEW p, NEW b, NEW i, Handling(p, b, i), AskedInVain(p, b, i)
    PROVE  IInv'
<1>1. /\ Asks(p, boxes[b][i]) /\ Answers(boxes[b][i]) # {} /\ sm' = sm /\ agents' = agents
  BY DEF AskedInVain
<1>2. PICK a : a = CHOOSE m \in Answers(boxes[b][i]) : TRUE
  OBVIOUS
<1>3. PICK out \in {"lost", "doubt"} :
        boxes' = Put(boxes, sm[p].peer, a, out) /\ Account({<<"answer", out>>})
  BY <1>2 DEF AskedInVain
<1>4. a \in Message /\ a.type \in Talk /\ Connected(p) /\ p \in Party
  BY <1>1, <1>2, AnswerTyped, HandledRight
<1>5. doubts \subseteq doubts'
  BY <1>3, Noted
<1> QED
  BY <1>1, <1>3, <1>4, <1>5, Talks

\* The peer's protocols are learnt.
LEMMA DisclosedStep ==
    ASSUME IInv, NEW p, NEW b, NEW i, Handling(p, b, i), NEW mark, Disclosed(p, b, i, mark)
    PROVE  IInv'
<1>1. /\ agents' = agents /\ boxes' = Reviewed(b, i, mark) /\ Account({<<"mark", mark>>})
      /\ sm' = [sm EXCEPT ![p].known = TRUE]
  BY DEF Disclosed
<1>2. p \in Party /\ doubts \subseteq doubts' /\ agents \in 0..MaxAgents /\ agents <= agents
  BY <1>1, Noted, HandledRight, Parts
<1>3. PICK x : x = [sm[p] EXCEPT !.known = TRUE]
  OBVIOUS
<1>4. sm[p] \in Machine
  BY <1>2, MachineIs, Parts
<1>5. x \in Machine /\ x.st = sm[p].st /\ x.me = sm[p].me /\ x.inv = sm[p].inv /\ x.peer = sm[p].peer
  BY <1>3, <1>4 DEF Machine
<1>6. sm' = [sm EXCEPT ![p] = x]
  BY <1>1, <1>3
<1>7. Changes(sm, p, x, sm')
  BY <1>2, <1>5, <1>6, OneChanges, Parts
<1>8. sm' \in [Party -> Machine]
      /\ \A q \in Party : /\ sm'[q].st = sm[q].st /\ sm'[q].me = sm[q].me
                           /\ sm'[q].inv = sm[q].inv /\ sm'[q].peer = sm[q].peer
  BY <1>5, <1>7 DEF Changes
<1>9. Moves(sm, agents, doubts, sm', agents, doubts')
  BY <1>2, <1>8, KeysStay, Parts
<1>10. Delivers(boxes, boxes', {})
  BY <1>1, ReviewedDelivers, HandledRight, Parts
<1>11. agents' = agents
  BY <1>1
<1> QED
  BY <1>2, <1>9, <1>10, <1>11, Settled

----------------------------------------------------------------------------
(* Reading mailboxes, and the calls of applications *)

\* Whatever message is handled.
LEMMA HandlesStep ==
    ASSUME IInv, NEW p, NEW b, NEW i, Handling(p, b, i), NEW mark, Handles(p, b, i, mark)
    PROVE  IInv'
<1>1. CASE p = inviter /\ ExchangeRequest(b, i, mark)
  BY <1>1, ExchangeRequestStep
<1>2. CASE p # inviter /\ ExchangeResponse(p, b, i, mark)
  <2>1. p \in Invitee
    BY <1>2 DEF Handling, Party
  <2> QED
    BY <1>2, <2>1, ExchangeResponseStep
<1>3. CASE ProblemReport(p, b, i, mark)
  BY <1>3, ProblemReportStep
<1>4. CASE Acknowledged(p, b, i, mark)
  BY <1>4, AcknowledgedStep
<1>5. CASE Asked(p, b, i, mark)
  BY <1>5, AskedStep
<1>6. CASE Disclosed(p, b, i, mark)
  BY <1>6, DisclosedStep
<1> QED
  BY <1>1, <1>2, <1>3, <1>4, <1>5, <1>6 DEF Handles

\* The mailboxes that a party reads are its own.
LEMMA Readable ==
    ASSUME IInv, NEW p \in Party, NEW b,
           \/ b = sm[p].me /\ b # NoAgent
           \/ p = inviter /\ b = sm[p].inv /\ sm[p].me # NoAgent,
           NEW i \in 1..Len(boxes[b])
    PROVE  Handling(p, b, i)
<1>1. b \in 0..agents /\ b # NoAgent
  BY MachineIs, Parts DEF Placed
<1>2. b \in Agent
  BY <1>1, Parts DEF Agent, NoAgent
<1> QED
  BY <1>2 DEF Handling, Own

\* One mailbox is read.
LEMMA ReadsStep ==
    ASSUME IInv, NEW p \in Party, NEW b, NEW ok, Reads(p, b, ok),
           \/ b = sm[p].me /\ b # NoAgent
           \/ p = inviter /\ b = sm[p].inv /\ sm[p].me # NoAgent
    PROVE  IInv'
<1>1. CASE \E i \in 1..Len(boxes[b]), mark \in Outcome : Handles(p, b, i, mark) /\ ok = (mark = "ok")
  BY <1>1, Readable, HandlesStep
<1>2. CASE \E i \in 1..Len(boxes[b]) :
             Pending(boxes[b], i, "ok") /\ AskedInVain(p, b, i) /\ ~ok
  BY <1>2, Readable, AskedInVainStep
<1>3. CASE UNCHANGED <<sm, boxes, agents, faults, doubts>>
  BY <1>3 DEF IInv
<1> QED
  BY <1>1, <1>2, <1>3 DEF Reads

\* update_state of the inviter, either of its two reads.
LEMMA InviterPollsStep == IInv /\ InviterPolls => IInv'
<1> SUFFICES ASSUME IInv, InviterPolls PROVE IInv'
  OBVIOUS
<1>1. sm[inviter].me # NoAgent /\ inviter \in Party
  BY Parties DEF InviterPolls
<1>2. \/ \E ok \in BOOLEAN : Reads(inviter, sm[inviter].me, ok)
      \/ \E ok \in BOOLEAN : Reads(inviter, sm[inviter].inv, ok)
  BY DEF InviterPolls
<1> QED
  BY <1>1, <1>2, ReadsStep

\* update_state of an invitee.
LEMMA InviteePollsStep ==
    ASSUME IInv, NEW c \in Invitee, InviteePolls(c)
    PROVE  IInv'
BY ReadsStep, Parties DEF InviteePolls

\* update_state_with_message.
LEMMA GivenStep ==
    ASSUME IInv, NEW p \in Party, Given(p)
    PROVE  IInv'
<1>1. PICK b \in {sm[p].me} \ {NoAgent} : \E i \in 1..Len(boxes[b]) : Handles(p, b, i, "given")
  BY DEF Given
<1>2. PICK i \in 1..Len(boxes[b]) : Handles(p, b, i, "given")
  BY <1>1
<1>3. Handling(p, b, i)
  BY Readable
<1> QED
  BY <1>2, <1>3, HandlesStep

\* send_ping and send_discovery_features.
LEMMA SendStep ==
    ASSUME IInv, NEW p \in Party, SendPing(p) \/ SendQuery(p)
    PROVE  IInv'
<1>1. CASE SendPing(p)
  <2>1. PICK y : y = Msg("Ping")
    OBVIOUS
  <2>2. y \in Message /\ y.type = "Ping"
    BY <2>1, MsgTyped DEF Type, Talk
  <2>3. PICK a : a = [y EXCEPT !.ask = TRUE]
    OBVIOUS
  <2>4. a \in Message /\ a.type = "Ping"
    BY <2>2, <2>3 DEF Message
  <2>5. PICK out \in Outcome : boxes' = Put(boxes, sm[p].peer, a, out) /\ Account({<<"talk", out>>})
    BY <1>1, <2>1, <2>3 DEF SendPing
  <2>6. sm' = sm /\ agents' = agents /\ Connected(p) /\ doubts \subseteq doubts' /\ a.type \in Talk
    BY <1>1, <2>4, <2>5, Noted DEF SendPing, Talk
  <2> QED
    BY <2>4, <2>5, <2>6, Talks
<1>2. CASE SendQuery(p)
  <2>1. PICK a : a = Msg("Query")
    OBVIOUS
  <2>2. a \in Message /\ a.type = "Query"
    BY <2>1, MsgTyped DEF Type, Talk
  <2>3. PICK out \in Outcome : boxes' = Put(boxes, sm[p].peer, a, out) /\ Account({<<"talk", out>>})
    BY <1>2, <2>1 DEF SendQuery
  <2>4. sm' = sm /\ agents' = agents /\ Connected(p) /\ doubts \subseteq doubts' /\ a.type \in Talk
    BY <1>2, <2>2, <2>3, Noted DEF SendQuery, Connected, Talk
  <2> QED
    BY <2>2, <2>3, <2>4, Talks
<1> QED
  BY <1>1, <1>2

----------------------------------------------------------------------------
(* The theorem *)

\* Nobody is connected at first, and there is no mail.
LEMMA InitIInv == Init => IInv
<1> SUFFICES ASSUME Init PROVE Good(sm, boxes, agents, doubts)
  BY DEF IInv
<1>1. agents = 0 /\ boxes = [a \in Agent |-> <<>>] /\ MaxAgents \in Nat
  BY ConnectionAssumption DEF Init
<1>2. \A p \in Party : /\ sm[p] \in Machine /\ sm[p].me = 0 /\ sm[p].inv = 0 /\ sm[p].peer = 0
                       /\ sm[p].st = IF p = inviter THEN "Null" ELSE "Absent"
  <2> SUFFICES ASSUME NEW p \in Party
               PROVE  /\ sm[p] \in Machine /\ sm[p].me = 0 /\ sm[p].inv = 0 /\ sm[p].peer = 0
                      /\ sm[p].st = IF p = inviter THEN "Null" ELSE "Absent"
    OBVIOUS
  <2>1. sm[p] = Made(IF p = inviter THEN "Null" ELSE "Absent")
    BY DEF Init
  <2>2. CASE p = inviter
    <3>1. sm[p] = Made("Null")
      BY <2>1, <2>2
    <3> QED
      BY <2>2, <3>1 DEF Made, Machine, NoAgent
  <2>3. CASE p # inviter
    <3>1. sm[p] = Made("Absent")
      BY <2>1, <2>3
    <3> QED
      BY <2>3, <3>1 DEF Made, Machine, NoAgent
  <2> QED
    BY <2>2, <2>3
<1>3. sm \in [Party -> Machine]
  BY <1>2 DEF Init
<1>4. Placed(sm, agents)
  BY <1>1, <1>2, <1>3, Parties DEF Placed, Answered, NoAgent
<1>5. Apart(sm) /\ Agreed(sm, doubts)
  BY <1>2, Parties DEF Apart, Agreed, NoAgent
<1>6. MailRight(sm, boxes, agents, doubts)
  BY <1>1 DEF MailRight, Mailboxes
<1> QED
  BY <1>4, <1>5, <1>6 DEF Good

\* Every step keeps the invariant.
LEMMA NextIInv == IInv /\ [Next]_vars => IInv'
<1> SUFFICES ASSUME IInv, [Next]_vars PROVE IInv'
  OBVIOUS
<1>1. CASE InviterConnect
  BY <1>1, InviterConnectStep
<1>2. CASE InviterPolls
  BY <1>2, InviterPollsStep
<1>3. CASE \E c \in Invitee : \/ CreateWithInvite(c) \/ InvitationReceived(c)
                               \/ InviteeConnect(c) \/ InviteePolls(c)
  BY <1>3, CreateWithInviteStep, InvitationReceivedStep, InviteeConnectStep, InviteePollsStep
<1>4. CASE \E p \in Party : Given(p) \/ SendPing(p) \/ SendQuery(p)
  BY <1>4, GivenStep, SendStep
<1>5. CASE UNCHANGED vars
  BY <1>5 DEF IInv, vars
<1> QED
  BY <1>1, <1>2, <1>3, <1>4, <1>5 DEF Next

\* The invariant says what KeysAgree says.
LEMMA IInvKeysAgree == IInv => KeysAgree
BY DEF IInv, Good, Agreed, KeysAgree, Mates, Paired, Connected, Answered

\* The invariant holds throughout.
LEMMA Inductive == Spec => []IInv
BY InitIInv, NextIInv, PTL DEF Spec

\* Whatever requests, answers and acknowledgements of handle_messages fail,
\* arrive all the same or are handled again, an invitee that is connected to
\* the inviter's present agent is the one that the inviter answered; and while
\* no send that was reported as failed has arrived, either side that is
\* connected has the other's keys.
THEOREM KeysAlwaysAgree == Spec => []KeysAgree
BY Inductive, IInvKeysAgree, PTL

=============================================================================
