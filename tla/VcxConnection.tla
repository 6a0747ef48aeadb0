---------------------------- MODULE VcxConnection ----------------------------
(***************************************************************************)
(* The connection protocol of libvcx (v3/handlers/connection): one inviter *)
(* and several invitees that hold its invitation.  Each connection attempt *)
(* and each response provisions new keys with a mailbox of their own, an   *)
(* agent.  An agent's number stands for its keys, its mailbox, its DID     *)
(* document and, for an invitee, the id of its request.                    *)
(*                                                                         *)
(* Peers are honest, so signatures and documents are valid; a failure to   *)
(* provision an agent or to build a message has the effect of a send that  *)
(* is lost.  A call that changes nothing is left out, and so is delete.    *)
(***************************************************************************)
EXTENDS VcxMailbox

CONSTANTS
    Invitee,    \* the objects made from the invitation
    inviter,    \* the object that makes it
    MaxAgents,  \* bound: agents provisioned
    MaxTalk     \* bound: pings and queries sent and messages passed by applications

ASSUME ConnectionAssumption ==
    inviter \notin Invitee /\ MaxAgents \in Nat /\ MaxTalk \in Nat

VARIABLES
    sm,       \* the DidExchangeSM of each party
    boxes,    \* the mailbox of each agent
    agents,   \* agents provisioned so far
    stage,    \* the mailbox the inviter's update_state reads next: "me", "prev"
    talk      \* pings and queries sent and messages passed

vars == <<sm, boxes, agents, stage, talk, faults, doubts>>

Party == Invitee \cup {inviter}
Agent == 1..MaxAgents
NoAgent == 0

\* me: agent_info; inv: the agent in the invitation, which is the inviter's
\* prev_agent_info; peer: the agent in did_doc; known: protocols are known.
Made(st) == [st |-> st, me |-> NoAgent, inv |-> NoAgent, peer |-> NoAgent, known |-> FALSE]

Init ==
    /\ sm = [p \in Party |-> Made(IF p = inviter THEN "Null" ELSE "Absent")]
    /\ boxes = [a \in Agent |-> <<>>]
    /\ agents = 0 /\ stage = "me" /\ talk = 0
    /\ faults = 0 /\ doubts = {}

Msg(type) == [type |-> type, key |-> NoAgent, ask |-> FALSE, read |-> FALSE]
Keyed(type, a) == [Msg(type) EXCEPT !.key = a]

Put(bs, a, m, out) == [bs EXCEPT ![a] = Post(@, m, out)]
Reviewed(b, i, mark) == [boxes EXCEPT ![b] = Review(@, i, mark)]

Becomes(p, st) == sm' = [sm EXCEPT ![p].st = st]

----------------------------------------------------------------------------
(* Starting *)

\* Connect of the inviter: a new agent, and an invitation with its keys.
InviterConnect ==
    /\ sm[inviter].st = "Null" /\ stage = "me" /\ agents < MaxAgents
    /\ agents' = agents + 1
    /\ sm' = [sm EXCEPT ![inviter] = [Made("Invited") EXCEPT !.me = agents', !.inv = agents']]
    /\ UNCHANGED <<boxes, stage, talk, faults, doubts>>

\* create_with_invite, with the invitation that get_invite_details gives.
CreateWithInvite(c) ==
    /\ sm[c].st = "Absent" /\ sm[inviter].st = "Invited"
    /\ sm' = [sm EXCEPT ![c] = [Made("Invited") EXCEPT !.inv = sm[inviter].me]]
    /\ UNCHANGED <<boxes, agents, stage, talk, faults, doubts>>

\* An application may pass an invitation to an invitee whose attempt has failed,
\* the same one or the inviter's latest; the agent it had stays.
InvitationReceived(c) ==
    /\ sm[c].st = "Null" /\ talk < MaxTalk /\ talk' = talk + 1
    /\ \E a \in {sm[c].inv, sm[inviter].inv} \ {NoAgent} :
          sm' = [sm EXCEPT ![c].st = "Invited", ![c].inv = a]
    /\ UNCHANGED <<boxes, agents, stage, faults, doubts>>

\* Connect of an invitee: if the request cannot be sent the agent is
\* forgotten, and the next attempt has another one.
InviteeConnect(c) ==
    /\ sm[c].st = "Invited" /\ agents < MaxAgents
    /\ agents' = agents + 1
    /\ \E out \in Outcome :
          /\ boxes' = Put(boxes, sm[c].inv, Keyed("Request", agents'), out)
          /\ sm' = IF out = "ok" THEN [sm EXCEPT ![c].st = "Requested", ![c].me = agents']
                                 ELSE sm
          /\ Account({<<"request", out>>})
    /\ UNCHANGED <<stage, talk>>

----------------------------------------------------------------------------
(* Handling message i of mailbox b.  The new state is assigned before the  *)
(* message is marked.                                                      *)

\* The inviter answers a request from a new agent; if that fails it reports
\* the problem, whether or not the report can be sent, and is back at Null.
\* An inviter of another make may ask for no ack.
ExchangeRequest(b, i, mark) ==
    LET k == boxes[b][i].key
        response(a, ask) == [Keyed("Response", a) EXCEPT !.ask = ask]
    IN  /\ sm[inviter].st = "Invited" /\ boxes[b][i].type = "Request"
        /\ \/ /\ agents < MaxAgents /\ agents' = agents + 1
              /\ \E ask \in BOOLEAN :
                    boxes' = Put(Reviewed(b, i, mark), k, response(agents', ask), "ok")
              /\ sm' = [sm EXCEPT ![inviter].st = "Responded", ![inviter].me = agents',
                                  ![inviter].peer = k]
              /\ Account({<<"mark", mark>>})
           \/ \E out \in {"lost", "doubt"}, report \in Outcome, ask \in BOOLEAN :
              /\ agents' = IF out = "doubt" THEN agents + 1 ELSE agents
              /\ agents' <= MaxAgents
              /\ boxes' = Put(Put(Reviewed(b, i, mark), k, response(agents', ask), out),
                              k, Msg("ProblemReport"), report)
              /\ Becomes(inviter, "Null")
              /\ Account({<<"send", out>>, <<"report", report>>, <<"mark", mark>>})

\* Mutant of ExchangeResponse: the problem is reported, the state is kept.
ExchangeResponseKept(c, b, i, mark) ==
    /\ sm[c].st = "Requested" /\ boxes[b][i].type = "Response"
    /\ \E out \in Outcome :
          /\ boxes' = Put(Reviewed(b, i, mark),
                          IF out = "ok" THEN boxes[b][i].key ELSE sm[c].inv,
                          Msg(IF out = "ok" THEN "Ack" ELSE "ProblemReport"), "ok")
          /\ Account({<<"send", out>>, <<"mark", mark>>})
    /\ sm' = [sm EXCEPT ![c].st = "Completed", ![c].peer = boxes[b][i].key]
    /\ UNCHANGED agents

\* An invitee acknowledges the response, or pings, to the inviter's new agent;
\* if that fails it reports the problem to the agent of the invitation.
ExchangeResponse(c, b, i, mark) ==
    LET m == boxes[b][i]
        answer == Msg(IF m.ask THEN "Ack" ELSE "Ping")
    IN  /\ sm[c].st = "Requested" /\ m.type = "Response"
        /\ \/ /\ boxes' = Put(Reviewed(b, i, mark), m.key, answer, "ok")
              /\ sm' = [sm EXCEPT ![c].st = "Completed", ![c].peer = m.key]
              /\ Account({<<"mark", mark>>})
           \/ \E out \in {"lost", "doubt"}, report \in Outcome :
              /\ boxes' = Put(Put(Reviewed(b, i, mark), m.key, answer, out),
                              sm[c].inv, Msg("ProblemReport"), report)
              /\ Becomes(c, "Null")
              /\ Account({<<"send", out>>, <<"report", report>>, <<"mark", mark>>})
        /\ UNCHANGED agents

\* A problem report counts whichever request it is about.  An invitee that has
\* not asked handles one that it is given.
ProblemReport(p, b, i, mark) ==
    /\ \/ p = inviter /\ sm[p].st \in {"Invited", "Responded"}
       \/ p # inviter /\ sm[p].st = "Requested"
       \/ p # inviter /\ sm[p].st = "Invited" /\ mark = "given"
    /\ boxes[b][i].type = "ProblemReport"
    /\ boxes' = Reviewed(b, i, mark)
    /\ Becomes(p, "Null")
    /\ Account({<<"mark", mark>>})
    /\ UNCHANGED agents

\* An ack, a ping or the answer to a ping completes the inviter's side.
Connected(p) == sm[p].st \in {"Responded", "Completed"}

Acknowledged(p, b, i, mark) ==
    /\ Connected(p)
    /\ \/ boxes[b][i].type = "Ack" /\ sm[p].st = "Responded"
       \/ boxes[b][i].type = "PingResponse"
    /\ boxes' = Reviewed(b, i, mark)
    /\ Becomes(p, "Completed")
    /\ Account({<<"mark", mark>>})
    /\ UNCHANGED agents

\* The answer that a ping or a query asks for; none for a ping that does not.
Answers(m) ==
    CASE m.type = "Ping"  -> IF m.ask THEN {Msg("PingResponse")} ELSE {}
      [] m.type = "Query" -> {Msg("Disclose")}
      [] OTHER            -> {}

Asks(p, m) ==
    \/ m.type = "Ping" /\ Connected(p)
    \/ m.type = "Query" /\ sm[p].st = "Completed"

Asked(p, b, i, mark) ==
    /\ Asks(p, boxes[b][i])
    /\ boxes' = IF Answers(boxes[b][i]) = {} THEN Reviewed(b, i, mark)
                ELSE Put(Reviewed(b, i, mark), sm[p].peer,
                         CHOOSE m \in Answers(boxes[b][i]) : TRUE, "ok")
    /\ Becomes(p, "Completed")
    /\ Account({<<"mark", mark>>})
    /\ UNCHANGED agents

\* The answer cannot be sent: the state is kept and the message is not marked.
AskedInVain(p, b, i) ==
    /\ Asks(p, boxes[b][i]) /\ Answers(boxes[b][i]) # {}
    /\ \E out \in {"lost", "doubt"} :
          /\ boxes' = Put(boxes, sm[p].peer, CHOOSE m \in Answers(boxes[b][i]) : TRUE, out)
          /\ Account({<<"answer", out>>})
    /\ UNCHANGED <<sm, agents>>

Disclosed(p, b, i, mark) ==
    /\ sm[p].st = "Completed" /\ boxes[b][i].type = "Disclose"
    /\ boxes' = Reviewed(b, i, mark)
    /\ sm' = [sm EXCEPT ![p].known = TRUE]
    /\ Account({<<"mark", mark>>})
    /\ UNCHANGED agents

----------------------------------------------------------------------------
(* Polling *)

\* step, for a message of agent b's mailbox.
Handles(p, b, i, mark) ==
    /\ Pending(boxes[b], i, mark)
    /\ \/ p = inviter /\ ExchangeRequest(b, i, mark)
       \/ p # inviter /\ ExchangeResponse(p, b, i, mark)
       \/ ProblemReport(p, b, i, mark) \/ Acknowledged(p, b, i, mark)
       \/ Asked(p, b, i, mark) \/ Disclosed(p, b, i, mark)

\* find_message_to_handle: the types each state waits for.
Expected(p) ==
    CASE sm[p].st = "Invited" /\ p = inviter -> {"Request", "ProblemReport"}
      [] sm[p].st = "Requested" -> {"Response", "ProblemReport"}
      [] sm[p].st = "Responded" -> {"Ack", "Ping", "PingResponse", "ProblemReport"}
      [] sm[p].st = "Completed" -> {"Ping", "PingResponse", "Query", "Disclose"}
      [] OTHER -> {}

Mail(b, types) == \E i \in 1..Len(boxes[b]) : boxes[b][i].type \in types /\ ~boxes[b][i].read

\* update_state reads one mailbox: a message is handled and marked, or cannot
\* be handled, or none is expected.  ok: the call goes on.
Reads(p, b, ok) ==
    \/ \E i \in 1..Len(boxes[b]), mark \in Outcome :
          Handles(p, b, i, mark) /\ ok = (mark = "ok")
    \/ \E i \in 1..Len(boxes[b]) :
          Pending(boxes[b], i, "ok") /\ AskedInVain(p, b, i) /\ ~ok
    \/ /\ ~Mail(b, Expected(p)) /\ ok
       /\ UNCHANGED <<sm, boxes, agents, faults, doubts>>

\* Mutant of GoesOn: the mailbox of the invitation is read no more.
GoesOnNever(ok) == FALSE

\* prev_agent_info: there is one while the inviter waits for the ack.
GoesOn(ok) == ok /\ sm'[inviter].st = "Responded"

\* The inviter's update_state: its mailbox, then that of the invitation.
InviterPolls ==
    /\ sm[inviter].me # NoAgent
    /\ \/ /\ stage = "me"
          /\ \E ok \in BOOLEAN : /\ Reads(inviter, sm[inviter].me, ok)
                                 /\ stage' = IF GoesOn(ok) THEN "prev" ELSE "me"
       \/ /\ stage = "prev"
          /\ \E ok \in BOOLEAN : Reads(inviter, sm[inviter].inv, ok)
          /\ stage' = "me"
    /\ UNCHANGED talk

InviteePolls(c) ==
    /\ sm[c].me # NoAgent
    /\ \E ok \in BOOLEAN : Reads(c, sm[c].me, ok)
    /\ UNCHANGED <<stage, talk>>

\* update_state_with_message: the application passes a message it has got.
Given(p) ==
    /\ p = inviter => stage = "me"
    /\ \E b \in {sm[p].me} \ {NoAgent} : \E i \in 1..Len(boxes[b]) : Handles(p, b, i, "given")
    /\ talk < MaxTalk /\ talk' = talk + 1
    /\ UNCHANGED stage

----------------------------------------------------------------------------
(* Calls of the application once there is a peer *)

\* send_ping: a ping that cannot be sent is not noticed.
SendPing(p) ==
    /\ Connected(p) /\ talk < MaxTalk /\ talk' = talk + 1
    /\ p = inviter => stage = "me"
    /\ \E out \in Outcome :
          /\ boxes' = Put(boxes, sm[p].peer, [Msg("Ping") EXCEPT !.ask = TRUE], out)
          /\ Account({<<"talk", out>>})
    /\ UNCHANGED <<sm, agents, stage>>

\* send_discovery_features
SendQuery(p) ==
    /\ sm[p].st = "Completed" /\ talk < MaxTalk /\ talk' = talk + 1
    /\ p = inviter => stage = "me"
    /\ \E out \in Outcome :
          /\ boxes' = Put(boxes, sm[p].peer, Msg("Query"), out)
          /\ Account({<<"talk", out>>})
    /\ UNCHANGED <<sm, agents, stage>>

Next ==
    \/ InviterConnect \/ InviterPolls
    \/ \E c \in Invitee : \/ CreateWithInvite(c) \/ InvitationReceived(c)
                           \/ InviteeConnect(c) \/ InviteePolls(c)
    \/ \E p \in Party : Given(p) \/ SendPing(p) \/ SendQuery(p)

Spec == Init /\ [][Next]_vars

\* Applications poll vcx_connection_update_state until they are connected.
FairSpec ==
    Spec /\ WF_vars(InviterPolls) /\ \A c \in Invitee : WF_vars(InviteePolls(c))

----------------------------------------------------------------------------
(* Properties *)

Mates(c) == sm[c].peer = sm[inviter].me /\ sm[inviter].peer = sm[c].me

\* The two ends of a connection hold each other's keys: an invitee that is
\* connected to the inviter's present agent is the one the inviter answered.
\* Unless a send that was reported as failed has arrived, an invitee that is
\* connected has an inviter that is or waits to be, and an inviter that is
\* connected has such an invitee.
KeysAgree ==
    /\ \A c \in Invitee :
          /\ sm[c].st = "Completed" /\ sm[c].peer = sm[inviter].me => Mates(c)
          /\ sm[c].st = "Completed" /\ "send" \notin doubts => Mates(c) /\ Connected(inviter)
    /\ sm[inviter].st = "Completed" /\ "send" \notin doubts
          => \E c \in Invitee : sm[c].st = "Completed" /\ Mates(c)

\* The inviter has answered c's request.
Chosen(c) == sm[inviter].st = "Responded" /\ sm[inviter].peer = sm[c].me

\* Polling settles the exchange: the invitee the inviter answered gets on, and
\* then so does the inviter, if no more than one call over the network fails: a
\* second failure may lose the report of the first.
Settles ==
    \A c \in Invitee :
        /\ Chosen(c) /\ sm[c].st = "Requested" ~> sm[c].st # "Requested"
        /\ Chosen(c) ~> ~Chosen(c) \/ faults >= 2
=============================================================================
