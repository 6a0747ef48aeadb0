---------------------------- MODULE MyChainCode ----------------------------
(***************************************************************************)
(* The asset chaincode (MyChainCode/src/main/java/MyChainCode.java) as     *)
(* pure operators.  A call is simulated by an endorsing peer against the   *)
(* committed state it holds; reads never see the writes of the same call.  *)
(* What a call produces is a response: whether it succeeded, its payload,  *)
(* the keys whose committed value it depends on, and its writes.           *)
(*                                                                         *)
(* Strings.  The text of a decimal number is modelled by that number, the  *)
(* empty string by Empty, and any other text by a value that is no         *)
(* integer.  A Java int has the range -(MaxInt + 1) .. MaxInt; MaxInt is   *)
(* 2^31 - 1 in the program and small in the models.                        *)
(***************************************************************************)
EXTENDS Integers, Sequences

CONSTANTS
    Key,      \* the account names (keys of the world state) in use
    Admin,    \* the key "admin"
    Empty,    \* the empty string; also what getStringState gives for no key
    NotInt,   \* a text that is no decimal number
    MaxInt,   \* Integer.MAX_VALUE
    Call      \* the calls that clients make

\* Account names and the empty string are no decimal numbers.
ASSUME ChainCodeAssumption ==
    /\ MaxInt \in Nat \ {0}
    /\ Admin \in Key
    /\ Empty \notin Key /\ Empty \notin Int
    /\ NotInt \notin Int
    /\ Key \cap Int = {}

----------------------------------------------------------------------------
JavaInt == -(MaxInt + 1) .. MaxInt

\* Mutant of Wrap: sums that do not wrap around.
WrapUnbounded(n) == n

\* Two's complement addition.  The sum of two Java ints leaves the range by
\* less than one period, so one correction brings it back.
Wrap(n) == IF n > MaxInt THEN n - 2 * (MaxInt + 1)
           ELSE IF n < -(MaxInt + 1) THEN n + 2 * (MaxInt + 1)
           ELSE n

\* Integer.parseInt succeeds on the text of a Java int, and throws
\* NumberFormatException on every other text, the empty one included.
Parses(text) == text \in JavaInt

\* What getStringState can return: Integer.toString of an int, or nothing.
Value == JavaInt \cup {Empty}

----------------------------------------------------------------------------
\* The write set of a call: the last putStringState to a key wins, and
\* delState is a write of nothing.
NoWrites == [k \in {} |-> Empty]

putStringState(writes, key, text) ==
    [k \in DOMAIN writes \cup {key} |-> IF k = key THEN text ELSE writes[k]]

delState(writes, key) == putStringState(writes, key, Empty)

\* The state that results when the peers commit a write set.
Apply(state, writes) ==
    [k \in Key |-> IF k \in DOMAIN writes THEN writes[k] ELSE state[k]]

newErrorResponse ==
    [ok |-> FALSE, payload |-> Empty, reads |-> {}, writes |-> NoWrites]

newSuccessResponse(payload, reads, writes) ==
    [ok |-> TRUE, payload |-> payload, reads |-> reads, writes |-> writes]

----------------------------------------------------------------------------
\* Called when the chaincode is instantiated or upgraded.
init(state) ==
    newSuccessResponse(Empty, {Admin},
        IF state[Admin] = Empty THEN putStringState(NoWrites, Admin, 0)
                                ELSE NoWrites)

\* Mutant of createAccount: no check that the account is new.
createAccountUnchecked(state, args) ==
    IF Len(args) = 2 /\ Parses(args[2]) /\ args[2] >= 0
    THEN newSuccessResponse(Empty, {}, putStringState(NoWrites, args[1], args[2]))
    ELSE newErrorResponse

\* create_account <user> <deposit>
createAccount(state, args) ==
    LET user   == args[1]
        amount == args[2]
    IN  IF /\ Len(args) = 2
           /\ Parses(amount)
           /\ amount >= 0
           /\ state[user] = Empty
        THEN newSuccessResponse(Empty, {user},
                                putStringState(NoWrites, user, amount))
        ELSE newErrorResponse

\* Mutant of remit: the sender's balance is not compared with the amount.
remitUnaffordable(state, args) ==
    IF /\ Len(args) = 3 /\ Parses(args[3]) /\ args[3] >= 0
       /\ Parses(state[args[1]]) /\ Parses(state[args[2]])
    THEN newSuccessResponse(Empty, {args[1], args[2]},
             putStringState(
                 putStringState(NoWrites, args[1], Wrap(state[args[1]] - args[3])),
                 args[2], Wrap(state[args[2]] + args[3])))
    ELSE newErrorResponse

\* Mutant of remit: the receiver's balance comes from a cache of the
\* chaincode process, not through the stub.
remitCached(state, args) ==
    IF /\ Len(args) = 3 /\ Parses(args[3]) /\ args[3] >= 0
       /\ Parses(state[args[1]]) /\ Parses(state[args[2]])
       /\ state[args[1]] >= args[3]
    THEN newSuccessResponse(Empty, {args[1]},
             putStringState(
                 putStringState(NoWrites, args[1], Wrap(state[args[1]] - args[3])),
                 args[2], Wrap(state[args[2]] + args[3])))
    ELSE newErrorResponse

\* remit <sender> <receiver> <amount>.  Both balances are read before
\* either is written, and the receiver's is written last.  The checks for
\* an empty state come after parseInt has thrown on it.
remit(state, args) ==
    LET sender   == args[1]
        receiver == args[2]
        amount   == args[3]
        debited  == putStringState(NoWrites, sender,
                                   Wrap(state[sender] - amount))
    IN  IF /\ Len(args) = 3
           /\ Parses(amount) /\ Parses(state[sender]) /\ Parses(state[receiver])
           /\ amount >= 0
           /\ state[sender] >= amount
        THEN newSuccessResponse(Empty, {sender, receiver},
                 putStringState(debited, receiver,
                                Wrap(state[receiver] + amount)))
        ELSE newErrorResponse

\* Mutant of balanceCheck: the balance comes from such a cache.
balanceCheckCached(state, args) ==
    IF Len(args) = 1 /\ state[args[1]] # Empty
    THEN newSuccessResponse(state[args[1]], {}, NoWrites)
    ELSE newErrorResponse

\* balance_check <user>
balanceCheck(state, args) ==
    IF Len(args) = 1 /\ state[args[1]] # Empty
    THEN newSuccessResponse(state[args[1]], {args[1]}, NoWrites)
    ELSE newErrorResponse

\* money_issuance <amount>; the amount may be negative.
moneyIssuance(state, args) ==
    IF Len(args) = 1 /\ Parses(args[1]) /\ Parses(state[Admin])
    THEN newSuccessResponse(Empty, {Admin},
             putStringState(NoWrites, Admin, Wrap(args[1] + state[Admin])))
    ELSE newErrorResponse

\* delete_account <user>.  A blind delete: nothing is read.
deleteAccount(args) ==
    IF Len(args) = 1
    THEN newSuccessResponse(Empty, {}, delState(NoWrites, args[1]))
    ELSE newErrorResponse

\* The dispatch on the function name; an unknown name is unsupported.
invoke(state, fn, args) ==
    CASE fn = "create_account" -> createAccount(state, args)
      [] fn = "remit"          -> remit(state, args)
      [] fn = "balance_check"  -> balanceCheck(state, args)
      [] fn = "money_issuance" -> moneyIssuance(state, args)
      [] fn = "delete_account" -> deleteAccount(args)
      [] OTHER                 -> newErrorResponse

----------------------------------------------------------------------------
\* A call of the chaincode: its entry point, and for Invoke the function
\* name and the arguments.
Invoke(fn, args) == [entry |-> "invoke", fn |-> fn, args |-> args]
Upgrade          == [entry |-> "init", fn |-> "init", args |-> <<>>]

Simulate(state, call) ==
    IF call.entry = "init" THEN init(state)
                           ELSE invoke(state, call.fn, call.args)

\* The world state after the instantiation of the chaincode on a new channel.
Deployed == LET nothing == [k \in Key |-> Empty]
            IN  Apply(nothing, init(nothing).writes)

\* Clients name accounts in Key where the chaincode expects a name.  Function
\* names, numbers of arguments and amounts are unconstrained.
WellFormed(c) ==
    /\ c.fn # "money_issuance" /\ Len(c.args) >= 1 => c.args[1] \in Key
    /\ c.fn = "remit" /\ Len(c.args) >= 2 => c.args[2] \in Key

ASSUME CallAssumption ==
    \A c \in Call : /\ c.entry \in {"init", "invoke"}
                    /\ c.args \in Seq(Key \cup Int \cup {Empty, NotInt})
                    /\ WellFormed(c)
============================================================================
