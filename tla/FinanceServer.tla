---------------------------- MODULE FinanceServer ----------------------------
(***************************************************************************)
(* The finance API server (apiserver/financeapiserver.js) with the         *)
(* functions its routes call (registerUser.js, create_account.js,          *)
(* money_issuance.js, balance_check.js) and the enrollAdmin.js script.     *)
(*                                                                         *)
(* The server is one event loop: between two awaits of one request the     *)
(* steps of any other may run, so there is one action per await.  Its      *)
(* wallet directory, the certificate authority and the ledger outlive it.  *)
(* The ledger is AtomicLedger, which FabricLedger is proved to implement;  *)
(* a request submits at most one transaction, so requests name them.       *)
(*                                                                         *)
(* fabric-network, the certificate authority and the channel are external: *)
(* a call to them takes effect or not, and the await settles or throws.    *)
(***************************************************************************)
EXTENDS MyChainCode, FiniteSets, Functions

CONSTANTS
    Req,         \* the HTTP requests that arrive
    Http,        \* their contents: a route, a name and a value
    Missing,     \* a field that is not in the body
    MaxCrashes   \* bound: how often the server process dies

\* A body that has a name has one that is an account name; deposits and
\* amounts are any text.
ASSUME HttpAssumption ==
    /\ Http \subseteq [route : {"/createaccount", "/money_issuance", "/balance_check"},
                       name : Key \cup {Missing},
                       value : Int \cup {Empty, NotInt, Missing}]
    /\ Missing \notin Key \cup Int \cup {Empty, NotInt}
    /\ MaxCrashes \in Nat

VARIABLES
    wallet,       \* the identities in the wallet directory
    registered,   \* the names registered at the certificate authority
    ledger,       \* the world state ...
    done,         \* ... and the transactions that took effect, with their answers
    sent,         \* the requests whose transaction is on its way to the peers
    pc,           \* the await each request is suspended at
    http,         \* the content of each request
    msg1,         \* what registerUser returned
    msg2,         \* what create_account, money_issuance or balance_check returned
    gateways,     \* the gateways connected and not disconnected
    faulty,       \* history: the requests some external call failed for
    enrollAdmin,  \* the await the enrollAdmin.js script is suspended at
    crashes       \* how often the server process has died

durableVars == <<wallet, registered, ledger, done, sent>>
ledgerVars  == <<ledger, done, sent>>
vars == <<wallet, registered, ledger, done, sent, pc, http, msg1, msg2, gateways,
          faulty, enrollAdmin, crashes>>

\* Mutant of Identity: every function connects as the admin.
IdentityAdmin(q) == Admin

\* The identity a submitting function connects with.
Identity(q) == IF q.route = "/money_issuance" THEN Admin ELSE q.name

\* The chaincode call it submits.
CallOf(q) ==
    CASE q.route = "/createaccount"  -> Invoke("create_account", <<q.name, q.value>>)
      [] q.route = "/money_issuance" -> Invoke("money_issuance", <<q.value>>)
      [] q.route = "/balance_check"  -> Invoke("balance_check", <<q.name>>)

\* The route has the fields it looks for; otherwise it answers at once with
\* undefined messages.
Complete(q) ==
    /\ q.route # "/money_issuance" => q.name # Missing
    /\ q.route # "/balance_check" => q.value # Missing

Ledger == INSTANCE AtomicLedger WITH Tx <- Req

----------------------------------------------------------------------------
Init ==
    /\ wallet = {}
    /\ registered = {Admin}
    /\ Ledger!Init
    /\ sent = {}
    /\ pc = [r \in Req |-> "idle"]
    /\ http = [r \in Req |-> [route |-> "none", name |-> Missing, value |-> Missing]]
    /\ msg1 = [r \in Req |-> "undefined"]
    /\ msg2 = [r \in Req |-> "undefined"]
    /\ gateways = {}
    /\ faulty = {}
    /\ enrollAdmin = "idle"
    /\ crashes = 0

\* The steps of registerUser, and those of the functions that submit.
RegisterSteps == {"name_exists", "admin_exists", "ca_connect", "register",
                  "enroll", "import"}
SubmitSteps   == {"exists", "connect", "submit", "commit", "disconnect"}
Running(r)    == pc[r] \in RegisterSteps \cup SubmitSteps

At(r, step)   == pc[r] = step
Goto(r, step) == pc' = [pc EXCEPT ![r] = step]

\* registerUser returns: create_account runs next, whatever it returned.
ReturnRegister(r, text) ==
    /\ msg1' = [msg1 EXCEPT ![r] = text]
    /\ Goto(r, "exists")
    /\ UNCHANGED msg2

\* Mutant of ReturnSubmit: an error is caught and no answer is sent.
ReturnSubmitSilent(r, text) ==
    /\ msg2' = [msg2 EXCEPT ![r] = text]
    /\ Goto(r, IF text = "failed" THEN pc[r] ELSE "answered")
    /\ UNCHANGED msg1

\* The submitting function returns, and the route answers the request.
ReturnSubmit(r, text) ==
    /\ msg2' = [msg2 EXCEPT ![r] = text]
    /\ Goto(r, "answered")
    /\ UNCHANGED msg1

\* The await gave what the code goes on with.
Proceed(r, step) == Goto(r, step) /\ UNCHANGED <<msg1, msg2>>

----------------------------------------------------------------------------
\* A request arrives and its route runs to its first await.
Receive(r, q) ==
    /\ At(r, "idle")
    /\ http' = [http EXCEPT ![r] = q]
    /\ Goto(r, IF ~Complete(q) THEN "answered"
               ELSE IF q.route = "/createaccount" THEN "name_exists" ELSE "exists")
    /\ UNCHANGED <<durableVars, msg1, msg2, gateways, faulty, enrollAdmin, crashes>>

(* registerUser *)

NameExists(r) ==
    /\ At(r, "name_exists")
    /\ IF http[r].name \in wallet THEN ReturnRegister(r, "already exists")
                                  ELSE Proceed(r, "admin_exists")
    /\ UNCHANGED <<durableVars, http, gateways, faulty, enrollAdmin, crashes>>

AdminExists(r) ==
    /\ At(r, "admin_exists")
    /\ IF Admin \in wallet THEN Proceed(r, "ca_connect")
                           ELSE ReturnRegister(r, "no admin")
    /\ UNCHANGED <<durableVars, http, gateways, faulty, enrollAdmin, crashes>>

\* The gateway of registerUser is never disconnected.
CaConnect(r) ==
    /\ At(r, "ca_connect")
    /\ Admin \in wallet
    /\ gateways' = gateways \cup {<<r, "registerUser">>}
    /\ Proceed(r, "register")
    /\ UNCHANGED <<durableVars, http, faulty, enrollAdmin, crashes>>

\* Mutant of Register: a name that is registered is enrolled again.
RegisterAgain(r) ==
    /\ At(r, "register")
    /\ registered' = registered \cup {http[r].name}
    /\ Proceed(r, "enroll")
    /\ UNCHANGED <<wallet, ledgerVars, http, gateways, faulty, enrollAdmin, crashes>>

\* The certificate authority refuses a name that is registered already.
Register(r) ==
    /\ At(r, "register")
    /\ IF http[r].name \in registered
       THEN ReturnRegister(r, "failed") /\ UNCHANGED registered
       ELSE /\ registered' = registered \cup {http[r].name}
            /\ Proceed(r, "enroll")
    /\ UNCHANGED <<wallet, ledgerVars, http, gateways, faulty, enrollAdmin, crashes>>

\* The registration takes effect and its answer, with the secret, is lost.
RegisterLost(r) ==
    /\ At(r, "register")
    /\ registered' = registered \cup {http[r].name}
    /\ ReturnRegister(r, "failed")
    /\ faulty' = faulty \cup {r}
    /\ UNCHANGED <<wallet, ledgerVars, http, gateways, enrollAdmin, crashes>>

Enroll(r) ==
    /\ At(r, "enroll")
    /\ Proceed(r, "import")
    /\ UNCHANGED <<durableVars, http, gateways, faulty, enrollAdmin, crashes>>

Import(r) ==
    /\ At(r, "import")
    /\ wallet' = wallet \cup {http[r].name}
    /\ ReturnRegister(r, "registered")
    /\ UNCHANGED <<registered, ledgerVars, http, gateways, faulty, enrollAdmin, crashes>>

----------------------------------------------------------------------------
(* create_account, money_issuance and balance_check *)

Exists(r) ==
    /\ At(r, "exists")
    /\ IF Identity(http[r]) \in wallet THEN Proceed(r, "connect")
                                       ELSE ReturnSubmit(r, "no identity")
    /\ UNCHANGED <<durableVars, http, gateways, faulty, enrollAdmin, crashes>>

\* gateway.connect, then getNetwork; a failure of getNetwork is a throw at
\* the step that follows, with the gateway connected.
Connect(r) ==
    /\ At(r, "connect")
    /\ Identity(http[r]) \in wallet
    /\ gateways' = gateways \cup {<<r, "submit">>}
    /\ Proceed(r, "submit")
    /\ UNCHANGED <<durableVars, http, faulty, enrollAdmin, crashes>>

\* Mutant of Submit: the promise of submitTransaction is not awaited.
SubmitNotAwaited(r) ==
    /\ At(r, "submit")
    /\ sent' = sent \cup {r}
    /\ ReturnSubmit(r, "submitted")
    /\ UNCHANGED <<wallet, registered, ledger, done, http, gateways, faulty,
                   enrollAdmin, crashes>>

\* submitTransaction has its proposal endorsed and sends it to the orderer.
Submit(r) ==
    /\ At(r, "submit")
    /\ sent' = sent \cup {r}
    /\ Proceed(r, "commit")
    /\ UNCHANGED <<wallet, registered, ledger, done, http, gateways, faulty,
                   enrollAdmin, crashes>>

\* The commit event arrives: the functions that return before their
\* disconnect leave the gateway connected.
Committed(r) ==
    /\ At(r, "commit")
    /\ \E d \in done : d.tx = r
    /\ IF http[r].route = "/balance_check" THEN Proceed(r, "disconnect")
                                           ELSE ReturnSubmit(r, "submitted")
    /\ UNCHANGED <<durableVars, http, gateways, faulty, enrollAdmin, crashes>>

Disconnect(r) ==
    /\ At(r, "disconnect")
    /\ gateways' = gateways \ {<<r, "submit">>}
    /\ ReturnSubmit(r, "submitted")
    /\ UNCHANGED <<durableVars, http, faulty, enrollAdmin, crashes>>

\* The await throws: an endorsement that is refused, an MVCC conflict, a
\* commit event that does not come in time, a call that cannot reach the
\* other side.  The function catches it and returns.
Throw(r) ==
    /\ Running(r)
    /\ IF pc[r] \in RegisterSteps THEN ReturnRegister(r, "failed")
                                  ELSE ReturnSubmit(r, "failed")
    /\ faulty' = faulty \cup {r}
    /\ UNCHANGED <<durableVars, http, gateways, enrollAdmin, crashes>>

----------------------------------------------------------------------------
(* The channel: what was sent is committed or discarded, whether or not    *)
(* the server still waits for it.                                          *)

Commit(r) ==
    /\ r \in sent
    /\ sent' = sent \ {r}
    /\ Ledger!Execute(r, CallOf(http[r]))
    /\ UNCHANGED <<wallet, registered, pc, http, msg1, msg2, gateways, faulty,
                   enrollAdmin, crashes>>

Discard(r) ==
    /\ r \in sent
    /\ sent' = sent \ {r}
    /\ UNCHANGED <<wallet, registered, ledger, done, pc, http, msg1, msg2, gateways,
                   faulty, enrollAdmin, crashes>>

----------------------------------------------------------------------------
(* The enrollAdmin.js script, run by the operator; one run at a time.      *)

EnrollAdmin(step, next) ==
    /\ enrollAdmin = step
    /\ enrollAdmin' = next
    /\ UNCHANGED <<registered, ledgerVars, pc, http, msg1, msg2, gateways, faulty, crashes>>

EnrollAdminStep ==
    \/ EnrollAdmin("idle", "exists") /\ UNCHANGED wallet
    \/ /\ EnrollAdmin("exists", IF Admin \in wallet THEN "idle" ELSE "enroll")
       /\ UNCHANGED wallet
    \/ EnrollAdmin("enroll", "import") /\ UNCHANGED wallet
    \/ EnrollAdmin("import", "idle") /\ wallet' = wallet \cup {Admin}
    \/ enrollAdmin # "idle" /\ EnrollAdmin(enrollAdmin, "idle") /\ UNCHANGED wallet

\* The server process dies and is started again.  Open requests get no
\* answer, and the gateways go with the process.
Crash ==
    /\ crashes < MaxCrashes
    /\ crashes' = crashes + 1
    /\ pc' = [r \in Req |-> IF Running(r) THEN "lost" ELSE pc[r]]
    /\ gateways' = {}
    /\ UNCHANGED <<durableVars, http, msg1, msg2, faulty, enrollAdmin>>

----------------------------------------------------------------------------
\* The event loop continues request r.
Step(r) ==
    \/ NameExists(r) \/ AdminExists(r) \/ CaConnect(r)
    \/ Register(r) \/ RegisterLost(r) \/ Enroll(r) \/ Import(r)
    \/ Exists(r) \/ Connect(r) \/ Submit(r) \/ Committed(r) \/ Disconnect(r)
    \/ Throw(r)

Next ==
    \/ \E r \in Req, q \in Http : Receive(r, q)
    \/ \E r \in Req : Step(r) \/ Commit(r) \/ Discard(r)
    \/ EnrollAdminStep
    \/ Crash

Spec == Init /\ [][Next]_vars

\* Every await settles: the wallet is local, the calls of fabric-network and
\* of the certificate authority's client end by an answer or by their
\* timeouts, and the event loop runs what is ready.
FairSpec == Spec /\ \A r \in Req : WF_vars(Step(r))

----------------------------------------------------------------------------
Took(r) == \E d \in done : d.tx = r

Opened(k) == {r \in Req : Took(r) /\ http[r].route = "/createaccount" /\ http[r].name = k}

Issued == {r \in Req : Took(r) /\ http[r].route = "/money_issuance"}

\* Every account belongs to an enrolled user: whatever crashes or fails
\* between registerUser and create_account, a name with an account has its
\* identity in the wallet, and the wallet holds registered names only.
IdentityBehindAccount ==
    /\ wallet \subseteq registered
    /\ \A k \in Key \ {Admin} : ledger[k] # Empty => k \in wallet

\* Every balance is explained by the requests: an account was opened by one
\* request and holds its deposit, however often /createaccount was sent, lost
\* or retried, and the admin holds the sum of what was issued.
BalancesExplained ==
    /\ \A k \in Key \ {Admin} :
          \/ ledger[k] = Empty /\ Opened(k) = {}
          \/ \E r \in Req : Opened(k) = {r} /\ ledger[k] = http[r].value
    /\ (SumFunction([r \in Issued |-> http[r].value]) - ledger[Admin])
           % (2 * (MaxInt + 1)) = 0

\* A request that is told its transaction was submitted has had its effect;
\* of the /createaccount requests for one name only the one whose deposit the
\* account holds is told so.
SuccessIsReal ==
    \A r \in Req : msg2[r] = "submitted" =>
        /\ Took(r)
        /\ http[r].route = "/createaccount" => ledger[http[r].name] = http[r].value

\* The wallet check of registerUser is stale when the identity is imported,
\* yet no import replaces an identity: concurrent requests for one name do not
\* both get past the certificate authority.
NoOverwrite ==
    [][\A r \in Req : At(r, "import") /\ msg1'[r] = "registered" /\ msg1[r] # "registered"
           => http[r].name \notin wallet]_vars

\* The name was registered, and the secret to enrol it with is lost: its
\* identity is not in the wallet and no request is on the way to importing it.
Abandoned(k) ==
    /\ k \in registered \ wallet
    /\ \A r \in Req : pc[r] \in {"enroll", "import"} => http[r].name # k

\* A registration that was cut short between ca.register and wallet.import is
\* not completed by anybody: however many requests for the name follow or are
\* under way, none of them enrols the name a second time, so that it gets
\* neither an identity nor an account.
AbandonedStaysOut ==
    [][\A k \in Key \ {Admin} : Abandoned(k) => Abandoned(k)' /\ ledger'[k] = Empty]_vars

\* Every request is answered unless the server dies on it.
Answered == \A r \in Req : Running(r) ~> pc[r] \in {"answered", "lost"}

----------------------------------------------------------------------------
(* What a message of the code says, and the code does not keep.            *)

\* "Run the registerUser.js application before retrying": a /createaccount
\* request that runs registerUser, with the admin enrolled, no external call
\* failing and no other request under way, leaves its user with an identity.
RegistrationHeals ==
    \A r \in Req : /\ At(r, "answered") /\ r \notin faulty
                   /\ http[r].route = "/createaccount" /\ Complete(http[r])
                   /\ msg1[r] # "no admin"
                   /\ \A q \in Req : ~Running(q)
                   => http[r].name \in wallet
============================================================================
