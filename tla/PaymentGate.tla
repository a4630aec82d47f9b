------------------------------ MODULE PaymentGate ------------------------------
(***************************************************************************)
(* Paying for a session: the client signs an authorization to transfer     *)
(* USDC and sends it along; the gate in front of the endpoints checks it,  *)
(* remembers its nonce, submits the transfer in the background and lets    *)
(* the request through.  A request may arrive more than once, and the      *)
(* server may be restarted.  The amount, the payee and the network are the *)
(* ones the gate asked for; an authorization stands for the 32 bytes of    *)
(* its nonce, which hexadecimal strings spell in several ways.  The wallet *)
(* that sends the transfers sends the attestations of sessions as well.    *)
(***************************************************************************)
EXTENDS Naturals, FiniteSets, Absent

CONSTANTS
    Auth,               \* authorizations, each with a nonce drawn at random
    Spelling,           \* the ways to write 32 bytes: with 0x or without, with or
                        \* without leading zeros; upper and lower case are one
    Req,                \* requests that carry a payment
    AttestTx,           \* the attestations that the agent submits
    MaxRestarts         \* bound on the restarts of the server

\* Nonces as the client writes them, in lower case.
NonceKey == [auth : Auth, spelling : Spelling]

ASSUME PaymentAssumptions ==
    /\ None \notin Auth /\ None \notin NonceKey
    /\ Req \cap AttestTx = {}
    /\ MaxRestarts \in Nat

VARIABLES
    auth,               \* Auth -> whether it is signed, by its payer, and in time
    req,                \* Req -> the request in the gate
    usedNonces,         \* the nonces the server remembers, as they were written
    transfer,           \* Req, AttestTx -> the goroutine that sends the transaction
    mempool,            \* the agent's transactions that are not mined
    mined,              \* the number of the agent's transactions that are
    charged,            \* the authorizations used up at the USDC contract
    payments,           \* the payments recorded: requests
    epoch,              \* number of restarts
    overlap             \* history: nonces that two requests had looked up,
                        \* and neither had stored, at the same time

gateVars == <<req, usedNonces, overlap>>
chainVars == <<mempool, mined, charged>>
paymentVars == <<auth, gateVars, transfer, chainVars, payments, epoch>>

Idle == [at |-> "none", key |-> None, epoch |-> 0]
NoTransfer == [at |-> "none", nonce |-> 0]

PaymentInit ==
    /\ auth = [a \in Auth |-> [signed |-> FALSE, byPayer |-> FALSE, expired |-> FALSE]]
    /\ req = [r \in Req |-> Idle]
    /\ usedNonces = {}
    /\ transfer = [x \in Req \cup AttestTx |-> NoTransfer]
    /\ mempool = {}
    /\ mined = 0
    /\ charged = {}
    /\ payments = {}
    /\ epoch = 0
    /\ overlap = {}

-----------------------------------------------------------------------------
(* The client. *)

\* The 402 is answered with a new authorization of the account that was
\* connected, signed by the one that is connected now.
signTransfer(a, same) ==
    /\ ~auth[a].signed
    /\ auth' = [auth EXCEPT ![a].signed = TRUE, ![a].byPayer = same]
    /\ UNCHANGED <<gateVars, transfer, chainVars, payments, epoch>>

\* The bytes of a nonce: an optional 0x is stripped, and zeros are put in front.
hexToBytes32(key) == key.auth

\* The request is repeated with the payment; it may arrive more than once.
deliver(r, key) ==
    /\ req[r] = Idle /\ auth[hexToBytes32(key)].signed
    /\ req' = [req EXCEPT ![r] = [at |-> "arrived", key |-> key, epoch |-> epoch]]
    /\ UNCHANGED <<auth, usedNonces, overlap, transfer, chainVars, payments, epoch>>

\* The time the authorization is valid for, maxTimeoutSeconds, passes.
expire(a) ==
    /\ auth[a].signed /\ ~auth[a].expired
    /\ auth' = [auth EXCEPT ![a].expired = TRUE]
    /\ UNCHANGED <<gateVars, transfer, chainVars, payments, epoch>>

-----------------------------------------------------------------------------
(* The gate. *)

Carry(key) == {r \in Req : req[r].key = key /\ req[r].at = "checked"}

\* The expiry is checked and the nonce is looked up, as it is written.
loadNonce(r) ==
    LET key == req[r].key
        refused == auth[hexToBytes32(key)].expired \/ key \in usedNonces
    IN  /\ req[r].at = "arrived"
        /\ req' = [req EXCEPT ![r].at = IF refused THEN "refused" ELSE "checked"]
        /\ overlap' = IF refused \/ Carry(key) = {} THEN overlap ELSE overlap \cup {key}
        /\ UNCHANGED <<auth, usedNonces, transfer, chainVars, payments, epoch>>

\* Mutant of storeNonce: the nonce is not remembered.
storeNothing(r) ==
    /\ req[r].at = "checked"
    /\ IF auth[hexToBytes32(req[r].key)].byPayer
       THEN /\ req' = [req EXCEPT ![r].at = "stored"]
            /\ transfer' = [transfer EXCEPT ![r].at = "started"]
       ELSE /\ req' = [req EXCEPT ![r].at = "refused"]
            /\ UNCHANGED transfer
    /\ UNCHANGED <<auth, usedNonces, overlap, chainVars, payments, epoch>>

\* Mutant of storeNonce: the transfer is started before the signature is verified.
storeAndVerify(r) ==
    LET key == req[r].key
    IN  /\ req[r].at = "checked"
        /\ transfer' = [transfer EXCEPT ![r].at = "started"]
        /\ IF auth[hexToBytes32(key)].byPayer
           THEN /\ req' = [req EXCEPT ![r].at = "stored"]
                /\ usedNonces' = usedNonces \cup {key}
           ELSE /\ req' = [req EXCEPT ![r].at = "refused"]
                /\ UNCHANGED usedNonces
        /\ UNCHANGED <<auth, overlap, chainVars, payments, epoch>>

\* The signature over the bytes is verified; the nonce, as it is written, is
\* stored, and the transfer is started.
storeNonce(r) ==
    LET key == req[r].key
    IN  /\ req[r].at = "checked"
        /\ IF auth[hexToBytes32(key)].byPayer
           THEN /\ req' = [req EXCEPT ![r].at = "stored"]
                /\ usedNonces' = usedNonces \cup {key}
                /\ transfer' = [transfer EXCEPT ![r].at = "started"]
           ELSE /\ req' = [req EXCEPT ![r].at = "refused"]
                /\ UNCHANGED <<usedNonces, transfer>>
        /\ UNCHANGED <<auth, overlap, chainVars, payments, epoch>>

\* The request is let through, and may fail there after it was paid for.
serveHTTP(r, ok) ==
    /\ req[r].at = "stored"
    /\ req' = [req EXCEPT ![r].at = IF ok THEN "served" ELSE "failed"]
    /\ UNCHANGED <<auth, usedNonces, overlap, transfer, chainVars, payments, epoch>>

\* The nonces, the requests and the transfers of a server that stops are gone.
restart ==
    /\ epoch < MaxRestarts
    /\ epoch' = epoch + 1
    /\ usedNonces' = {}
    /\ req' = [r \in Req |-> CASE req[r].at \in {"arrived", "checked"} -> [req[r] EXCEPT !.at = "lost"]
                               [] req[r].at = "stored" -> [req[r] EXCEPT !.at = "failed"]
                               [] OTHER -> req[r]]
    /\ transfer' = [x \in Req \cup AttestTx |-> NoTransfer]
    /\ UNCHANGED <<auth, overlap, chainVars, payments>>

-----------------------------------------------------------------------------
(* The transactions of the agent, and the chain. *)

\* A session of the agent is over: its attestation is sent by the same wallet.
attest(x) ==
    /\ transfer[x] = NoTransfer
    /\ transfer' = [transfer EXCEPT ![x].at = "started"]
    /\ UNCHANGED <<auth, gateVars, chainVars, payments, epoch>>

\* Mutant of transactionCount: the count is taken for the last number used.
transactionCountNext == mined + 1

\* eth_getTransactionCount "latest" counts what is mined, not what was sent.
transactionCount == mined

readCount(x) ==
    /\ transfer[x].at = "started"
    /\ transfer' = [transfer EXCEPT ![x] = [at |-> "counted", nonce |-> transactionCount]]
    /\ UNCHANGED <<auth, gateVars, chainVars, payments, epoch>>

\* The node takes a transaction whose number is not taken, and not too low.
Accepts(n) == n >= mined /\ \A t \in mempool : t.nonce # n

\* What a transaction asks the USDC contract for: an attestation nothing.
Charges(x) == IF x \in Req THEN hexToBytes32(req[x].key) ELSE None

sendRawTransaction(x) ==
    LET n == transfer[x].nonce
    IN  /\ transfer[x].at = "counted"
        /\ Accepts(n)
        /\ mempool' = mempool \cup {[nonce |-> n, auth |-> Charges(x)]}
        /\ transfer' = [transfer EXCEPT ![x].at = "sent"]
        /\ UNCHANGED <<auth, gateVars, mined, charged, payments, epoch>>

\* A request to the node fails, or the node refuses the transaction.  It is
\* logged, and not tried again.
transferFails(x) ==
    /\ transfer[x].at \in {"started", "counted"}
    /\ transfer' = [transfer EXCEPT ![x].at = "failed"]
    /\ UNCHANGED <<auth, gateVars, chainVars, payments, epoch>>

\* The payment is recorded as confirmed once it is sent; an error is ignored.
savePayment(r, ok) ==
    /\ transfer[r].at = "sent"
    /\ transfer' = [transfer EXCEPT ![r].at = "over"]
    /\ payments' = IF ok THEN payments \cup {r} ELSE payments
    /\ UNCHANGED <<auth, gateVars, chainVars, epoch>>

\* A block takes the agent's next transaction.  The USDC contract moves the
\* amount of an authorization once, in time, if the payer has it.
mine(t, funds) ==
    /\ t \in mempool /\ t.nonce = mined
    /\ mempool' = mempool \ {t}
    /\ mined' = mined + 1
    /\ charged' = IF t.auth # None /\ funds /\ ~auth[t.auth].expired
                  THEN charged \cup {t.auth} ELSE charged
    /\ UNCHANGED <<auth, gateVars, transfer, payments, epoch>>

-----------------------------------------------------------------------------
PaymentNext ==
    \/ restart
    \/ \E a \in Auth : expire(a) \/ \E same \in BOOLEAN : signTransfer(a, same)
    \/ \E r \in Req :
          \/ loadNonce(r) \/ storeNonce(r)
          \/ \E key \in NonceKey : deliver(r, key)
          \/ \E ok \in BOOLEAN : serveHTTP(r, ok) \/ savePayment(r, ok)
    \/ \E x \in AttestTx : attest(x)
    \/ \E x \in Req \cup AttestTx :
          readCount(x) \/ sendRawTransaction(x) \/ transferFails(x)
    \/ \E t \in mempool, funds \in BOOLEAN : mine(t, funds)

PaymentSpec == PaymentInit /\ [][PaymentNext]_paymentVars

-----------------------------------------------------------------------------
(* Properties. *)

\* Every variable holds a value of its type.
PaymentTypeOK ==
    /\ auth \in [Auth -> [signed : BOOLEAN, byPayer : BOOLEAN, expired : BOOLEAN]]
    /\ req \in [Req -> [at : {"none", "arrived", "checked", "stored", "served", "failed",
                              "refused", "lost"},
                        key : NonceKey \cup {None}, epoch : 0 .. MaxRestarts]]
    /\ usedNonces \subseteq NonceKey /\ overlap \subseteq NonceKey /\ charged \subseteq Auth
    /\ transfer \in [Req \cup AttestTx ->
                       [at : {"none", "started", "counted", "sent", "failed", "over"},
                        nonce : Nat]]
    /\ mempool \subseteq [nonce : Nat, auth : Auth \cup {None}]
    /\ mined \in Nat /\ epoch \in 0 .. MaxRestarts
    /\ payments \subseteq Req

Passed(r) == req[r].at \in {"stored", "served", "failed"}

\* One written nonce lets one request through, however often and in whatever
\* order it is delivered, unless the server was restarted in between or both had
\* looked the nonce up before either stored it.  An authorization whose nonce is
\* written in another way is another one to the gate.
PaidOnce ==
    \A r, s \in Req :
        Passed(r) /\ Passed(s) /\ req[r].key = req[s].key /\ req[r].epoch = req[s].epoch =>
            r = s \/ req[r].key \in overlap

\* Nobody is charged for nothing: an authorization that the chain has used up let
\* a request through, though the block comes long after, the server may have been
\* restarted since, and the transfer was started beside the request.
ChargedPassed ==
    \A a \in charged : \E r \in Req : Passed(r) /\ hexToBytes32(req[r].key) = a

\* A transaction that was sent can be mined, at once or after others that were
\* sent: the agent's transfers and attestations never wait behind a number whose
\* transaction was lost with a server, refused, or never sent.
SentCanBeMined ==
    \A t \in mempool : \A n \in mined .. t.nonce : \E u \in mempool : u.nonce = n

=============================================================================
