----------------------------- MODULE WalletSignIn -----------------------------
(***************************************************************************)
(* Signing in with a wallet: the provider that every page of the console   *)
(* shares, what it keeps in the browser's storage, and the nonces of the   *)
(* server.  The wallet may be connected, switched and disconnected, and    *)
(* the page reloaded, while a sign-in waits for an answer or for the user. *)
(*                                                                         *)
(* A wallet stands for its address, its account (team) and its name.  A    *)
(* sign-in is its own nonce: the server draws them at random.              *)
(***************************************************************************)
EXTENDS Naturals, FiniteSets, Absent

CONSTANTS
    Wallet,
    SignIn              \* identities of sign-ins, of which one is live in a page

VARIABLES
    address,            \* the wallet connected, or None
    store,              \* localStorage: the JWT and the wallet
    token,              \* the token the provider holds, or None
    teamId,             \* the account held, and stored, or None
    autoAuthTriggeredFor,
    authInFlight,
    signIn,             \* SignIn -> where authenticate is, or Free
    fetching,           \* the wallets whose account is on its way, but for a sign-in
    nonces,             \* Wallet -> the sign-in whose nonce the server holds for it, or None
    signed              \* history: the wallets that have signed since the last logout

browserVars == <<address, store>>
heldVars == <<token, teamId>>
authVars == <<autoAuthTriggeredFor, authInFlight, signIn>>
signInVars == <<browserVars, heldVars, authVars, fetching, nonces, signed>>

Token == [wallet : Wallet, valid : BOOLEAN]
Free == [at |-> "free", address |-> None, signer |-> None, live |-> FALSE]
ASSUME SignInAssumptions ==
    /\ None \notin Wallet
    /\ None \notin SignIn
    /\ None \notin Token

isTokenValid(t) == t # None /\ t.valid
isAuthenticated == isTokenValid(token)

SignInInit ==
    /\ address = None
    /\ store = [jwt |-> None, wallet |-> None]
    /\ token = None
    /\ teamId = None
    /\ autoAuthTriggeredFor = None
    /\ authInFlight = FALSE
    /\ signIn = [f \in SignIn |-> Free]
    /\ fetching = {}
    /\ nonces = [w \in Wallet |-> None]
    /\ signed = {}

-----------------------------------------------------------------------------
(* authenticate, from its start to its finally clause. *)

\* The flag goes up and the wallet is stored before the try block begins: the
\* storage is taken to accept what is written.
start(w) ==
    IF authInFlight
    THEN UNCHANGED <<authInFlight, signIn, store>>
    ELSE /\ \E f \in SignIn :
               /\ signIn[f] = Free
               /\ signIn' = [signIn EXCEPT ![f] =
                     [at |-> "nonce", address |-> w, signer |-> None, live |-> TRUE]]
         /\ authInFlight' = TRUE
         /\ store' = [store EXCEPT !.wallet = w]

\* The button of the header and of the sign-in page.
SignInButton == address # None /\ ~isAuthenticated /\ ~authInFlight

authenticate ==
    /\ SignInButton
    /\ start(address)
    /\ UNCHANGED <<address, heldVars, autoAuthTriggeredFor, fetching, nonces, signed>>

\* The clean-up of a sign-in, however it ends; a request that the server still
\* works on outlives it.
finish(f) ==
    /\ authInFlight' = FALSE
    /\ signIn' = [signIn EXCEPT ![f] =
          IF @.at \in {"verify", "checked"} THEN [@ EXCEPT !.live = FALSE] ELSE Free]

\* POST /auth/nonce replaces the nonce of the address.  Its answer asks the
\* account that is connected by then for a signature; without one, that throws.
issueNonce(f) ==
    /\ signIn[f].at = "nonce"
    /\ nonces' = [nonces EXCEPT ![signIn[f].address] = f]
    /\ IF address = None
       THEN finish(f)
       ELSE /\ signIn' = [signIn EXCEPT ![f] = [@ EXCEPT !.at = "prompt", !.signer = address]]
            /\ UNCHANGED authInFlight
    /\ UNCHANGED <<browserVars, heldVars, autoAuthTriggeredFor, fetching, signed>>

\* The user signs with the account she was asked for, whichever is connected now.
sign(f) ==
    /\ signIn[f].at = "prompt"
    /\ signIn' = [signIn EXCEPT ![f].at = "verify"]
    /\ signed' = signed \cup {signIn[f].signer}
    /\ UNCHANGED <<browserVars, heldVars, autoAuthTriggeredFor, authInFlight, fetching,
                   nonces>>

\* The user rejects, or a request or its answer is lost.
signInFails(f) ==
    /\ signIn[f].live /\ signIn[f].at # "account"
    /\ finish(f)
    /\ UNCHANGED <<browserVars, heldVars, autoAuthTriggeredFor, fetching, nonces, signed>>

\* Mutant of verifySignature: the signer is not compared with the address.
verifyNonceOnly(f) ==
    /\ signIn[f].at = "verify"
    /\ IF nonces[signIn[f].address] = f
       THEN /\ signIn' = [signIn EXCEPT ![f].at = "checked"]
            /\ UNCHANGED authInFlight
       ELSE /\ signIn' = [signIn EXCEPT ![f] = Free]
            /\ authInFlight' = (authInFlight /\ ~signIn[f].live)
    /\ UNCHANGED <<browserVars, heldVars, autoAuthTriggeredFor, fetching, nonces, signed>>

\* Mutant of verifySignature: a sign-in that is refused does not reset the flag.
verifyNoFinally(f) ==
    LET w == signIn[f].address
    IN  /\ signIn[f].at = "verify"
        /\ signIn' = [signIn EXCEPT ![f] = IF nonces[w] = f /\ @.signer = w
                                          THEN [@ EXCEPT !.at = "checked"] ELSE Free]
        /\ UNCHANGED <<browserVars, heldVars, autoAuthTriggeredFor, authInFlight, fetching,
                       nonces, signed>>

\* POST /auth/verify reads the nonce of the address under the lock, and recovers
\* the signer from the signature.
verifySignature(f) ==
    LET w == signIn[f].address
        refused == nonces[w] # f \/ signIn[f].signer # w
    IN  /\ signIn[f].at = "verify"
        /\ IF ~refused
           THEN /\ signIn' = [signIn EXCEPT ![f].at = "checked"]
                /\ UNCHANGED authInFlight
           ELSE /\ signIn' = [signIn EXCEPT ![f] = Free]
                /\ authInFlight' = (authInFlight /\ ~signIn[f].live)
        /\ UNCHANGED <<browserVars, heldVars, autoAuthTriggeredFor, fetching, nonces, signed>>

\* The nonce of the address is deleted, the one that was read or a newer one;
\* the answer carries the token.
consumeNonce(f) ==
    LET w == signIn[f].address
        t == [wallet |-> w, valid |-> TRUE]
    IN  /\ signIn[f].at = "checked"
        /\ nonces' = [nonces EXCEPT ![w] = None]
        /\ IF signIn[f].live
           THEN /\ store' = [store EXCEPT !.jwt = t, !.wallet = w]
                /\ token' = t
                /\ signIn' = [signIn EXCEPT ![f] = [@ EXCEPT !.at = "account", !.signer = None]]
           ELSE /\ signIn' = [signIn EXCEPT ![f] = Free]
                /\ UNCHANGED <<store, token>>
        /\ UNCHANGED <<address, teamId, autoAuthTriggeredFor, authInFlight, fetching, signed>>

\* The account of a token's wallet, kept whoever is signed in by now.
setTeam(w) == teamId' = w

\* An account that cannot be fetched is not an error.
fetchAccount(f, ok) ==
    /\ signIn[f].at = "account"
    /\ IF ok THEN setTeam(signIn[f].address) ELSE UNCHANGED teamId
    /\ finish(f)
    /\ UNCHANGED <<browserVars, token, autoAuthTriggeredFor, fetching, nonces, signed>>

-----------------------------------------------------------------------------
(* The wallet, and the effects that follow it. *)

\* The effect on a wallet that is connected or switched to: a token stored for
\* this wallet is taken over, else the user is asked to sign, once per address.
autoAuthenticate(w) ==
    IF store.wallet # w \/ ~isTokenValid(store.jwt)
    THEN /\ autoAuthTriggeredFor' = w
         /\ IF autoAuthTriggeredFor # w THEN start(w)
            ELSE UNCHANGED <<authInFlight, signIn, store>>
         /\ UNCHANGED <<token, fetching>>
    ELSE /\ token' = IF token = None THEN store.jwt ELSE token
         /\ fetching' = IF token = None /\ teamId = None
                        THEN fetching \cup {store.jwt.wallet} ELSE fetching
         /\ UNCHANGED <<autoAuthTriggeredFor, authInFlight, signIn, store>>

connect(w) ==
    /\ address # w
    /\ address' = w
    /\ autoAuthenticate(w)
    /\ UNCHANGED <<teamId, nonces, signed>>

disconnectWallet ==
    /\ address # None
    /\ address' = None
    /\ autoAuthTriggeredFor' = None
    /\ token' = None
    /\ UNCHANGED <<store, teamId, authInFlight, signIn, fetching, nonces, signed>>

\* The page is loaded again: the wallet is connected again later, and until then
\* the effects drop the token that was stored.
reload ==
    /\ address' = None
    /\ token' = None
    /\ autoAuthTriggeredFor' = None
    /\ authInFlight' = FALSE
    /\ signIn' = [f \in SignIn |->
          IF signIn[f].at \in {"verify", "checked"} THEN [signIn[f] EXCEPT !.live = FALSE]
          ELSE Free]
    /\ fetching' = {}
    /\ UNCHANGED <<store, teamId, nonces, signed>>

\* Mutant of logout: the provider forgets to drop the token it holds.
logoutStorage ==
    /\ isAuthenticated /\ address # None
    /\ store' = [jwt |-> None, wallet |-> None]
    /\ teamId' = None
    /\ autoAuthTriggeredFor' = None
    /\ signed' = {signIn[f].signer : f \in {g \in SignIn : signIn[g].at \in {"verify", "checked"}}}
    /\ UNCHANGED <<address, token, authInFlight, signIn, fetching, nonces>>

\* The sign-out button of the side bar.  A sign-in in flight goes on.
logout ==
    /\ isAuthenticated /\ address # None
    /\ store' = [jwt |-> None, wallet |-> None]
    /\ token' = None
    /\ teamId' = None
    /\ autoAuthTriggeredFor' = None
    /\ signed' = {signIn[f].signer : f \in {g \in SignIn : signIn[g].at \in {"verify", "checked"}}}
    /\ UNCHANGED <<address, authInFlight, signIn, fetching, nonces>>

\* The expiry of the tokens issued so far passes.
expireToken ==
    /\ store.jwt # None /\ store.jwt.valid
    /\ store' = [store EXCEPT !.jwt.valid = FALSE]
    /\ token' = IF token = None THEN None ELSE [token EXCEPT !.valid = FALSE]
    /\ UNCHANGED <<address, teamId, authVars, fetching, nonces, signed>>

\* The onboarding page names the account of the wallet that is stored.
handleSave ==
    /\ isAuthenticated /\ store.wallet # None
    /\ fetching' = fetching \cup {store.wallet}
    /\ UNCHANGED <<browserVars, heldVars, authVars, nonces, signed>>

\* The account of a token that was taken over, or the one that was named.
fetched(w, ok) ==
    /\ w \in fetching
    /\ fetching' = fetching \ {w}
    /\ IF ok THEN setTeam(w) ELSE UNCHANGED teamId
    /\ UNCHANGED <<browserVars, token, authVars, nonces, signed>>

-----------------------------------------------------------------------------
(* The nonces of the server, changed by others than this page. *)

\* The nonce of an address expires, is cleaned up, is lost when the server is
\* restarted, or is replaced when another device asks for one.
loseNonce(w) ==
    /\ nonces[w] # None
    /\ nonces' = [nonces EXCEPT ![w] = None]
    /\ UNCHANGED <<browserVars, heldVars, authVars, fetching, signed>>

-----------------------------------------------------------------------------
Respond(f) ==
    \/ issueNonce(f) \/ verifySignature(f) \/ consumeNonce(f)
    \/ \E ok \in BOOLEAN : fetchAccount(f, ok)

SignInNext ==
    \/ authenticate \/ disconnectWallet \/ reload \/ logout \/ expireToken \/ handleSave
    \/ \E f \in SignIn : sign(f) \/ signInFails(f) \/ Respond(f)
    \/ \E w \in Wallet : connect(w) \/ loseNonce(w) \/ \E ok \in BOOLEAN : fetched(w, ok)

SignInSpec == SignInInit /\ [][SignInNext]_signInVars

\* Every request is answered or fails; nothing is assumed of the user.
SignInFairSpec == SignInSpec /\ \A f \in SignIn : WF_signInVars(Respond(f))

-----------------------------------------------------------------------------
(* Properties. *)

\* Every variable holds a value of its type.
SignInTypeOK ==
    /\ address \in Wallet \cup {None}
    /\ store \in [jwt : Token \cup {None}, wallet : Wallet \cup {None}]
    /\ token \in Token \cup {None}
    /\ teamId \in Wallet \cup {None}
    /\ autoAuthTriggeredFor \in Wallet \cup {None}
    /\ authInFlight \in BOOLEAN
    /\ signIn \in [SignIn -> [at : {"free", "nonce", "prompt", "verify", "checked", "account"},
                              address : Wallet \cup {None}, signer : Wallet \cup {None},
                              live : BOOLEAN]]
    /\ fetching \subseteq Wallet
    /\ nonces \in [Wallet -> SignIn \cup {None}]
    /\ signed \subseteq Wallet

\* A token is for a wallet that has signed since the last logout, wherever the
\* wallet was switched while the sign-in was in flight, and it does not come
\* back from the storage of a user who has signed out.
TokenIsSigned == \A t \in {token, store.jwt} \ {None} : t.wallet \in signed

\* The token a page holds is the one that is stored: a reload, another wallet or
\* a late answer never leaves the pages with one token and the storage with
\* another.
TokenIsStored == token # None => store.jwt = token

\* The flag that keeps a second sign-in from starting is up exactly while one
\* runs in the page, and one runs at most, whichever clean-up ends it and whatever
\* the server still works on: none is left that blocks the next, or beside which
\* the next may start.
LockIsHeld ==
    /\ authInFlight <=> \E f \in SignIn : signIn[f].live
    /\ \A f, g \in SignIn : signIn[f].live /\ signIn[g].live => f = g

\* A sign-in ends, or waits for the user to answer the wallet.
SignInResolves ==
    authInFlight ~> ~authInFlight \/ \E f \in SignIn : signIn[f].at = "prompt"

=============================================================================
