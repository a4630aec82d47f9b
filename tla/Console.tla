-------------------------------- MODULE Console --------------------------------
(***************************************************************************)
(* The pages of the console that list things: one is open at a time, loads *)
(* its lists when it is opened and when the account changes, and puts each *)
(* answer in its state as it comes.  A list is known by whose it is; the   *)
(* secrets, which the page also adds and deletes, by what is in it.  The   *)
(* answers to a page that was left change nothing.                         *)
(***************************************************************************)
EXTENDS Naturals, Sequences, SequencesExt

CONSTANTS
    Team,               \* accounts: a wallet and its team
    Sessions(_),        \* the sessions of a team, newest first
    Secret,
    MaxPending,         \* bound on the requests of a page in flight
    None

\* No account is a set of secrets: a list that was read is known from one that
\* was not.
ASSUME ConsoleAssumptions == \A t \in Team \cup {None}, S \in SUBSET Secret : t # S

VARIABLES
    isAuthenticated,
    wallet,             \* the wallet that is stored, or None
    teamId,             \* the account, or None; it follows the wallet late
    page,               \* the page that is open
    shown,              \* List -> whose list is shown, or None if it is empty
    loading,
    error,
    sessionFilter,      \* the session whose log the audit page shows, or None
    pending,            \* the requests of the page in flight, in the order sent
    stored,             \* Team -> the secrets the server holds
    edits,              \* the changes to them that are in flight
    upset               \* history: since the page was opened a request failed, an
                        \* answer overtook another, or the wallet or the secrets changed
                        \* under one

accountVars == <<isAuthenticated, wallet, teamId>>
pageVars == <<page, shown, loading, error, sessionFilter, pending, upset>>
vars == <<accountVars, pageVars, stored, edits>>

Page == {"signin", "home", "sessions", "attestations", "provider", "audit", "payments", "secrets",
         "verify", "plan"}
List == {"containers", "sessions", "attestations", "active", "payments", "secrets", "row", "log"}
Op == {"add", "delete"}

-----------------------------------------------------------------------------
(* What the effects of a page ask for, and when it shows a spinner. *)

HomeLists == <<"containers", "sessions">>
SessionsLists == <<"sessions">>
AttestationsLists == <<"attestations">>
ProviderLists == <<"sessions">>
AuditLists == <<"sessions">>
PaymentsLists == <<"payments">>
SecretsLists == <<"secrets">>

\* The page asks for the row and the log of a session, and waits for both, or for
\* the first failure: the two requests are one here.
VerifyLists == <<"row">>
PlanLists == <<"row">>

\* The lists loaded for the team, when the page is opened and when the team
\* changes.
TeamLists(p) ==
    CASE p = "home" -> HomeLists [] p = "sessions" -> SessionsLists
      [] p = "attestations" -> AttestationsLists [] p = "provider" -> ProviderLists
      [] p = "audit" -> AuditLists [] OTHER -> <<>>

\* The lists loaded once, when the page is opened, for whoever is stored then.
MountLists(p) ==
    CASE p = "payments" -> PaymentsLists [] p = "secrets" -> SecretsLists
      [] p = "verify" -> VerifyLists [] p = "plan" -> PlanLists [] OTHER -> <<>>

Request(l, of) == [list |-> l, of |-> of]

\* The effect on the team.  The overview of the providers asks for the active
\* ones with or without one.
TeamRequests(p, t) ==
    (IF t = None THEN <<>> ELSE [i \in DOMAIN TeamLists(p) |-> Request(TeamLists(p)[i], t)])
    \o (IF p = "provider" THEN <<Request("active", None)>> ELSE <<>>)

MountRequests(p) ==
    [i \in DOMAIN MountLists(p) |->
        Request(MountLists(p)[i], wallet)]

\* Without a team the spinner goes off; with one only the home page puts it on.
Spins(p, t, before) ==
    CASE p = "home" -> before \/ t # None
      [] p \in {"sessions", "attestations", "provider"} -> before /\ t # None
      [] OTHER -> before

\* The list whose answer puts the spinner off.
Awaited(p) ==
    CASE p = "home" -> "containers" [] p = "audit" -> "log" [] p = "attestations" -> p
      [] p \in {"sessions", "provider"} -> "sessions"
      [] p \in {"payments", "secrets"} -> p
      [] OTHER -> "row"

-----------------------------------------------------------------------------
(* What a page shows of its lists. *)

HomeShows == IF isAuthenticated THEN {"containers", "sessions"} ELSE {}
SessionsShows == IF loading \/ error THEN {} ELSE {"sessions"}
AttestationsShows == {"attestations"}
ProviderShows == {"sessions"}
AuditShows == {"sessions", "log"}
PaymentsShows == {"payments"}
SecretsShows == {"secrets"}
VerifyShows == IF loading \/ error THEN {} ELSE {"row"}
PlanShows == IF loading \/ (error /\ shown["row"] = None) THEN {} ELSE {"row"}

Shows ==
    CASE page = "home" -> HomeShows [] page = "sessions" -> SessionsShows
      [] page = "attestations" -> AttestationsShows [] page = "provider" -> ProviderShows
      [] page = "audit" -> AuditShows [] page = "payments" -> PaymentsShows
      [] page = "secrets" -> SecretsShows [] page = "verify" -> VerifyShows
      [] page = "plan" -> PlanShows [] OTHER -> {}

-----------------------------------------------------------------------------
(* Opening pages, and the account. *)

Mount(p, t) ==
    /\ page' = p
    /\ shown' = [l \in List |-> None]
    /\ loading' = Spins(p, t, p \notin {"home", "audit", "signin"})
    /\ error' = FALSE
    /\ sessionFilter' = None
    /\ pending' = TeamRequests(p, t) \o MountRequests(p)
    /\ upset' = FALSE
    /\ edits' = {[e EXCEPT !.here = FALSE] : e \in {d \in edits : d.at = "sent"}}

Init ==
    /\ isAuthenticated = FALSE
    /\ wallet = None
    /\ teamId = None
    /\ page = "signin"
    /\ shown = [l \in List |-> None]
    /\ loading = FALSE
    /\ error = FALSE
    /\ sessionFilter = None
    /\ pending = <<>>
    /\ stored = [t \in Team |-> {}]
    /\ edits = {}
    /\ upset = FALSE

\* The side bar.  The home page sends a user who is not signed in away.
open(p) ==
    /\ p # "signin" /\ p # page
    /\ Mount(IF p = "home" /\ ~isAuthenticated THEN "signin" ELSE p, teamId)
    /\ UNCHANGED <<accountVars, stored>>

\* The secrets and the payments on a page are those of the wallet it was opened
\* with, and stay when another is stored.
UpsetBy(w) == upset \/ (page \in {"secrets", "payments"} /\ w # wallet)

\* The sign-in page goes on to the home page; the account comes later.
signIn(w) ==
    /\ ~isAuthenticated
    /\ isAuthenticated' = TRUE
    /\ wallet' = w
    /\ IF page = "signin" THEN Mount("home", teamId)
       ELSE upset' = UpsetBy(w) /\ UNCHANGED <<page, shown, loading, error, sessionFilter, pending, edits>>
    /\ UNCHANGED <<teamId, stored>>

\* Another wallet is connected, and stored when its sign-in starts.
switchWallet(w) ==
    /\ isAuthenticated /\ w # wallet
    /\ wallet' = w
    /\ upset' = UpsetBy(w)
    /\ UNCHANGED <<isAuthenticated, teamId, page, shown, loading, error, sessionFilter, pending,
                   stored, edits>>

\* The token expires, or the wallet is disconnected: wallet and account stay.
expire ==
    /\ isAuthenticated
    /\ isAuthenticated' = FALSE
    /\ IF page = "home" THEN Mount("signin", teamId) ELSE UNCHANGED <<pageVars, edits>>
    /\ UNCHANGED <<wallet, teamId, stored>>

\* Mutant of Follow: the effect depends on nothing, and runs once.
FollowNot(t) ==
    /\ teamId' = t
    /\ UNCHANGED <<loading, pending>>

\* The effect of a page that stays open on another account, or none.
Follow(t) ==
    /\ teamId' = t
    /\ loading' = Spins(page, t, loading)
    /\ pending' = pending \o TeamRequests(page, t)

\* The account of the wallet that signed in, or of an earlier one.
setTeam(t) ==
    /\ isAuthenticated /\ t # teamId
    /\ Follow(t)
    /\ Len(pending') <= MaxPending
    /\ UNCHANGED <<isAuthenticated, wallet, page, shown, error, sessionFilter, upset, stored, edits>>

logout ==
    /\ isAuthenticated
    /\ isAuthenticated' = FALSE
    /\ wallet' = None
    /\ IF page = "home"
       THEN Mount("signin", None) /\ teamId' = None
       ELSE /\ IF teamId = None THEN UNCHANGED <<teamId, loading, pending>> ELSE Follow(None)
            /\ upset' = UpsetBy(None)
            /\ UNCHANGED <<page, shown, error, sessionFilter, edits>>
    /\ Len(pending') <= MaxPending
    /\ UNCHANGED stored

-----------------------------------------------------------------------------
(* Answers.  A request is answered, refused, or lost. *)

\* The lists shown after an answer: a refusal empties most, a loss leaves most.
Shown(r, how) ==
    CASE how = "ok" -> [shown EXCEPT ![r.list] = r.of]
      [] how # "ok" /\ r.list = "log" -> [shown EXCEPT !["log"] = None]
      [] how = "refused" /\ page \notin {"sessions", "audit"} /\ r.list \notin {"row", "active"} ->
            [shown EXCEPT ![r.list] = None]
      [] OTHER -> shown

\* The audit page selects the first session of the list that came, and so loads
\* its log; a team without one leaves the list and the selection as they are.
selectFirst(t, rest) ==
    LET first == Sessions(t)[1]
    IN  IF Sessions(t) = <<>>
        THEN UNCHANGED <<shown, sessionFilter, loading>> /\ pending' = rest
        ELSE /\ shown' = Shown(Request("sessions", t), "ok")
             /\ sessionFilter' = first
             /\ loading' = (loading \/ sessionFilter # first)
             /\ pending' = IF sessionFilter = first THEN rest
                           ELSE Append(rest, Request("log", first))

\* A list of secrets that the server has not read yet, for the wallet it names.
Unread(r) == r.list = "secrets" /\ r.of \in Team \cup {None}

\* Mutant of answer: without the finally clause the spinner waits for success.
answerThen(i, how) ==
    LET r == pending[i]
        rest == RemoveAt(pending, i)
    IN  /\ how = "ok" => ~Unread(r)
        /\ upset' = (upset \/ how # "ok" \/ \E j \in 1 .. i - 1 : pending[j].list = r.list)
        /\ IF page = "audit" /\ r.list = "sessions" /\ how = "ok"
           THEN selectFirst(r.of, rest)
           ELSE /\ shown' = Shown(r, how)
                /\ loading' = (loading /\ (how # "ok" \/ r.list # Awaited(page)))
                /\ pending' = rest
                /\ UNCHANGED sessionFilter
        /\ UNCHANGED <<accountVars, page, error, stored, edits>>

answer(i, how) ==
    LET r == pending[i]
        rest == RemoveAt(pending, i)
    IN  /\ how = "ok" => ~Unread(r)
        /\ upset' = (upset \/ how # "ok" \/ \E j \in 1 .. i - 1 : pending[j].list = r.list)
        /\ IF page = "audit" /\ r.list = "sessions"
           THEN /\ IF how = "ok" THEN selectFirst(r.of, rest)
                   ELSE UNCHANGED <<shown, sessionFilter, loading>> /\ pending' = rest
                /\ UNCHANGED error
           ELSE /\ shown' = Shown(r, how)
                /\ loading' = (loading /\ r.list # Awaited(page))
                /\ error' = (error \/ (how # "ok" /\ page \in {"sessions", "verify", "plan"}))
                /\ pending' = rest
                /\ UNCHANGED sessionFilter
        /\ UNCHANGED <<accountVars, page, stored, edits>>

\* The menu of the audit page.
selectSession(s) ==
    /\ page = "audit" /\ s # sessionFilter
    /\ shown["sessions"] # None /\ s \in ToSet(Sessions(shown["sessions"])) \cup {None}
    /\ sessionFilter' = s
    /\ IF s = None
       THEN shown' = [shown EXCEPT !["log"] = None] /\ UNCHANGED <<loading, pending>>
       ELSE /\ Len(pending) < MaxPending
            /\ loading' = TRUE
            /\ pending' = Append(pending, Request("log", s))
            /\ UNCHANGED shown
    /\ upset' = (upset \/ (s = None /\ \E i \in DOMAIN pending : pending[i].list = "log"))
    /\ UNCHANGED <<accountVars, page, error, stored, edits>>

-----------------------------------------------------------------------------
(* The secrets. *)

\* GET /secrets reads the rows of the wallet, if it is given one.
listSecrets(i) ==
    /\ Unread(pending[i]) /\ pending[i].of # None
    /\ pending' = [pending EXCEPT ![i].of = stored[@]]
    /\ UNCHANGED <<accountVars, page, shown, loading, error, sessionFilter, upset, stored, edits>>

Listed == IF shown["secrets"] = None THEN {} ELSE shown["secrets"]

\* One secret is saved at a time; a delete has no such guard, but here one edit
\* of a secret is in flight at a time.
handle(op, s) ==
    /\ page = "secrets"
    /\ op = "add" => \A e \in edits : e.here => e.op # "add"
    /\ op = "delete" => s \in Listed
    /\ \A e \in edits : e.secret # s
    /\ edits' = edits \cup {[op |-> op, secret |-> s, by |-> wallet, here |-> TRUE, at |-> "sent"]}
    /\ UNCHANGED <<accountVars, pageVars, stored>>

\* The server adds or deletes the row, or refuses; the answer to a page that was
\* left changes nothing.
apply(e, ok) ==
    /\ e.at = "sent"
    /\ ok => e.by # None
    /\ edits' = (edits \ {e}) \cup
          IF e.here THEN {[e EXCEPT !.at = IF ok THEN "done" ELSE "refused"]} ELSE {}
    /\ stored' = IF ~ok THEN stored
                 ELSE [stored EXCEPT ![e.by] =
                         IF e.op = "add" THEN @ \cup {e.secret} ELSE @ \ {e.secret}]
    /\ upset' = (upset \/ ~ok \/ ~e.here \/
                    \E i \in DOMAIN pending : pending[i].list = "secrets" /\ ~Unread(pending[i]))
    /\ UNCHANGED <<accountVars, page, shown, loading, error, sessionFilter, pending>>

\* Mutant of edited: the list is not loaded again when a secret was saved.
editedSilently(e, lost) ==
    /\ e.at # "sent"
    /\ edits' = edits \ {e}
    /\ shown' = IF ~lost /\ e.op = "delete"
                THEN [shown EXCEPT !["secrets"] = Listed \ {e.secret}] ELSE shown
    /\ upset' = (upset \/ lost)
    /\ UNCHANGED <<accountVars, page, loading, error, sessionFilter, pending, stored>>

\* A secret that was saved loads the list again; one that was deleted is taken
\* out of the list, refused or not, unless the answer is lost.
edited(e, lost) ==
    /\ e.at # "sent"
    /\ edits' = edits \ {e}
    /\ IF ~lost
       THEN \/ /\ e.op = "add"
               /\ pending' = IF e.at = "done" THEN Append(pending, Request("secrets", wallet))
                             ELSE pending
               /\ Len(pending') <= MaxPending
               /\ UNCHANGED shown
            \/ /\ e.op = "delete"
               /\ shown' = [shown EXCEPT !["secrets"] = Listed \ {e.secret}]
               /\ UNCHANGED pending
       ELSE UNCHANGED <<pending, shown>>
    /\ upset' = (upset \/ lost)
    /\ UNCHANGED <<accountVars, page, loading, error, sessionFilter, stored>>

-----------------------------------------------------------------------------
Answer == \E i \in DOMAIN pending, how \in {"ok", "refused", "lost"} : answer(i, how)

Next ==
    \/ expire \/ logout
    \/ \E w \in Team : signIn(w) \/ switchWallet(w)
    \/ \E p \in Page : open(p)
    \/ \E t \in Team : setTeam(t) \/ \E s \in ToSet(Sessions(t)) \cup {None} : selectSession(s)
    \/ Answer
    \/ \E i \in DOMAIN pending : listSecrets(i)
    \/ \E op \in Op, s \in Secret : handle(op, s)
    \/ \E e \in edits : \E b \in BOOLEAN : apply(e, b) \/ edited(e, b)

Spec == Init /\ [][Next]_vars

\* Every request is served, and answered or lost.
FairSpec ==
    /\ Spec
    /\ WF_vars(\E how \in {"ok", "refused", "lost"} : pending # <<>> /\ answer(1, how))

-----------------------------------------------------------------------------
(* Properties. *)

\* Every variable holds a value of its type.
TypeOK ==
    /\ isAuthenticated \in BOOLEAN /\ {wallet, teamId} \subseteq Team \cup {None}
    /\ page \in Page /\ DOMAIN shown = List
    /\ loading \in BOOLEAN /\ error \in BOOLEAN /\ upset \in BOOLEAN
    /\ Len(pending) <= MaxPending
    /\ stored \in [Team -> SUBSET Secret]
    /\ edits \subseteq [op : Op, secret : Secret, by : Team \cup {None}, here : BOOLEAN,
                        at : {"sent", "done", "refused"}]

\* The list is the account's.  The menu of the audit page keeps the sessions of
\* an earlier account when this one has none.
IsCurrent(l) == shown[l] = teamId \/ (page = "audit" /\ Sessions(teamId) = <<>>)

\* When every request of a page is answered, the lists it shows of a team are
\* those of the account that is signed in, but for the menu of the audit page
\* (IsCurrent); the log is that of the session selected; and the payments are
\* those of the wallet.  So it is however often account and selection changed
\* while answers were on their way, unless an answer failed or overtook another,
\* or the wallet was changed on the page of the payments, which loads them once.
QuietPageIsCurrent ==
    pending = <<>> /\ ~upset =>
        /\ teamId # None =>
              \A l \in Shows \cap {"containers", "sessions", "attestations"} : IsCurrent(l)
        /\ "log" \in Shows => shown["log"] = sessionFilter
        /\ "payments" \in Shows => shown["payments"] = wallet

\* When nothing is in flight, the secrets shown are those the server holds for the
\* wallet, though the page takes a deleted one out by itself; unless a request
\* failed, the wallet was changed, or the secrets changed while a list of them was
\* on its way.
SecretsListed ==
    page = "secrets" /\ pending = <<>> /\ edits = {} /\ ~upset => Listed = stored[wallet]

\* The spinner turns for an answer that is on its way, and never for one that has
\* come or was never asked for: a page asks before it spins, keeps the request
\* when another answer comes first, and spins no longer than for the first answer,
\* a refusal included.
SpinnerWaits == loading => \E i \in DOMAIN pending : pending[i].list = Awaited(page)

\* A page that loads stops loading, whichever of its answers comes first and
\* whether or not it is the last one asked for.
SpinnerEnds == loading ~> ~loading

=============================================================================
