---------------------------- MODULE ConsoleProofs ----------------------------
(***************************************************************************)
(* Proofs about Console, for any accounts, sessions, secrets and numbers   *)
(* of requests in flight: a page at rest shows the lists of the account    *)
(* and the secrets that the server holds.                                  *)
(***************************************************************************)
EXTENDS Console, SequenceTheorems, TLAPS

-----------------------------------------------------------------------------
(* A page at rest shows the lists of the account. *)

\* The last of the requests s for the list l is for v; without one, b.
Ends(s, l, v, b) ==
    /\ \A i \in DOMAIN s :
          s[i].list = l /\ (\A j \in DOMAIN s : j > i => s[j].list # l) => s[i].of = v
    /\ (\A i \in DOMAIN s : s[i].list # l) => b

LEMMA RemoveElement ==
    ASSUME NEW S, NEW s \in Seq(S), NEW i \in DOMAIN s
    PROVE  /\ RemoveAt(s, i) \in Seq(S)
           /\ DOMAIN RemoveAt(s, i) = 1 .. Len(s) - 1
           /\ \A k \in 1 .. Len(s) - 1 :
                 RemoveAt(s, i)[k] = IF k < i THEN s[k] ELSE s[k + 1]
<1>1. i \in 1 .. Len(s) /\ Len(s) \in Nat
  OBVIOUS
<1>2. RemoveAt(s, i) = SubSeq(s, 1, i - 1) \o SubSeq(s, i + 1, Len(s))
  BY DEF RemoveAt
<1>3. /\ SubSeq(s, 1, i - 1) \in Seq(S) /\ Len(SubSeq(s, 1, i - 1)) = i - 1
      /\ \A k \in 1 .. i - 1 : SubSeq(s, 1, i - 1)[k] = s[k]
  BY <1>1
<1>4. /\ SubSeq(s, i + 1, Len(s)) \in Seq(S) /\ Len(SubSeq(s, i + 1, Len(s))) = Len(s) - i
      /\ \A k \in 1 .. Len(s) - i : SubSeq(s, i + 1, Len(s))[k] = s[i + k]
  BY <1>1
<1> DEFINE a == SubSeq(s, 1, i - 1)
           b == SubSeq(s, i + 1, Len(s))
<1> HIDE DEF a, b
<1>5. /\ a \in Seq(S) /\ b \in Seq(S) /\ Len(a) = i - 1 /\ Len(b) = Len(s) - i
      /\ \A k \in 1 .. i - 1 : a[k] = s[k]
      /\ \A k \in 1 .. Len(s) - i : b[k] = s[i + k]
  BY <1>3, <1>4 DEF a, b
<1>6. /\ a \o b \in Seq(S) /\ Len(a \o b) = Len(s) - 1 /\ DOMAIN (a \o b) = 1 .. Len(s) - 1
      /\ \A k \in 1 .. Len(s) - 1 : (a \o b)[k] = IF k < i THEN a[k] ELSE b[k - i + 1]
  BY <1>1, <1>5
<1>7. \A k \in 1 .. Len(s) - 1 : (a \o b)[k] = IF k < i THEN s[k] ELSE s[k + 1]
  <2> TAKE k \in 1 .. Len(s) - 1
  <2>1. CASE k < i
    BY <1>1, <1>5, <1>6, <2>1
  <2>2. CASE ~(k < i)
    <3>1. k - i + 1 \in 1 .. Len(s) - i /\ i + (k - i + 1) = k + 1
      BY <1>1, <2>2
    <3>2. b[k - i + 1] = s[k + 1]
      BY <1>5, <3>1
    <3>3. QED
      BY <1>6, <2>2, <3>2
  <2>3. QED
    BY <2>1, <2>2
<1>8. QED
  BY <1>2, <1>6, <1>7 DEF a, b

\* The requests q come after s.
LEMMA ConcatEnds ==
    ASSUME NEW S, NEW s \in Seq(S), NEW q \in Seq(S), NEW l, NEW v, NEW b,
           \A i \in DOMAIN q : q[i].list = l => q[i].of = v,
           (\E i \in DOMAIN q : q[i].list = l) \/ Ends(s, l, v, b)
    PROVE  Ends(s \o q, l, v, b)
<1>1. /\ Len(s) \in Nat /\ Len(q) \in Nat /\ DOMAIN s = 1 .. Len(s) /\ DOMAIN q = 1 .. Len(q)
      /\ DOMAIN (s \o q) = 1 .. Len(s) + Len(q)
      /\ \A i \in 1 .. Len(s) : (s \o q)[i] = s[i]
      /\ \A i \in 1 .. Len(q) : (s \o q)[Len(s) + i] = q[i]
  OBVIOUS
<1> DEFINE t == s \o q
<1> HIDE DEF t
<1>2. /\ DOMAIN t = 1 .. Len(s) + Len(q)
      /\ \A i \in 1 .. Len(s) : t[i] = s[i]
      /\ \A i \in 1 .. Len(q) : t[Len(s) + i] = q[i]
  BY <1>1 DEF t
<1>3. ASSUME NEW i \in DOMAIN t, t[i].list = l, \A j \in DOMAIN t : j > i => t[j].list # l
      PROVE  t[i].of = v
  <2>1. CASE i > Len(s)
    <3>1. i - Len(s) \in DOMAIN q /\ t[i] = q[i - Len(s)]
      BY <1>1, <1>2, <2>1
    <3>2. QED
      BY <1>3, <3>1
  <2>2. CASE i <= Len(s)
    <3>1. i \in DOMAIN s /\ t[i] = s[i]
      BY <1>1, <1>2, <2>2
    <3>2. \A k \in DOMAIN q : q[k].list # l
      <4> TAKE k \in DOMAIN q
      <4>1. Len(s) + k \in DOMAIN t /\ Len(s) + k > i /\ t[Len(s) + k] = q[k]
        BY <1>1, <1>2, <2>2
      <4>2. QED
        BY <1>3, <4>1
    <3>3. \A j \in DOMAIN s : j > i => s[j].list # l
      BY <1>1, <1>2, <1>3
    <3>4. QED
      BY <1>3, <3>1, <3>2, <3>3 DEF Ends
  <2>3. QED
    BY <1>1, <1>2, <2>1, <2>2
<1>4. ASSUME \A i \in DOMAIN t : t[i].list # l
      PROVE  b
  <2>1. \A k \in DOMAIN q : q[k].list # l
    <3> TAKE k \in DOMAIN q
    <3>1. Len(s) + k \in DOMAIN t /\ t[Len(s) + k] = q[k]
      BY <1>1, <1>2
    <3>2. QED
      BY <1>4, <3>1
  <2>2. \A i \in DOMAIN s : s[i].list # l
    BY <1>1, <1>2, <1>4
  <2>3. QED
    BY <2>1, <2>2 DEF Ends
<1>5. QED
  BY <1>3, <1>4 DEF Ends, t

\* The first request for its list goes, and its answer takes the place of b.
LEMMA RemoveEnds ==
    ASSUME NEW S, NEW s \in Seq(S), NEW i \in DOMAIN s, NEW l, NEW v, NEW b,
           \A j \in 1 .. i - 1 : s[j].list # s[i].list, Ends(s, l, v, b)
    PROVE  Ends(RemoveAt(s, i), l, v, IF s[i].list = l THEN s[i].of = v ELSE b)
<1> DEFINE t == RemoveAt(s, i)
<1>1. /\ DOMAIN t = 1 .. Len(s) - 1
      /\ \A k \in 1 .. Len(s) - 1 : t[k] = IF k < i THEN s[k] ELSE s[k + 1]
  BY RemoveElement
<1>2. i \in 1 .. Len(s) /\ Len(s) \in Nat /\ DOMAIN s = 1 .. Len(s)
  OBVIOUS
<1> HIDE DEF t
<1>3. \A j \in DOMAIN s \ {i} : \E k \in DOMAIN t :
         k = (IF j < i THEN j ELSE j - 1) /\ t[k] = s[j]
  <2> TAKE j \in DOMAIN s \ {i}
  <2>1. CASE j < i
    BY <1>1, <1>2, <2>1
  <2>2. CASE j > i
    <3>1. j - 1 \in DOMAIN t /\ ~(j - 1 < i) /\ (j - 1) + 1 = j
      BY <1>1, <1>2, <2>2
    <3>2. QED
      BY <1>1, <2>2, <3>1
  <2>3. QED
    BY <1>2, <2>1, <2>2
<1>4. ASSUME NEW k \in DOMAIN t, t[k].list = l, \A m \in DOMAIN t : m > k => t[m].list # l
      PROVE  t[k].of = v
  <2> DEFINE n == IF k < i THEN k ELSE k + 1
  <2>1. n \in DOMAIN s /\ n # i /\ t[k] = s[n] /\ (i > n => k < i /\ n = k)
    BY <1>1, <1>2
  <2>2. ASSUME NEW j \in DOMAIN s, j > n
        PROVE  s[j].list # l
    <3>1. CASE j = i
      <4>1. n \in 1 .. i - 1
        BY <1>1, <1>2, <2>2, <3>1
      <4>2. QED
        BY <1>4, <2>1, <3>1, <4>1
    <3>2. CASE j # i
      <4>1. PICK m \in DOMAIN t : m = (IF j < i THEN j ELSE j - 1) /\ t[m] = s[j]
        BY <1>3, <3>2
      <4>2. m > k
        BY <1>1, <1>2, <2>2, <3>2, <4>1
      <4>3. QED
        BY <1>4, <4>1, <4>2
    <3>3. QED
      BY <3>1, <3>2
  <2>3. QED
    BY <1>4, <2>1, <2>2 DEF Ends
<1>5. ASSUME \A k \in DOMAIN t : t[k].list # l
      PROVE  IF s[i].list = l THEN s[i].of = v ELSE b
  <2>1. \A j \in DOMAIN s \ {i} : s[j].list # l
    BY <1>3, <1>5
  <2>2. QED
    BY <1>2, <2>1 DEF Ends
<1>6. QED
  BY <1>4, <1>5 DEF Ends, t

\* Neither the list nor the owner of the requests for l changes.
LEMMA SameEnds ==
    ASSUME NEW s, NEW t, NEW l, NEW v, NEW b, DOMAIN t = DOMAIN s, Ends(s, l, v, b),
           \A i \in DOMAIN s : /\ t[i].list = s[i].list
                               /\ t[i].list = l => t[i].of = s[i].of
    PROVE  Ends(t, l, v, b)
BY DEF Ends

\* The lists of the team that a page shows.
Followed(p) ==
    CASE p = "home" -> {"containers", "sessions"}
      [] p = "sessions" \/ p = "provider" \/ p = "audit" -> {"sessions"}
      [] p = "attestations" -> {"attestations"}
      [] OTHER -> {}

Asked(of) == [list : List, of : of]

LEMMA TeamListsOf ==
    ASSUME NEW p
    PROVE  /\ TeamLists(p) \in Seq({"containers", "sessions", "attestations"})
           /\ \A l \in Followed(p) : \E i \in DOMAIN TeamLists(p) : TeamLists(p)[i] = l
           /\ p \in {"secrets", "payments"} => TeamLists(p) = <<>>
           /\ Followed(p) \subseteq {"containers", "sessions", "attestations"}
<1> USE DEF TeamLists, Followed, HomeLists, SessionsLists, AttestationsLists,
            ProviderLists, AuditLists
<1>1. CASE p = "home"
  <2>1. TeamLists(p) = <<"containers", "sessions">> /\ Followed(p) = {"containers", "sessions"}
    BY <1>1
  <2> HIDE DEF TeamLists, Followed
  <2>2. /\ 1 \in DOMAIN <<"containers", "sessions">> /\ 2 \in DOMAIN <<"containers", "sessions">>
        /\ <<"containers", "sessions">>[1] = "containers"
        /\ <<"containers", "sessions">>[2] = "sessions"
        /\ <<"containers", "sessions">> \in Seq({"containers", "sessions", "attestations"})
    OBVIOUS
  <2>3. QED
    BY <1>1, <2>1, <2>2
<1>2. ASSUME NEW l \in {"sessions", "attestations"}, TeamLists(p) = <<l>>,
             Followed(p) \subseteq {l}, p \notin {"secrets", "payments"}
      PROVE  /\ TeamLists(p) \in Seq({"containers", "sessions", "attestations"})
             /\ \A m \in Followed(p) : \E i \in DOMAIN TeamLists(p) : TeamLists(p)[i] = m
             /\ p \in {"secrets", "payments"} => TeamLists(p) = <<>>
             /\ Followed(p) \subseteq {"containers", "sessions", "attestations"}
  <2>1. /\ 1 \in DOMAIN <<l>> /\ <<l>>[1] = l
        /\ <<l>> \in Seq({"containers", "sessions", "attestations"})
    OBVIOUS
  <2> HIDE DEF TeamLists, Followed
  <2>2. QED
    BY <1>2, <2>1
<1>3. CASE p = "sessions" \/ p = "provider" \/ p = "audit"
  BY <1>2, <1>3
<1>4. CASE p = "attestations"
  BY <1>2, <1>4
<1>5. CASE p \notin {"home", "sessions", "provider", "attestations", "audit"}
  <2>1. TeamLists(p) = <<>> /\ Followed(p) = {}
    BY <1>5
  <2>2. <<>> \in Seq({"containers", "sessions", "attestations"})
    OBVIOUS
  <2>3. QED
    BY <2>1, <2>2
<1>6. QED
  BY <1>1, <1>3, <1>4, <1>5

\* The requests s are for the lists of the team t that page p follows, or for
\* those of no team.
OfTeam(s, p, t) ==
    /\ s \in Seq(Asked({t, None}))
    /\ \A i \in DOMAIN s : s[i].list \notin {"log", "secrets", "payments"} /\ (s[i].list # "active" => s[i].of = t)
    /\ t # None => \A l \in Followed(p) : \E i \in DOMAIN s : s[i].list = l

\* The effect on the team asks for the team's lists, and perhaps the providers.
LEMMA TeamAsks ==
    ASSUME NEW p, NEW t
    PROVE  OfTeam(TeamRequests(p, t), p, t) /\ (p \in {"secrets", "payments"} => TeamRequests(p, t) = <<>>)
<1> DEFINE L == TeamLists(p)
           a == IF t = None THEN <<>> ELSE [i \in DOMAIN L |-> Request(L[i], t)]
           b == IF p = "provider" THEN <<Request("active", None)>> ELSE <<>>
<1>1. TeamRequests(p, t) = a \o b
  BY DEF TeamRequests
<1>2. /\ L \in Seq({"containers", "sessions", "attestations"})
      /\ \A l \in Followed(p) : \E i \in DOMAIN L : L[i] = l
      /\ p \in {"secrets", "payments"} => L = <<>>
  BY TeamListsOf
<1> HIDE DEF L
<1>3. /\ a \in Seq(Asked({t, None}))
      /\ \A i \in DOMAIN a : a[i].list \in {"containers", "sessions", "attestations"} /\ a[i].of = t
      /\ t # None => \A l \in Followed(p) : \E i \in DOMAIN a : a[i].list = l
      /\ p \in {"secrets", "payments"} => a = <<>>
  <2>1. CASE t = None
    BY <2>1
  <2>2. CASE t # None
    <3>1. DOMAIN L = 1 .. Len(L) /\ Len(L) \in Nat
      BY <1>2
    <3>2. \A i \in DOMAIN L : /\ Request(L[i], t) \in Asked({t, None})
                              /\ Request(L[i], t).list = L[i] /\ Request(L[i], t).of = t
                              /\ L[i] \in {"containers", "sessions", "attestations"}
      <4> TAKE i \in DOMAIN L
      <4>1. L[i] \in {"containers", "sessions", "attestations"}
        BY <1>2
      <4>2. QED
        BY <4>1 DEF Request, Asked, List
    <3>3. a = [i \in DOMAIN L |-> Request(L[i], t)]
      BY <2>2
    <3> HIDE DEF a
    <3>4. a \in Seq(Asked({t, None})) /\ DOMAIN a = DOMAIN L
      <4>1. a \in [1 .. Len(L) -> Asked({t, None})] /\ DOMAIN a = DOMAIN L
        BY <3>1, <3>2, <3>3
      <4>2. QED
        BY <3>1, <4>1, SeqDef
    <3>5. p \in {"secrets", "payments"} => a = <<>>
      BY <1>2, <3>3
    <3>6. QED
      BY <1>2, <3>2, <3>3, <3>4, <3>5
  <2>3. QED
    BY <2>1, <2>2
<1>4. /\ b \in Seq(Asked({t, None}))
      /\ \A i \in DOMAIN b : b[i].list = "active"
      /\ p \in {"secrets", "payments"} => b = <<>>
  <2>1. Request("active", None) \in Asked({t, None}) /\ Request("active", None).list = "active"
    BY DEF Request, Asked, List
  <2> DEFINE r == Request("active", None)
  <2> HIDE DEF r
  <2>2. /\ <<r>> \in Seq(Asked({t, None})) /\ <<>> \in Seq(Asked({t, None}))
        /\ \A i \in DOMAIN <<r>> : <<r>>[i] = r
        /\ DOMAIN <<>> = {}
    BY <2>1 DEF r
  <2>3. b = IF p = "provider" THEN <<r>> ELSE <<>>
    BY DEF r
  <2>4. r.list = "active"
    BY <2>1 DEF r
  <2> HIDE DEF b
  <2>5. QED
    BY <2>2, <2>3, <2>4
<1> HIDE DEF a, b
<1>5. /\ a \o b \in Seq(Asked({t, None}))
      /\ \A i \in DOMAIN (a \o b) :
            (\E j \in DOMAIN a : (a \o b)[i] = a[j]) \/ \E j \in DOMAIN b : (a \o b)[i] = b[j]
      /\ \A j \in DOMAIN a : j \in DOMAIN (a \o b) /\ (a \o b)[j] = a[j]
  <2>1. /\ Len(a) \in Nat /\ Len(b) \in Nat /\ DOMAIN a = 1 .. Len(a) /\ DOMAIN b = 1 .. Len(b)
        /\ DOMAIN (a \o b) = 1 .. Len(a) + Len(b) /\ a \o b \in Seq(Asked({t, None}))
        /\ \A i \in 1 .. Len(a) + Len(b) :
              (a \o b)[i] = IF i <= Len(a) THEN a[i] ELSE b[i - Len(a)]
    BY <1>3, <1>4
  <2>2. \A i \in 1 .. Len(a) + Len(b) : i <= Len(a) \/ i - Len(a) \in 1 .. Len(b)
    BY <2>1
  <2>3. QED
    BY <2>1, <2>2
<1>6. p \in {"secrets", "payments"} => a \o b = <<>>
  BY <1>3, <1>4
<1> DEFINE c == a \o b
<1> HIDE DEF c
<1>7. /\ c \in Seq(Asked({t, None}))
      /\ \A i \in DOMAIN c : (\E j \in DOMAIN a : c[i] = a[j]) \/ \E j \in DOMAIN b : c[i] = b[j]
      /\ \A j \in DOMAIN a : j \in DOMAIN c /\ c[j] = a[j]
      /\ p \in {"secrets", "payments"} => c = <<>>
  BY <1>5, <1>6 DEF c
<1>8. \A i \in DOMAIN c : c[i].list \notin {"log", "secrets", "payments"} /\ (c[i].list # "active" => c[i].of = t)
  <2> TAKE i \in DOMAIN c
  <2>1. ASSUME NEW j \in DOMAIN a, c[i] = a[j]
        PROVE  c[i].list \notin {"log", "secrets", "payments"} /\ c[i].of = t
    BY <1>3, <2>1
  <2>2. ASSUME NEW j \in DOMAIN b, c[i] = b[j]
        PROVE  c[i].list = "active"
    BY <1>4, <2>2
  <2>3. QED
    BY <1>7, <2>1, <2>2
<1>9. t # None => \A l \in Followed(p) : \E i \in DOMAIN c : c[i].list = l
  BY <1>3, <1>7
<1>10. TeamRequests(p, t) = c
  BY <1>1 DEF c
<1>11. QED
  BY <1>7, <1>8, <1>9, <1>10 DEF OfTeam

\* A page that opens asks once for the lists that are not the team's.
LEMMA MountAsks ==
    ASSUME NEW p
    PROVE  /\ MountRequests(p) \in Seq(Asked({wallet}))
           /\ \A i \in DOMAIN MountRequests(p) :
                 /\ MountRequests(p)[i].list \in {"payments", "secrets", "row"}
                 /\ MountRequests(p)[i].of = wallet
                 /\ p \in {"secrets", "payments"} => MountRequests(p)[i].list = p
           /\ p \in {"secrets", "payments"} => MountRequests(p) # <<>>
<1> DEFINE m == MountLists(p)
<1>1. /\ m \in Seq({"payments", "secrets", "row"})
      /\ p \in {"secrets", "payments"} => m # <<>> /\ \A i \in DOMAIN m : m[i] = p
  <2> USE DEF MountLists, PaymentsLists, SecretsLists, VerifyLists, PlanLists
  <2>1. /\ \A l \in {"payments", "secrets", "row"} :
              /\ <<l>> \in Seq({"payments", "secrets", "row"})
              /\ <<l>> # <<>> /\ \A i \in DOMAIN <<l>> : <<l>>[i] = l
        /\ <<>> \in Seq({"payments", "secrets", "row"})
    OBVIOUS
  <2>2. CASE p = "payments"
    <3>1. m = <<"payments">>
      BY <2>2
    <3> HIDE DEF m
    <3>2. QED
      BY <2>1, <2>2, <3>1
  <2>3. CASE p = "secrets"
    <3>1. m = <<"secrets">>
      BY <2>3
    <3> HIDE DEF m
    <3>2. QED
      BY <2>1, <2>3, <3>1
  <2>4. CASE p = "verify" \/ p = "plan"
    <3>1. m = <<"row">>
      BY <2>4
    <3> HIDE DEF m
    <3>2. QED
      BY <2>1, <2>4, <3>1
  <2>5. CASE p \notin {"payments", "secrets", "verify", "plan"}
    <3>1. m = <<>>
      BY <2>5
    <3> HIDE DEF m
    <3>2. QED
      BY <2>1, <2>5, <3>1
  <2>6. QED
    BY <2>2, <2>3, <2>4, <2>5
<1> DEFINE q == [i \in DOMAIN m |-> Request(m[i], wallet)]
<1>2. q = MountRequests(p)
  BY DEF MountRequests
<1> HIDE DEF m
<1>3. Len(m) \in Nat /\ DOMAIN m = 1 .. Len(m)
  BY <1>1
<1>4. \A i \in DOMAIN m : /\ Request(m[i], wallet) \in Asked({wallet})
                          /\ Request(m[i], wallet).list = m[i]
                          /\ Request(m[i], wallet).of = wallet
                          /\ m[i] \in {"payments", "secrets", "row"}
  <2> TAKE i \in DOMAIN m
  <2>1. m[i] \in {"payments", "secrets", "row"}
    BY <1>1
  <2>2. QED
    BY <2>1 DEF Request, Asked, List
<1>5. /\ q \in [1 .. Len(m) -> Asked({wallet})] /\ DOMAIN q = DOMAIN m
      /\ \A i \in DOMAIN q : q[i] = Request(m[i], wallet)
  BY <1>3, <1>4
<1>6. p \in {"secrets", "payments"} => q # <<>>
  <2>1. p \in {"secrets", "payments"} => 1 \in DOMAIN m
    BY <1>1, <1>3
  <2>2. q = <<>> => DOMAIN q = {}
    OBVIOUS
  <2>3. QED
    BY <1>5, <2>1, <2>2
<1> HIDE DEF q
<1>7. q \in Seq(Asked({wallet}))
  BY <1>3, <1>5, SeqDef
<1>8. \A i \in DOMAIN q : /\ q[i].list \in {"payments", "secrets", "row"}
                          /\ q[i].of = wallet
                          /\ p \in {"secrets", "payments"} => q[i].list = p
  BY <1>1, <1>4, <1>5
<1>9. QED
  BY <1>2, <1>6, <1>7, <1>8

LEMMA AskedMore ==
    ASSUME NEW S, NEW T, NEW s \in Seq(Asked(S))
    PROVE  s \in Seq(Asked(S \cup T)) /\ s \in Seq(Asked(T \cup S))
<1>1. Asked(S) \subseteq Asked(S \cup T) /\ Asked(S) \subseteq Asked(T \cup S)
  BY DEF Asked
<1>2. QED
  BY <1>1, SeqMonotonic

ConsoleType ==
    /\ shown = [l \in List |-> shown[l]]
    /\ upset \in BOOLEAN
    /\ \E S : pending \in Seq(Asked(S))

\* The last request for a list of the team is for the account, or the list
\* shown is; so it is with the log and the session selected, and with the
\* payments and the wallet.
TeamsInv ==
    ~upset /\ teamId # None =>
        \A l \in Followed(page) : Ends(pending, l, teamId, IsCurrent(l))

LogInv == ~upset /\ page = "audit" => Ends(pending, "log", sessionFilter, shown["log"] = sessionFilter)

PaymentsInv ==
    ~upset /\ page = "payments" => Ends(pending, "payments", wallet, shown["payments"] = wallet)

ListsInv == ConsoleType /\ TeamsInv /\ LogInv /\ PaymentsInv

\* What is shown after the answers may be said in a weaker way.
LEMMA WeakerEnds ==
    ASSUME NEW s, NEW l, NEW v, NEW b, NEW c, Ends(s, l, v, b), b => c
    PROVE  Ends(s, l, v, c)
BY DEF Ends

\* A page is opened on an account.
LEMMA MountKeepsLists ==
    ASSUME NEW p, Mount(p, teamId'), p = "payments" => wallet' = wallet
    PROVE  ListsInv'
<1> DEFINE a == TeamRequests(p, teamId')
           b == MountRequests(p)
<1>1. /\ page' = p /\ shown' = [l \in List |-> None] /\ sessionFilter' = None
      /\ pending' = a \o b /\ upset' = FALSE
  BY DEF Mount
<1>2. /\ a \in Seq(Asked({teamId', None})) /\ b \in Seq(Asked({wallet}))
      /\ \A i \in DOMAIN a : /\ a[i].list \notin {"log", "secrets", "payments"}
                             /\ a[i].list # "active" => a[i].of = teamId'
      /\ teamId' # None => \A l \in Followed(p) : \E i \in DOMAIN a : a[i].list = l
      /\ \A i \in DOMAIN b : /\ b[i].list \in {"payments", "secrets", "row"}
                             /\ b[i].of = wallet
      /\ p = "payments" => \E i \in DOMAIN b : b[i].list = "payments"
  <2>1. PICK t : t = teamId'
    OBVIOUS
  <2>2. OfTeam(a, p, teamId')
    BY <2>1, TeamAsks
  <2> HIDE DEF a
  <2>3. /\ b \in Seq(Asked({wallet}))
        /\ \A i \in DOMAIN b : /\ b[i].list \in {"payments", "secrets", "row"}
                               /\ b[i].of = wallet
                               /\ p = "payments" => b[i].list = "payments"
        /\ p = "payments" => b # <<>>
    BY MountAsks
  <2> HIDE DEF b
  <2>4. p = "payments" => \E i \in DOMAIN b : b[i].list = "payments"
    <3>1. b # <<>> => 1 \in DOMAIN b
      BY <2>3
    <3>2. QED
      BY <2>3, <3>1
  <2>5. QED
    BY <2>2, <2>3, <2>4 DEF OfTeam
<1> DEFINE S == {teamId', None} \cup {wallet}
<1>3. a \in Seq(Asked(S)) /\ b \in Seq(Asked(S))
  BY <1>2, AskedMore
<1> HIDE DEF a, b, S
<1>4. <<>> \in Seq(Asked(S)) /\ <<>> \o a = a /\ a \o b \in Seq(Asked(S)) /\ DOMAIN <<>> = {}
  BY <1>3
<1>5. ConsoleType'
  BY <1>1, <1>4 DEF ConsoleType
<1>6. ASSUME teamId' # None, NEW l \in Followed(p)
      PROVE  Ends(a \o b, l, teamId', IsCurrent(l)')
  <2>1. l \in {"containers", "sessions", "attestations"}
    BY TeamListsOf
  <2>2. \A i \in DOMAIN a : a[i].list = l => a[i].of = teamId'
    BY <1>2, <2>1
  <2>3. \E i \in DOMAIN a : a[i].list = l
    BY <1>2, <1>6
  <2>4. Ends(<<>> \o a, l, teamId', IsCurrent(l)')
    BY <1>3, <1>4, <2>2, <2>3, ConcatEnds
  <2>5. \A i \in DOMAIN b : b[i].list # l
    BY <1>2, <2>1
  <2>6. Ends(a, l, teamId', IsCurrent(l)')
    BY <1>4, <2>4
  <2>7. QED
    BY <1>3, <2>5, <2>6, ConcatEnds
<1>7. TeamsInv'
  BY <1>1, <1>6 DEF TeamsInv
<1>8. LogInv'
  <2>1. \A i \in DOMAIN (a \o b) : (a \o b)[i].list # "log"
    <3>1. /\ DOMAIN (a \o b) = 1 .. Len(a) + Len(b)
          /\ Len(a) \in Nat /\ Len(b) \in Nat /\ DOMAIN a = 1 .. Len(a) /\ DOMAIN b = 1 .. Len(b)
          /\ \A i \in 1 .. Len(a) + Len(b) :
                (a \o b)[i] = IF i <= Len(a) THEN a[i] ELSE b[i - Len(a)]
      BY <1>3
    <3>2. \A i \in 1 .. Len(a) + Len(b) : i \in DOMAIN a \/ (~(i <= Len(a)) /\ i - Len(a) \in DOMAIN b)
      BY <3>1
    <3> TAKE i \in DOMAIN (a \o b)
    <3>3. (\E j \in DOMAIN a : (a \o b)[i] = a[j]) \/ \E j \in DOMAIN b : (a \o b)[i] = b[j]
      BY <3>1, <3>2
    <3>4. QED
      BY <1>2, <3>3
  <2>2. "log" \in List
    BY DEF List
  <2>3. shown'["log"] = sessionFilter'
    BY <1>1, <2>2
  <2>4. QED
    BY <1>1, <2>1, <2>3 DEF LogInv, Ends
<1>9. PaymentsInv'
  <2> SUFFICES ASSUME p = "payments"
               PROVE  Ends(a \o b, "payments", wallet', shown'["payments"] = wallet')
    BY <1>1 DEF PaymentsInv
  <2>1. \A i \in DOMAIN b : b[i].of = wallet'
    BY <1>2
  <2>2. \E i \in DOMAIN b : b[i].list = "payments"
    BY <1>2
  <2>3. QED
    BY <1>3, <2>1, <2>2, ConcatEnds
<1>10. QED
  BY <1>5, <1>7, <1>8, <1>9 DEF ListsInv

LEMMA AppendEnds ==
    ASSUME NEW S, NEW T, NEW s \in Seq(Asked(S)), NEW r \in Asked(T), NEW l, NEW v, NEW b,
           r.list = l => r.of = v, r.list = l \/ Ends(s, l, v, b)
    PROVE  Append(s, r) \in Seq(Asked(S \cup T)) /\ Ends(Append(s, r), l, v, b)
<1>1. s \in Seq(Asked(S \cup T)) /\ r \in Asked(S \cup T)
  BY AskedMore DEF Asked
<1>2. /\ Append(s, r) = s \o <<r>> /\ Append(s, r) \in Seq(Asked(S \cup T))
      /\ <<r>> \in Seq(Asked(S \cup T)) /\ DOMAIN <<r>> = {1} /\ <<r>>[1] = r
  BY <1>1
<1> DEFINE q == <<r>>
<1> HIDE DEF q
<1>3. /\ q \in Seq(Asked(S \cup T)) /\ DOMAIN q = {1} /\ q[1] = r
      /\ Append(s, r) = s \o q
  BY <1>2 DEF q
<1>4. \A i \in DOMAIN q : q[i].list = l => q[i].of = v
  BY <1>3
<1>5. (\E i \in DOMAIN q : q[i].list = l) \/ Ends(s, l, v, b)
  BY <1>3
<1>6. Ends(s \o q, l, v, b)
  BY <1>1, <1>3, <1>4, <1>5, ConcatEnds
<1>7. QED
  BY <1>2, <1>3, <1>6

\* What is shown and asked for stays.
LEMMA SameLists ==
    ASSUME ListsInv, UNCHANGED <<teamId, page, shown, sessionFilter, pending>>,
           upset' \in BOOLEAN, upset => upset', page = "payments" /\ wallet' # wallet => upset'
    PROVE  ListsInv'
BY DEF ListsInv, ConsoleType, TeamsInv, LogInv, PaymentsInv, IsCurrent, Ends

\* The account changes under a page that stays.
LEMMA FollowLists ==
    ASSUME ListsInv, NEW t, Follow(t), UNCHANGED <<page, shown, sessionFilter>>,
           upset' \in BOOLEAN, upset => upset', page = "payments" /\ wallet' # wallet => upset'
    PROVE  ListsInv'
<1> DEFINE a == TeamRequests(page, t)
<1>1. teamId' = t /\ pending' = pending \o a
  BY DEF Follow
<1>2. /\ a \in Seq(Asked({t, None}))
      /\ \A i \in DOMAIN a : /\ a[i].list \notin {"log", "secrets", "payments"}
                             /\ a[i].list # "active" => a[i].of = t
      /\ t # None => \A l \in Followed(page) : \E i \in DOMAIN a : a[i].list = l
  <2>1. OfTeam(a, page, t)
    BY TeamAsks
  <2> HIDE DEF a
  <2>2. QED
    BY <2>1 DEF OfTeam
<1>3. PICK S : pending \in Seq(Asked(S))
  BY DEF ListsInv, ConsoleType
<1> DEFINE U == S \cup {t, None}
<1>4. pending \in Seq(Asked(U)) /\ a \in Seq(Asked(U))
  BY <1>2, <1>3, AskedMore
<1> HIDE DEF a, U
<1>5. ConsoleType'
  <2>1. pending \o a \in Seq(Asked(U))
    BY <1>4
  <2>2. shown' = [l \in List |-> shown'[l]]
    BY DEF ListsInv, ConsoleType
  <2>3. QED
    BY <1>1, <2>1, <2>2 DEF ConsoleType
<1>6. ASSUME t # None, NEW l \in Followed(page)
      PROVE  Ends(pending \o a, l, t, IsCurrent(l)')
  <2>1. l \in {"containers", "sessions", "attestations"}
    BY TeamListsOf
  <2>2. \A i \in DOMAIN a : a[i].list = l => a[i].of = t
    BY <1>2, <2>1
  <2>3. \E i \in DOMAIN a : a[i].list = l
    BY <1>2, <1>6
  <2>4. QED
    BY <1>4, <2>2, <2>3, ConcatEnds
<1>7. TeamsInv'
  BY <1>1, <1>6 DEF TeamsInv
<1>8. LogInv'
  <2> SUFFICES ASSUME ~upset', page' = "audit"
               PROVE  Ends(pending', "log", sessionFilter', shown'["log"] = sessionFilter')
    BY DEF LogInv
  <2>1. Ends(pending, "log", sessionFilter, shown["log"] = sessionFilter)
    BY DEF ListsInv, LogInv
  <2>2. \A i \in DOMAIN a : a[i].list # "log"
    BY <1>2
  <2>3. Ends(pending \o a, "log", sessionFilter, shown["log"] = sessionFilter)
    BY <1>4, <2>1, <2>2, ConcatEnds
  <2>4. QED
    BY <1>1, <2>3
<1>9. PaymentsInv'
  <2> SUFFICES ASSUME ~upset', page' = "payments"
               PROVE  Ends(pending', "payments", wallet', shown'["payments"] = wallet')
    BY DEF PaymentsInv
  <2>1. Ends(pending, "payments", wallet, shown["payments"] = wallet)
    BY DEF ListsInv, PaymentsInv
  <2>2. \A i \in DOMAIN a : a[i].list # "payments"
    BY <1>2
  <2>3. Ends(pending \o a, "payments", wallet, shown["payments"] = wallet)
    BY <1>4, <2>1, <2>2, ConcatEnds
  <2>4. QED
    BY <1>1, <2>3
<1>10. QED
  BY <1>5, <1>7, <1>8, <1>9 DEF ListsInv

\* The audit page selects a session, with nothing else for its log to follow.
LEMMA AskLog ==
    ASSUME page = "audit", page' = page, shown' = [l \in List |-> shown'[l]], upset' \in BOOLEAN,
           NEW S, NEW s \in Seq(Asked(S)),
           ~upset' /\ teamId' # None => Ends(s, "sessions", teamId', IsCurrent("sessions")'),
           pending' = Append(s, Request("log", sessionFilter'))
    PROVE  ListsInv'
<1> DEFINE f == sessionFilter'
           r == Request("log", f)
<1>1. r \in Asked({f}) /\ r.list = "log" /\ r.of = f
  BY DEF Request, Asked, List
<1> HIDE DEF r
<1>2. /\ Append(s, r) \in Seq(Asked(S \cup {f}))
      /\ Ends(Append(s, r), "log", f, shown'["log"] = f)
  BY <1>1, AppendEnds
<1>3. Followed(page') = {"sessions"}
  BY DEF Followed
<1>4. pending' = Append(s, r)
  BY DEF r
<1>5. TeamsInv'
  <2>1. ASSUME ~upset', teamId' # None
        PROVE  Ends(Append(s, r), "sessions", teamId', IsCurrent("sessions")')
    <3>1. r.list # "sessions"
      BY <1>1
    <3>2. QED
      BY <1>1, <2>1, <3>1, AppendEnds
  <2>2. QED
    BY <1>3, <1>4, <2>1 DEF TeamsInv
<1>6. ConsoleType' /\ LogInv' /\ PaymentsInv'
  BY <1>2, <1>4 DEF ConsoleType, LogInv, PaymentsInv
<1>7. QED
  BY <1>5, <1>6 DEF ListsInv

\* An answer comes.
LEMMA AnswerLists ==
    ASSUME ListsInv, NEW i \in DOMAIN pending, NEW how \in {"ok", "refused", "lost"},
           answer(i, how)
    PROVE  ListsInv'
<1> DEFINE r == pending[i]
           rest == RemoveAt(pending, i)
<1>1. /\ upset' = (upset \/ how # "ok" \/ \E j \in 1 .. i - 1 : pending[j].list = r.list)
      /\ teamId' = teamId /\ page' = page /\ wallet' = wallet
      /\ IF page = "audit" /\ r.list = "sessions"
         THEN IF how = "ok" THEN selectFirst(r.of, rest)
              ELSE UNCHANGED <<shown, sessionFilter>> /\ pending' = rest
         ELSE /\ shown' = Shown(r, how) /\ pending' = rest /\ sessionFilter' = sessionFilter
  BY DEF answer, accountVars
<1>2. PICK S : pending \in Seq(Asked(S))
  BY DEF ListsInv, ConsoleType
<1>3. rest \in Seq(Asked(S)) /\ r \in Asked(S)
  BY <1>2, RemoveElement
<1>4. r.list \in List
  BY <1>3 DEF Asked
<1>5. shown = [l \in List |-> shown[l]] /\ upset \in BOOLEAN
  BY DEF ListsInv, ConsoleType
<1>6. ASSUME NEW m, NEW w
      PROVE  [shown EXCEPT ![m] = w] = [l \in List |-> [shown EXCEPT ![m] = w][l]]
  BY <1>5
<1>7. Shown(r, how) = [l \in List |-> Shown(r, how)[l]]
  <2>1. CASE how = "ok"
    <3>1. Shown(r, how) = [shown EXCEPT ![r.list] = r.of]
      BY <2>1 DEF Shown
    <3>2. QED
      BY <1>6, <3>1
  <2>2. CASE how # "ok"
    <3>1. \/ Shown(r, how) = [shown EXCEPT !["log"] = None]
          \/ Shown(r, how) = [shown EXCEPT ![r.list] = None]
          \/ Shown(r, how) = shown
      BY <2>2 DEF Shown
    <3>2. QED
      BY <1>5, <1>6, <3>1
  <2>3. QED
    BY <2>1, <2>2
<1>8. upset' \in BOOLEAN
  BY <1>1, <1>5
<1> HIDE DEF rest
<1>9. ASSUME ~upset', NEW l, NEW v, NEW b, Ends(pending, l, v, b)
      PROVE  Ends(rest, l, v, IF r.list = l THEN r.of = v ELSE b)
  BY <1>1, <1>2, <1>9, RemoveEnds DEF rest
<1>10. CASE page = "audit" /\ r.list = "sessions"
  <2>1. Followed(page') = {"sessions"} /\ Followed(page) = {"sessions"}
    BY <1>1, <1>10 DEF Followed
  <2>2. ASSUME pending' = rest, sessionFilter' = sessionFilter,
               shown' = [l \in List |-> shown'[l]], shown'["log"] = shown["log"],
               ~upset' /\ teamId' # None => Ends(rest, "sessions", teamId', IsCurrent("sessions")')
        PROVE  ListsInv'
    <3>1. ConsoleType'
      BY <1>3, <1>8, <2>2 DEF ConsoleType
    <3>2. ~upset' => Ends(rest, "log", sessionFilter, shown["log"] = sessionFilter)
      <4>1. "sessions" # "log" /\ (~upset' => ~upset)
        BY <1>1
      <4>2. ~upset' => Ends(pending, "log", sessionFilter, shown["log"] = sessionFilter)
        BY <1>10, <4>1 DEF ListsInv, LogInv
      <4>3. ~upset' => Ends(rest, "log", sessionFilter,
                            IF r.list = "log" THEN r.of = sessionFilter
                            ELSE shown["log"] = sessionFilter)
        BY <1>9, <4>2
      <4>4. (IF r.list = "log" THEN r.of = sessionFilter ELSE shown["log"] = sessionFilter)
               = (shown["log"] = sessionFilter)
        BY <1>10, <4>1
      <4>5. QED
        BY <4>3, <4>4
    <3>3. QED
      BY <1>1, <1>10, <2>1, <2>2, <3>1, <3>2 DEF ListsInv, TeamsInv, LogInv, PaymentsInv
  <2>3. CASE how # "ok"
    BY <1>1, <1>5, <1>10, <2>2, <2>3
  <2>4. ASSUME ~upset', teamId # None, r.of = teamId => IsCurrent("sessions")'
        PROVE  Ends(rest, "sessions", teamId', IsCurrent("sessions")')
    <3>1. Ends(pending, "sessions", teamId, IsCurrent("sessions"))
      BY <1>1, <2>1, <2>4 DEF ListsInv, TeamsInv
    <3>2. Ends(rest, "sessions", teamId, r.of = teamId)
      <4>1. Ends(rest, "sessions", teamId,
                 IF r.list = "sessions" THEN r.of = teamId ELSE IsCurrent("sessions"))
        BY <1>9, <2>4, <3>1
      <4>2. QED
        BY <1>10, <4>1, WeakerEnds
    <3>3. QED
      BY <1>1, <2>4, <3>2, WeakerEnds
  <2>5. CASE how = "ok"
    <3> DEFINE t == r.of
               first == Sessions(t)[1]
    <3>1. selectFirst(t, rest)
      BY <1>1, <1>10, <2>5
    <3>2. CASE Sessions(t) = <<>>
      <4>1. UNCHANGED <<shown, sessionFilter>> /\ pending' = rest
        BY <3>1, <3>2 DEF selectFirst
      <4>2. r.of = teamId => IsCurrent("sessions")'
        BY <1>1, <1>10, <3>2 DEF IsCurrent
      <4>3. ~upset' /\ teamId' # None => Ends(rest, "sessions", teamId', IsCurrent("sessions")')
        BY <1>1, <2>4, <4>2
      <4>4. QED
        BY <1>5, <2>2, <4>1, <4>3
    <3>3. CASE Sessions(t) # <<>>
      <4>1. /\ shown' = Shown(Request("sessions", t), "ok")
            /\ sessionFilter' = first
            /\ pending' = IF sessionFilter = first THEN rest
                          ELSE Append(rest, Request("log", first))
        BY <3>1, <3>3 DEF selectFirst
      <4>2. shown' = [shown EXCEPT !["sessions"] = t]
        BY <4>1 DEF Shown, Request
      <4>3. shown' = [l \in List |-> shown'[l]] /\ shown'["log"] = shown["log"]
        BY <1>5, <4>2 DEF List
      <4>4. r.of = teamId => IsCurrent("sessions")'
        <5>1. shown'["sessions"] = t
          BY <1>5, <4>2 DEF List
        <5>2. QED
          BY <1>1, <5>1 DEF IsCurrent
      <4>5. ~upset' /\ teamId' # None => Ends(rest, "sessions", teamId', IsCurrent("sessions")')
        BY <1>1, <2>4, <4>4
      <4>6. CASE sessionFilter = first
        BY <2>2, <4>1, <4>3, <4>6, <4>5
      <4>7. CASE sessionFilter # first
        <5>1. pending' = Append(rest, Request("log", sessionFilter'))
          BY <4>1, <4>7
        <5>2. QED
          BY <1>1, <1>3, <1>8, <1>10, <4>3, <4>5, <5>1, AskLog
      <4>8. QED
        BY <4>6, <4>7
    <3>4. QED
      BY <3>2, <3>3
  <2>6. QED
    BY <2>3, <2>5
<1>11. CASE ~(page = "audit" /\ r.list = "sessions")
  <2>1. shown' = Shown(r, how) /\ pending' = rest /\ sessionFilter' = sessionFilter
    BY <1>1, <1>11
  <2>2. ConsoleType'
    BY <1>3, <1>7, <1>8, <2>1 DEF ConsoleType
  <2>3. ASSUME ~upset', NEW l \in List, NEW v, Ends(pending, l, v, shown[l] = v)
        PROVE  Ends(pending', l, v, shown'[l] = v)
    <3>1. how = "ok"
      BY <1>1, <2>3
    <3>2. shown' = [shown EXCEPT ![r.list] = r.of]
      BY <2>1, <3>1 DEF Shown
    <3>3. shown'[l] = IF r.list = l THEN r.of ELSE shown[l]
      BY <1>5, <3>2
    <3>4. Ends(rest, l, v, IF r.list = l THEN r.of = v ELSE shown[l] = v)
      BY <1>9, <2>3
    <3>5. (IF r.list = l THEN r.of = v ELSE shown[l] = v) = (shown'[l] = v)
      BY <3>3
    <3>6. QED
      BY <2>1, <3>4, <3>5
  <2>4. ~upset' => ~upset
    BY <1>1
  <2>5. TeamsInv'
    <3> SUFFICES ASSUME ~upset', teamId # None, NEW l \in Followed(page)
                 PROVE  Ends(rest, l, teamId, IsCurrent(l)')
      BY <1>1, <2>1 DEF TeamsInv
    <3>1. l \in List
      BY TeamListsOf DEF List
    <3>2. Ends(pending, l, teamId, IsCurrent(l))
      BY <2>4 DEF ListsInv, TeamsInv
    <3> DEFINE b == IF r.list = l THEN r.of = teamId ELSE IsCurrent(l)
    <3>3. Ends(rest, l, teamId, b)
      BY <1>9, <3>2
    <3>4. shown'[l] = IF r.list = l THEN r.of ELSE shown[l]
      <4>1. shown' = [shown EXCEPT ![r.list] = r.of]
        BY <1>1, <2>1 DEF Shown
      <4>2. QED
        BY <1>5, <3>1, <4>1
    <3>5. b => IsCurrent(l)'
      BY <1>1, <3>4 DEF IsCurrent
    <3> HIDE DEF b
    <3>6. QED
      BY <3>3, <3>5, WeakerEnds
  <2>6. LogInv'
    <3>1. "log" \in List
      BY DEF List
    <3>2. QED
      BY <1>1, <2>1, <2>3, <2>4, <3>1 DEF ListsInv, LogInv
  <2>7. PaymentsInv'
    <3>1. "payments" \in List
      BY DEF List
    <3>2. QED
      BY <1>1, <2>1, <2>3, <2>4, <3>1 DEF ListsInv, PaymentsInv
  <2>8. QED
    BY <2>2, <2>5, <2>6, <2>7 DEF ListsInv
<1>12. QED
  BY <1>10, <1>11

\* A session is chosen in the menu, or none.
LEMMA SelectLists ==
    ASSUME ListsInv, NEW s, selectSession(s)
    PROVE  ListsInv'
<1>1. /\ page = "audit" /\ page' = page /\ sessionFilter' = s /\ teamId' = teamId
      /\ upset' = (upset \/ (s = None /\ \E i \in DOMAIN pending : pending[i].list = "log"))
      /\ IF s = None THEN shown' = [shown EXCEPT !["log"] = None] /\ pending' = pending
         ELSE pending' = Append(pending, Request("log", s)) /\ shown' = shown
  BY DEF selectSession, accountVars
<1>2. PICK S : pending \in Seq(Asked(S))
  BY DEF ListsInv, ConsoleType
<1>3. shown = [l \in List |-> shown[l]] /\ upset \in BOOLEAN /\ upset' \in BOOLEAN
  BY <1>1 DEF ListsInv, ConsoleType
<1>4. /\ Followed(page) = {"sessions"} /\ Followed(page') = {"sessions"}
      /\ shown'["sessions"] = shown["sessions"]
  BY <1>1, <1>3 DEF Followed, List
<1>5. ~upset' /\ teamId' # None => Ends(pending, "sessions", teamId', IsCurrent("sessions")')
  BY <1>1, <1>3, <1>4 DEF ListsInv, TeamsInv, IsCurrent
<1>6. CASE s = None
  <2>1. shown' = [l \in List |-> shown'[l]] /\ shown'["log"] = None
    BY <1>1, <1>3, <1>6 DEF List
  <2>2. TeamsInv'
    BY <1>1, <1>6, <1>4, <1>5 DEF TeamsInv
  <2>3. ~upset' => \A i \in DOMAIN pending : pending[i].list # "log"
    BY <1>1, <1>6
  <2>4. QED
    BY <1>1, <1>2, <1>3, <1>6, <2>1, <2>2, <2>3 DEF ListsInv, ConsoleType, LogInv, PaymentsInv, Ends
<1>7. CASE s # None
  <2>1. pending' = Append(pending, Request("log", sessionFilter'))
    BY <1>1, <1>7
  <2>2. shown' = [l \in List |-> shown'[l]]
    BY <1>1, <1>3, <1>7
  <2>3. QED
    BY <1>1, <1>2, <1>3, <1>5, <2>1, <2>2, AskLog
<1>8. QED
  BY <1>6, <1>7

\* The secrets are no list of a team, and no log.
LEMMA OtherLists ==
    ASSUME ListsInv, UNCHANGED <<wallet, teamId, page, sessionFilter>>, upset' \in BOOLEAN, upset => upset',
           shown' = [l \in List |-> shown'[l]],
           \A l \in List \ {"secrets"} : shown'[l] = shown[l],
           \E S : pending' \in Seq(Asked(S)),
           ASSUME NEW l \in List \ {"secrets"}, NEW v, NEW b, Ends(pending, l, v, b)
           PROVE  Ends(pending', l, v, b)
    PROVE  ListsInv'
<1>1. \A l \in Followed(page) \cup {"log", "payments"} : l \in List \ {"secrets"}
  BY TeamListsOf DEF List
<1>2. ConsoleType'
  BY DEF ConsoleType
<1>3. TeamsInv'
  <2> SUFFICES ASSUME ~upset', teamId' # None, NEW l \in Followed(page)
               PROVE  Ends(pending', l, teamId, IsCurrent(l))
    BY <1>1 DEF TeamsInv, IsCurrent
  <2>1. Ends(pending, l, teamId, IsCurrent(l))
    BY DEF ListsInv, TeamsInv
  <2>2. QED
    BY <1>1, <2>1
<1>4. LogInv'
  <2> SUFFICES ASSUME ~upset', page' = "audit"
               PROVE  Ends(pending', "log", sessionFilter, shown["log"] = sessionFilter)
    BY <1>1 DEF LogInv
  <2>1. Ends(pending, "log", sessionFilter, shown["log"] = sessionFilter)
    BY DEF ListsInv, LogInv
  <2>2. QED
    BY <1>1, <2>1
<1>5. PaymentsInv'
  <2> SUFFICES ASSUME ~upset', page' = "payments"
               PROVE  Ends(pending', "payments", wallet, shown["payments"] = wallet)
    BY <1>1 DEF PaymentsInv
  <2>1. Ends(pending, "payments", wallet, shown["payments"] = wallet)
    BY DEF ListsInv, PaymentsInv
  <2>2. QED
    BY <1>1, <2>1
<1>6. QED
  BY <1>2, <1>3, <1>4, <1>5 DEF ListsInv

\* The secrets are read, changed, listed again and taken out of the list.
LEMMA SecretsKeepLists ==
    ASSUME ListsInv,
           \/ \E i \in DOMAIN pending : listSecrets(i)
           \/ \E op \in Op, s \in Secret : handle(op, s)
           \/ \E e \in edits : \E b \in BOOLEAN : apply(e, b) \/ edited(e, b)
    PROVE  ListsInv'
<1>1. PICK S : pending \in Seq(Asked(S))
  BY DEF ListsInv, ConsoleType
<1>2. shown = [l \in List |-> shown[l]] /\ upset \in BOOLEAN
  BY DEF ListsInv, ConsoleType
<1>3. ASSUME NEW i \in DOMAIN pending, listSecrets(i)
      PROVE  ListsInv'
  <2> DEFINE v == stored[pending[i].of]
  <2>1. /\ pending[i].list = "secrets" /\ pending' = [pending EXCEPT ![i].of = v]
        /\ UNCHANGED <<wallet, teamId, page, sessionFilter, shown, upset>>
    BY <1>3 DEF listSecrets, Unread, accountVars
  <2> HIDE DEF v
  <2>2. /\ pending \in Seq(Asked(S \cup {v})) /\ pending[i] \in Asked(S \cup {v})
        /\ DOMAIN pending = 1 .. Len(pending) /\ Len(pending) \in Nat
    <3>1. pending \in Seq(Asked(S \cup {v}))
      BY <1>1, AskedMore
    <3>2. QED
      BY <1>3, <3>1
  <2>3. [pending[i] EXCEPT !.of = v] \in Asked(S \cup {v})
        /\ [pending[i] EXCEPT !.of = v].list = "secrets"
    <3>1. pending[i] \in [list : List, of : S \cup {v}]
      BY <2>2 DEF Asked
    <3>2. [pending[i] EXCEPT !.of = v] = [list |-> pending[i].list, of |-> v]
      BY <3>1
    <3>3. pending[i].list \in List /\ v \in S \cup {v}
      BY <3>1
    <3>4. QED
      BY <2>1, <3>2, <3>3 DEF Asked
  <2>4. pending' = [pending EXCEPT ![i] = [pending[i] EXCEPT !.of = v]]
    BY <2>1, Zenon
  <2> DEFINE r == [pending[i] EXCEPT !.of = v]
  <2> HIDE DEF r
  <2>5. /\ pending' \in Seq(Asked(S \cup {v})) /\ DOMAIN pending' = DOMAIN pending
        /\ \A j \in DOMAIN pending : pending'[j] = IF j = i THEN r ELSE pending[j]
    BY <2>2, <2>3, <2>4 DEF r
  <2>6. r.list = "secrets"
    BY <2>3 DEF r
  <2>7. ASSUME NEW l \in List \ {"secrets"}, NEW w, NEW b, Ends(pending, l, w, b)
        PROVE  Ends(pending', l, w, b)
    <3>1. \A j \in DOMAIN pending : /\ pending'[j].list = pending[j].list
                                    /\ pending'[j].list = l => pending'[j].of = pending[j].of
      BY <2>1, <2>5, <2>6, <2>7
    <3>2. QED
      BY <2>5, <2>7, <3>1, SameEnds
  <2>8. QED
    BY <1>2, <2>1, <2>5, <2>7, OtherLists
<1>4. ASSUME NEW op, NEW s, handle(op, s)
      PROVE  ListsInv'
  BY <1>2, <1>4, SameLists DEF handle, accountVars, pageVars
<1>5. ASSUME NEW e \in edits, NEW b \in BOOLEAN, apply(e, b)
      PROVE  ListsInv'
  <2>1. UNCHANGED <<wallet, teamId, page, shown, sessionFilter, pending>>
    BY <1>5 DEF apply, accountVars
  <2>2. upset' \in BOOLEAN /\ (upset => upset')
    BY <1>2, <1>5 DEF apply
  <2>3. QED
    BY <2>1, <2>2, SameLists
<1>6. ASSUME NEW e \in edits, NEW b \in BOOLEAN, edited(e, b)
      PROVE  ListsInv'
  <2>1. /\ UNCHANGED <<wallet, teamId, page, sessionFilter>> /\ upset' = (upset \/ b)
        /\ \/ UNCHANGED <<pending, shown>>
           \/ pending' = Append(pending, Request("secrets", wallet)) /\ shown' = shown
           \/ shown' = [shown EXCEPT !["secrets"] = Listed \ {e.secret}] /\ pending' = pending
    BY <1>6 DEF edited, accountVars
  <2>2. upset' \in BOOLEAN /\ (upset => upset')
    BY <1>2, <2>1
  <2>3. CASE UNCHANGED <<pending, shown>>
    BY <2>1, <2>2, <2>3, SameLists
  <2>4. CASE pending' = Append(pending, Request("secrets", wallet)) /\ shown' = shown
    <3> DEFINE r == Request("secrets", wallet)
    <3>1. r \in Asked({wallet}) /\ r.list = "secrets"
      BY DEF Request, Asked, List
    <3>2. pending' = Append(pending, r)
      BY <2>4
    <3> HIDE DEF r
    <3>3. ASSUME NEW l \in List \ {"secrets"}, NEW w, NEW d, Ends(pending, l, w, d)
          PROVE  Ends(pending', l, w, d)
      BY <1>1, <3>1, <3>2, <3>3, AppendEnds
    <3>4. Ends(pending, "secrets", wallet, TRUE) \/ r.list = "secrets"
      BY <3>1
    <3>5. pending' \in Seq(Asked(S \cup {wallet}))
      <4>1. pending \in Seq(Asked(S \cup {wallet})) /\ r \in Asked(S \cup {wallet})
        BY <1>1, <3>1, AskedMore DEF Asked
      <4>2. QED
        BY <3>2, <4>1
    <3>6. QED
      BY <1>2, <2>1, <2>2, <2>4, <3>3, <3>5, OtherLists
  <2>5. CASE shown' = [shown EXCEPT !["secrets"] = Listed \ {e.secret}] /\ pending' = pending
    <3>1. /\ shown' = [l \in List |-> shown'[l]]
          /\ \A l \in List \ {"secrets"} : shown'[l] = shown[l]
      BY <1>2, <2>5
    <3>2. ASSUME NEW l \in List \ {"secrets"}, NEW w, NEW d, Ends(pending, l, w, d)
          PROVE  Ends(pending', l, w, d)
      BY <2>5, <3>2
    <3>3. \E T : pending' \in Seq(Asked(T))
      BY <1>1, <2>5
    <3>4. QED
      BY <2>1, <2>2, <3>1, <3>2, <3>3, OtherLists
  <2>6. QED
    BY <2>1, <2>3, <2>4, <2>5
<1>7. QED
  BY <1>3, <1>4, <1>5, <1>6

\* Pages are opened, and the wallet and the account change.
LEMMA AccountLists ==
    ASSUME ListsInv,
           \/ expire \/ logout
           \/ \E w \in Team : signIn(w) \/ switchWallet(w)
           \/ \E p \in Page : open(p)
           \/ \E t \in Team : setTeam(t)
    PROVE  ListsInv'
<1>1. upset \in BOOLEAN
  BY DEF ListsInv, ConsoleType
<1>2. \A w : /\ UpsetBy(w) \in BOOLEAN /\ (upset => UpsetBy(w))
             /\ page = "payments" /\ w # wallet => UpsetBy(w)
  BY <1>1 DEF UpsetBy
<1>3. ASSUME NEW p, NEW t, Mount(p, t), teamId' = t, p = "payments" => wallet' = wallet
      PROVE  ListsInv'
  BY <1>3, MountKeepsLists
<1>4. CASE expire
  BY <1>1, <1>3, <1>4, SameLists DEF expire, pageVars
<1>5. CASE logout
  <2>1. CASE page = "home"
    BY <1>3, <1>5, <2>1 DEF logout
  <2>2. CASE page # "home"
    <3>1. /\ IF teamId = None THEN UNCHANGED <<teamId, pending>> ELSE Follow(None)
          /\ wallet' = None /\ upset' = UpsetBy(None) /\ UNCHANGED <<page, shown, sessionFilter>>
      BY <1>5, <2>2 DEF logout
    <3>2. QED
      BY <1>2, <3>1, SameLists, FollowLists
  <2>3. QED
    BY <2>1, <2>2
<1>6. ASSUME NEW w, signIn(w)
      PROVE  ListsInv'
  <2>1. teamId' = teamId
    BY <1>6 DEF signIn
  <2>2. CASE page = "signin"
    BY <1>3, <1>6, <2>1, <2>2 DEF signIn
  <2>3. CASE page # "signin"
    <3>1. wallet' = w /\ upset' = UpsetBy(w) /\ UNCHANGED <<page, shown, sessionFilter, pending>>
      BY <1>6, <2>3 DEF signIn
    <3>2. QED
      BY <1>2, <2>1, <3>1, SameLists
  <2>4. QED
    BY <2>2, <2>3
<1>7. ASSUME NEW w, switchWallet(w)
      PROVE  ListsInv'
  BY <1>2, <1>7, SameLists DEF switchWallet
<1>8. ASSUME NEW p, open(p)
      PROVE  ListsInv'
  BY <1>3, <1>8 DEF open, accountVars
<1>9. ASSUME NEW t, setTeam(t)
      PROVE  ListsInv'
  BY <1>1, <1>9, FollowLists DEF setTeam
<1>10. QED
  BY <1>4, <1>5, <1>6, <1>7, <1>8, <1>9

LEMMA ListsHold == Spec => []ListsInv
<1>1. Init => ListsInv
  <2> SUFFICES ASSUME Init
               PROVE  ListsInv
    OBVIOUS
  <2>1. pending \in Seq(Asked({})) /\ shown = [l \in List |-> shown[l]] /\ upset = FALSE
    BY DEF Init
  <2>2. QED
    BY <2>1 DEF Init, ListsInv, ConsoleType, TeamsInv, LogInv, PaymentsInv
<1>2. ListsInv /\ [Next]_vars => ListsInv'
  <2> SUFFICES ASSUME ListsInv, [Next]_vars
               PROVE  ListsInv'
    OBVIOUS
  <2>1. CASE UNCHANGED vars
    <3>1. UNCHANGED <<wallet, teamId, page, shown, sessionFilter, pending, upset>>
      BY <2>1 DEF vars, accountVars, pageVars
    <3>2. upset \in BOOLEAN
      BY DEF ListsInv, ConsoleType
    <3>3. QED
      BY <3>1, <3>2, SameLists
  <2>2. CASE Next
    <3>1. \/ expire \/ logout
          \/ \E w \in Team : signIn(w) \/ switchWallet(w)
          \/ \E p \in Page : open(p)
          \/ \E t \in Team : setTeam(t)
          \/ \E s : selectSession(s)
          \/ \E i \in DOMAIN pending, how \in {"ok", "refused", "lost"} : answer(i, how)
          \/ \E i \in DOMAIN pending : listSecrets(i)
          \/ \E op \in Op, s \in Secret : handle(op, s)
          \/ \E e \in edits : \E b \in BOOLEAN : apply(e, b) \/ edited(e, b)
      BY <2>2 DEF Next, Answer
    <3>2. QED
      BY <3>1, AccountLists, SelectLists, AnswerLists, SecretsKeepLists
  <2>3. QED
    BY <2>1, <2>2
<1>3. QED
  BY <1>1, <1>2, PTL DEF Spec

\* For any accounts and sessions, and however many requests are in flight: a page
\* at rest, none of whose answers failed or overtook another, shows the lists of
\* the account that is signed in, the log of the session selected, and the
\* payments of the wallet, unless that was changed on the page (audit/page.tsx and
\* payments/page.tsx: the effects); the menu of sessions is excepted for an
\* account that has none.
THEOREM QuietPagesAreCurrent == Spec => []QuietPageIsCurrent
<1>1. ListsInv => QuietPageIsCurrent
  <2> SUFFICES ASSUME ListsInv, pending = <<>>, ~upset
               PROVE  /\ teamId # None =>
                            \A l \in Shows \cap {"containers", "sessions", "attestations"} :
                                IsCurrent(l)
                      /\ "log" \in Shows => shown["log"] = sessionFilter
                      /\ "payments" \in Shows => shown["payments"] = wallet
    BY DEF QuietPageIsCurrent
  <2> USE DEF Shows, HomeShows, SessionsShows, AttestationsShows, ProviderShows, AuditShows,
              PaymentsShows, SecretsShows, VerifyShows, PlanShows
  <2>1. DOMAIN pending = {}
    OBVIOUS
  <2>2. ASSUME NEW l \in Shows \cap {"containers", "sessions", "attestations"}
        PROVE  l \in Followed(page)
    BY <2>2 DEF Followed
  <2>3. ("log" \in Shows => page = "audit") /\ ("payments" \in Shows => page = "payments")
    OBVIOUS
  <2>4. QED
    BY <2>1, <2>2, <2>3 DEF ListsInv, TeamsInv, LogInv, PaymentsInv, Ends
<1>2. QED
  BY <1>1, ListsHold, PTL

-----------------------------------------------------------------------------
(* The console: the secrets shown are those the server holds. *)

Edit == [op : Op, secret : Secret, by : Team \cup {None}, here : BOOLEAN,
         at : {"sent", "done", "refused"}]

\* What was done to the secrets, and the page has yet to show.
Done(op) == {e.secret : e \in {d \in edits : d.here /\ d.at = "done" /\ d.op = op}}

SecretsType ==
    /\ wallet \in Team \cup {None}
    /\ stored \in [Team -> SUBSET Secret]
    /\ edits \subseteq Edit

\* One edit of a secret is in flight at a time, and answers only come to the page
\* that sent it.
EditsInv ==
    /\ \A d, e \in edits : d.secret = e.secret => d = e
    /\ \A e \in edits : e.at # "sent" => e.here
    /\ page # "secrets" => \A e \in edits : ~e.here

\* The edits of this page are of the wallet's secrets, and those that were done
\* are what the server holds.
DoneInv ==
    \A e \in edits : e.here =>
        /\ e.by = wallet
        /\ e.at \in {"sent", "done"}
        /\ e.at = "done" => wallet \in Team /\ (e.op = "add" <=> e.secret \in stored[wallet])

\* A list on its way is not read yet, or is still what the server holds.
ReadInv ==
    \A i \in DOMAIN pending :
        /\ pending[i].list = "secrets"
        /\ pending[i].of = wallet \/ (wallet \in Team /\ pending[i].of = stored[wallet])

\* With none on its way, the list shown lacks only what was done.
ListedInv ==
    pending = <<>> =>
        wallet \in Team /\ (Listed \ Done("delete")) \cup Done("add") = stored[wallet]

SecretsInv ==
    /\ SecretsType
    /\ EditsInv
    /\ page = "secrets" /\ ~upset => DoneInv /\ ReadInv /\ ListedInv

LEMMA EditAt ==
    ASSUME NEW e \in Edit, NEW x \in {"sent", "done", "refused"}
    PROVE  /\ [e EXCEPT !.at = x] \in Edit
           /\ [e EXCEPT !.at = x].op = e.op /\ [e EXCEPT !.at = x].secret = e.secret
           /\ [e EXCEPT !.at = x].by = e.by /\ [e EXCEPT !.at = x].here = e.here
           /\ [e EXCEPT !.at = x].at = x
BY DEF Edit

LEMMA EditLeft ==
    ASSUME NEW e \in Edit
    PROVE  /\ [e EXCEPT !.here = FALSE] \in Edit
           /\ [e EXCEPT !.here = FALSE].secret = e.secret
           /\ [e EXCEPT !.here = FALSE].at = e.at
           /\ [e EXCEPT !.here = FALSE].here = FALSE
BY DEF Edit

\* Nothing about the secrets changes.
LEMMA SameSecrets ==
    ASSUME SecretsInv, UNCHANGED <<wallet, stored, edits, page, pending>>, shown'["secrets"] = shown["secrets"],
           upset => upset'
    PROVE  SecretsInv'
BY DEF SecretsInv, SecretsType, EditsInv, DoneInv, ReadInv, ListedInv, Done, Listed, Edit

\* The wallet or the account changes: the secrets of another are out of sight.
LEMMA WalletSecrets ==
    ASSUME SecretsInv, wallet' \in Team \cup {None}, UNCHANGED <<stored, edits, page, shown>>,
           page = "secrets" => pending' = pending,
           upset => upset', page = "secrets" /\ wallet' # wallet => upset'
    PROVE  SecretsInv'
<1>1. SecretsType' /\ EditsInv'
  BY DEF SecretsInv, SecretsType, EditsInv, Edit
<1>2. ASSUME page' = "secrets", ~upset'
      PROVE  DoneInv' /\ ReadInv' /\ ListedInv'
  <2>1. /\ DoneInv /\ ReadInv /\ ListedInv
        /\ UNCHANGED <<wallet, pending, stored, edits, page, shown>>
    BY <1>2 DEF SecretsInv
  <2>2. QED
    BY <2>1 DEF DoneInv, ReadInv, ListedInv, Done, Listed
<1>3. QED
  BY <1>1, <1>2 DEF SecretsInv

\* A page is opened, the page of the secrets or another.
LEMMA MountSecrets ==
    ASSUME SecretsInv, NEW p, NEW t, Mount(p, t), wallet' \in Team \cup {None},
           stored' = stored, p = "secrets" => wallet' = wallet
    PROVE  SecretsInv'
<1>1. /\ page' = p
      /\ pending' = TeamRequests(p, t) \o MountRequests(p)
      /\ edits' = {[e EXCEPT !.here = FALSE] : e \in {d \in edits : d.at = "sent"}}
  BY DEF Mount
<1>2. \A d \in edits' : \E e \in edits : d = [e EXCEPT !.here = FALSE] /\ e.at = "sent"
  BY <1>1
<1>3. \A d \in edits' : /\ d \in Edit /\ d.at = "sent" /\ ~d.here
                        /\ \E e \in edits : d = [e EXCEPT !.here = FALSE] /\ d.secret = e.secret
  <2> TAKE d \in edits'
  <2>1. PICK e \in edits : d = [e EXCEPT !.here = FALSE] /\ e.at = "sent"
    BY <1>2
  <2>2. e \in Edit
    BY DEF SecretsInv, SecretsType
  <2>3. QED
    BY <2>1, <2>2, EditLeft
<1>4. SecretsType'
  <2>1. edits' \subseteq Edit
    BY <1>3
  <2>2. QED
    BY <2>1 DEF SecretsInv, SecretsType, Edit
<1>5. EditsInv'
  <2>1. ASSUME NEW d \in edits', NEW f \in edits', d.secret = f.secret
        PROVE  d = f
    <3>1. PICK e \in edits : d = [e EXCEPT !.here = FALSE] /\ d.secret = e.secret
      BY <1>3
    <3>2. PICK g \in edits : f = [g EXCEPT !.here = FALSE] /\ f.secret = g.secret
      BY <1>3
    <3>3. e = g
      BY <2>1, <3>1, <3>2 DEF SecretsInv, EditsInv
    <3>4. QED
      BY <3>1, <3>2, <3>3
  <2>2. QED
    BY <1>3, <2>1 DEF EditsInv
<1>6. ASSUME page' = "secrets"
      PROVE  DoneInv' /\ ReadInv' /\ ListedInv'
  <2>1. p = "secrets" /\ wallet' = wallet
    BY <1>1, <1>6
  <2>2. DoneInv'
    BY <1>3 DEF DoneInv
  <2> DEFINE q == MountRequests(p)
  <2>3. /\ q \in Seq(Asked({wallet})) /\ q # <<>>
        /\ \A i \in DOMAIN q : q[i].list = "secrets" /\ q[i].of = wallet
    BY <2>1, MountAsks
  <2>4. TeamRequests(p, t) = <<>>
    BY <2>1, TeamAsks
  <2> HIDE DEF q
  <2>5. pending' = q
    <3>1. <<>> \o q = q
      BY <2>3
    <3>2. QED
      BY <1>1, <2>4, <3>1 DEF q
  <2>6. QED
    BY <2>1, <2>2, <2>3, <2>5 DEF ReadInv, ListedInv
<1>7. QED
  BY <1>4, <1>5, <1>6 DEF SecretsInv

\* The pages, the wallet and the account.
LEMMA AccountSecrets ==
    ASSUME ListsInv, SecretsInv,
           \/ expire \/ logout
           \/ \E w \in Team : signIn(w) \/ switchWallet(w)
           \/ \E p \in Page : open(p)
           \/ \E t \in Team : setTeam(t)
    PROVE  SecretsInv'
<1>1. wallet \in Team \cup {None} /\ upset \in BOOLEAN
  BY DEF ListsInv, ConsoleType, SecretsInv, SecretsType
<1>2. \A w : (upset => UpsetBy(w)) /\ (page = "secrets" /\ w # wallet => UpsetBy(w))
  BY DEF UpsetBy
<1>3. CASE expire
  <2>1. wallet' = wallet /\ stored' = stored
    BY <1>3 DEF expire
  <2>2. CASE page = "home"
    BY <1>1, <1>3, <2>1, <2>2, MountSecrets DEF expire
  <2>3. CASE page # "home"
    BY <1>3, <2>1, <2>3, SameSecrets DEF expire, pageVars
  <2>4. QED
    BY <2>2, <2>3
<1>4. ASSUME NEW t, Follow(t), page = "secrets"
      PROVE  pending' = pending
  <2>1. TeamRequests(page, t) = <<>>
    <3>1. TeamRequests("secrets", t) = <<>>
      BY TeamAsks
    <3>2. QED
      BY <1>4, <3>1
  <2>2. PICK S : pending \in Seq(Asked(S))
    BY DEF ListsInv, ConsoleType
  <2>3. pending \o <<>> = pending
    BY <2>2
  <2>4. QED
    BY <1>4, <2>1, <2>3 DEF Follow
<1>5. CASE logout
  <2>1. wallet' = None /\ stored' = stored
    BY <1>5 DEF logout
  <2>2. CASE page = "home"
    BY <1>5, <2>1, <2>2, MountSecrets DEF logout
  <2>3. CASE page # "home"
    <3>1. /\ pending' = pending \/ Follow(None)
          /\ upset' = UpsetBy(None) /\ UNCHANGED <<page, shown, edits>>
      BY <1>5, <2>3 DEF logout
    <3>2. page = "secrets" => pending' = pending
      BY <1>4, <3>1
    <3>3. (upset => upset') /\ (page = "secrets" /\ wallet' # wallet => upset')
      BY <1>2, <2>1, <3>1
    <3>4. QED
      BY <2>1, <3>1, <3>2, <3>3, WalletSecrets
  <2>4. QED
    BY <2>2, <2>3
<1>6. ASSUME NEW w \in Team, signIn(w)
      PROVE  SecretsInv'
  <2>1. wallet' = w /\ stored' = stored
    BY <1>6 DEF signIn
  <2>2. CASE page = "signin"
    BY <1>6, <2>1, <2>2, MountSecrets DEF signIn
  <2>3. CASE page # "signin"
    <3>1. upset' = UpsetBy(w) /\ UNCHANGED <<page, shown, pending, edits>>
      BY <1>6, <2>3 DEF signIn
    <3>2. QED
      BY <1>2, <2>1, <3>1, WalletSecrets
  <2>4. QED
    BY <2>2, <2>3
<1>7. ASSUME NEW w \in Team, switchWallet(w)
      PROVE  SecretsInv'
  BY <1>2, <1>7, WalletSecrets DEF switchWallet
<1>8. ASSUME NEW p \in Page, open(p)
      PROVE  SecretsInv'
  <2>1. /\ wallet' = wallet /\ stored' = stored
        /\ \E q : Mount(q, teamId)
    BY <1>8 DEF open, accountVars
  <2>2. QED
    BY <1>1, <2>1, MountSecrets
<1>9. ASSUME NEW t \in Team, setTeam(t)
      PROVE  SecretsInv'
  <2>1. Follow(t) /\ UNCHANGED <<wallet, page, shown, upset, stored, edits>>
    BY <1>9 DEF setTeam
  <2>2. QED
    BY <1>1, <1>4, <2>1, WalletSecrets
<1>10. QED
  BY <1>3, <1>5, <1>6, <1>7, <1>8, <1>9

\* An answer comes, to the page of the secrets with the list of the wallet.
LEMMA AnswerSecrets ==
    ASSUME ConsoleAssumptions, ListsInv, SecretsInv,
           NEW i \in DOMAIN pending, NEW how \in {"ok", "refused", "lost"}, answer(i, how)
    PROVE  SecretsInv'
<1> DEFINE r == pending[i]
           rest == RemoveAt(pending, i)
<1>1. /\ UNCHANGED <<wallet, page, stored, edits>>
      /\ upset' = (upset \/ how # "ok" \/ \E j \in 1 .. i - 1 : pending[j].list = r.list)
      /\ how = "ok" => ~Unread(r)
      /\ page # "audit" => shown' = Shown(r, how) /\ pending' = rest
  BY DEF answer, accountVars
<1>2. SecretsType' /\ EditsInv'
  BY <1>1 DEF SecretsInv, SecretsType, EditsInv, Edit
<1>3. ASSUME page' = "secrets", ~upset'
      PROVE  DoneInv' /\ ReadInv' /\ ListedInv'
  <2>1. /\ page = "secrets" /\ ~upset /\ how = "ok" /\ ~Unread(r)
        /\ \A j \in 1 .. i - 1 : pending[j].list # r.list
    BY <1>1, <1>3
  <2>2. DoneInv /\ ReadInv
    BY <2>1 DEF SecretsInv
  <2>3. PICK S : pending \in Seq(Asked(S))
    BY DEF ListsInv, ConsoleType
  <2>4. /\ rest \in Seq(Asked(S)) /\ DOMAIN rest = 1 .. Len(pending) - 1
        /\ \A k \in 1 .. Len(pending) - 1 : rest[k] = IF k < i THEN pending[k] ELSE pending[k + 1]
    BY <2>3, RemoveElement
  <2>5. Len(pending) \in Nat /\ DOMAIN pending = 1 .. Len(pending)
    BY <2>3
  <2>6. pending' = rest /\ shown' = [shown EXCEPT !["secrets"] = r.of]
    <3>1. r.list = "secrets"
      BY <2>2 DEF ReadInv
    <3>2. Shown(r, how) = [shown EXCEPT ![r.list] = r.of]
      BY <2>1 DEF Shown
    <3>3. QED
      BY <1>1, <2>1, <3>1, <3>2
  <2> HIDE DEF rest
  <2>7. DoneInv'
    BY <1>1, <2>2 DEF DoneInv
  <2>8. ReadInv'
    <3>1. \A k \in DOMAIN rest : \E j \in DOMAIN pending : rest[k] = pending[j]
      BY <2>4, <2>5
    <3>2. QED
      BY <1>1, <2>2, <2>6, <3>1 DEF ReadInv
  <2>9. ListedInv'
    <3>1. /\ r.list = "secrets"
          /\ r.of = wallet \/ (wallet \in Team /\ r.of = stored[wallet])
      BY <2>2 DEF ReadInv
    <3>2. wallet \in Team /\ r.of = stored[wallet]
      BY <2>1, <3>1 DEF Unread, SecretsInv, SecretsType
    <3>3. stored[wallet] # None /\ stored[wallet] \in SUBSET Secret
      BY <3>2 DEF ConsoleAssumptions, SecretsInv, SecretsType
    <3>4. shown'["secrets"] = stored[wallet]
      <4>1. "secrets" \in DOMAIN shown
        <5>1. shown = [l \in List |-> shown[l]] /\ "secrets" \in List
          BY DEF ListsInv, ConsoleType, List
        <5>2. QED
          BY <5>1
      <4>2. QED
        BY <2>6, <3>2, <4>1
    <3>5. Listed' = stored[wallet]
      BY <3>3, <3>4 DEF Listed
    <3>6. \A x : (x \in Done("delete") => x \notin stored[wallet])
                 /\ (x \in Done("add") => x \in stored[wallet])
      <4>1. "add" # "delete"
        OBVIOUS
      <4>2. QED
        BY <2>2, <4>1 DEF DoneInv, Done
    <3>7. (stored[wallet] \ Done("delete")) \cup Done("add") = stored[wallet]
      BY <3>6
    <3>8. Done("delete")' = Done("delete") /\ Done("add")' = Done("add")
      BY <1>1 DEF Done
    <3>9. QED
      BY <1>1, <3>2, <3>5, <3>7, <3>8 DEF ListedInv
  <2>10. QED
    BY <2>7, <2>8, <2>9
<1>4. QED
  BY <1>2, <1>3 DEF SecretsInv

\* The server reads the secrets for the list.
LEMMA ReadSecrets ==
    ASSUME ConsoleAssumptions, ListsInv, SecretsInv, NEW i \in DOMAIN pending, listSecrets(i)
    PROVE  SecretsInv'
<1>1. /\ UNCHANGED <<wallet, page, stored, edits, shown, upset>>
      /\ pending[i].list = "secrets" /\ pending[i].of \in Team
      /\ pending' = [pending EXCEPT ![i].of = stored[@]]
  BY DEF listSecrets, Unread, accountVars
<1>2. SecretsType' /\ EditsInv'
  BY <1>1 DEF SecretsInv, SecretsType, EditsInv, Edit
<1>3. ASSUME page' = "secrets", ~upset'
      PROVE  DoneInv' /\ ReadInv' /\ ListedInv'
  <2>1. DoneInv /\ ReadInv
    BY <1>1, <1>3 DEF SecretsInv
  <2>2. wallet \in Team /\ pending[i].of = wallet
    BY <1>1, <2>1 DEF ReadInv, ConsoleAssumptions, SecretsInv, SecretsType
  <2>3. PICK S : pending \in Seq(Asked(S))
    BY DEF ListsInv, ConsoleType
  <2>4. pending[i] \in [list : List, of : S]
    <3>1. pending[i] \in Asked(S)
      BY <2>3
    <3>2. QED
      BY <3>1 DEF Asked
  <2> DEFINE q == [pending[i] EXCEPT !.of = stored[pending[i].of]]
  <2>5. q.list = "secrets" /\ q.of = stored[wallet]
    <3>1. q = [list |-> pending[i].list, of |-> stored[pending[i].of]]
      BY <2>4
    <3> HIDE DEF q
    <3>2. QED
      BY <1>1, <2>2, <3>1
  <2>6. pending' = [pending EXCEPT ![i] = q]
    BY <1>1, Zenon
  <2> HIDE DEF q
  <2>7. /\ DOMAIN pending' = DOMAIN pending
        /\ \A j \in DOMAIN pending : pending'[j] = IF j = i THEN q ELSE pending[j]
    BY <2>3, <2>6
  <2>8. ReadInv'
    BY <1>1, <2>1, <2>2, <2>5, <2>7 DEF ReadInv
  <2>9. DoneInv'
    BY <1>1, <2>1 DEF DoneInv
  <2>10. ListedInv'
    <3>1. DOMAIN <<>> = {}
      OBVIOUS
    <3>2. QED
      BY <2>7, <3>1 DEF ListedInv
  <2>11. QED
    BY <2>8, <2>9, <2>10
<1>4. QED
  BY <1>2, <1>3 DEF SecretsInv

\* A secret is added or deleted.
LEMMA HandleSecrets ==
    ASSUME SecretsInv, NEW op \in Op, NEW s \in Secret, handle(op, s)
    PROVE  SecretsInv'
<1> DEFINE n == [op |-> op, secret |-> s, by |-> wallet, here |-> TRUE, at |-> "sent"]
<1>1. /\ UNCHANGED <<wallet, page, stored, pending, shown, upset>>
      /\ page = "secrets" /\ \A e \in edits : e.secret # s
      /\ edits' = edits \cup {n}
  BY DEF handle, accountVars, pageVars
<1>2. /\ n \in Edit /\ n.secret = s /\ n.by = wallet /\ n.at = "sent" /\ n.here
  BY DEF SecretsInv, SecretsType, Edit
<1> HIDE DEF n
<1>3. SecretsType'
  <2>1. edits' \subseteq Edit
    BY <1>1, <1>2 DEF SecretsInv, SecretsType
  <2>2. QED
    BY <1>1, <2>1 DEF SecretsInv, SecretsType, Edit
<1>4. EditsInv'
  BY <1>1, <1>2 DEF SecretsInv, EditsInv
<1>5. ASSUME page' = "secrets", ~upset'
      PROVE  DoneInv' /\ ReadInv' /\ ListedInv'
  <2>1. DoneInv /\ ReadInv /\ ListedInv
    BY <1>1, <1>5 DEF SecretsInv
  <2>2. DoneInv'
    BY <1>1, <1>2, <2>1 DEF DoneInv
  <2>3. \A o : Done(o)' = Done(o)
    <3>1. "sent" # "done"
      OBVIOUS
    <3>2. QED
      BY <1>1, <1>2, <3>1 DEF Done
  <2>4. QED
    BY <1>1, <2>1, <2>2, <2>3 DEF ReadInv, ListedInv, Listed
<1>6. QED
  BY <1>3, <1>4, <1>5 DEF SecretsInv

\* The server does what a page asked for.
LEMMA ApplySecrets ==
    ASSUME ConsoleAssumptions, ListsInv, SecretsInv, NEW e \in edits, NEW ok \in BOOLEAN, apply(e, ok)
    PROVE  SecretsInv'
<1> DEFINE f == [e EXCEPT !.at = IF ok THEN "done" ELSE "refused"]
<1>1. /\ UNCHANGED <<wallet, page, pending, shown>>
      /\ e.at = "sent" /\ (ok => e.by # None)
      /\ edits' = (edits \ {e}) \cup IF e.here THEN {f} ELSE {}
      /\ stored' = IF ~ok THEN stored
                   ELSE [stored EXCEPT ![e.by] =
                           IF e.op = "add" THEN @ \cup {e.secret} ELSE @ \ {e.secret}]
      /\ upset' = (upset \/ ~ok \/ ~e.here \/
                      \E i \in DOMAIN pending : pending[i].list = "secrets" /\ ~Unread(pending[i]))
  BY DEF apply, accountVars
<1>2. e \in Edit /\ e.op \in Op /\ e.secret \in Secret /\ e.by \in Team \cup {None}
  BY DEF SecretsInv, SecretsType, Edit
<1>3. /\ f \in Edit /\ f.op = e.op /\ f.secret = e.secret /\ f.by = e.by /\ f.here = e.here
      /\ f.at = IF ok THEN "done" ELSE "refused"
  BY <1>2, EditAt
<1> HIDE DEF f
<1>4. SecretsType'
  <2>1. edits' \subseteq Edit
    BY <1>1, <1>3 DEF SecretsInv, SecretsType
  <2>2. stored' \in [Team -> SUBSET Secret]
    <3>1. stored \in [Team -> SUBSET Secret]
      BY DEF SecretsInv, SecretsType
    <3>2. CASE ~ok
      BY <1>1, <3>1, <3>2
    <3>3. CASE ok
      <4>1. e.by \in Team
        BY <1>1, <1>2, <3>3
      <4>2. QED
        BY <1>1, <1>2, <3>1, <3>3, <4>1
    <3>4. QED
      BY <3>2, <3>3
  <2>3. QED
    BY <1>1, <2>1, <2>2 DEF SecretsInv, SecretsType, Edit
<1>5. \A d \in edits \ {e} : d.secret # e.secret
  BY DEF SecretsInv, EditsInv
<1>6. EditsInv'
  <2>1. \A d \in edits' : (d \in edits /\ d # e) \/ (e.here /\ d = f)
    BY <1>1
  <2>2. \A d, g \in edits' : d.secret = g.secret => d = g
    BY <1>3, <1>5, <2>1 DEF SecretsInv, EditsInv
  <2>3. \A d \in edits' : d.at # "sent" => d.here
    BY <1>3, <2>1 DEF SecretsInv, EditsInv
  <2>4. page' # "secrets" => \A d \in edits' : ~d.here
    BY <1>1, <1>3, <2>1 DEF SecretsInv, EditsInv
  <2>5. QED
    BY <2>2, <2>3, <2>4 DEF EditsInv
<1>7. ASSUME page' = "secrets", ~upset'
      PROVE  DoneInv' /\ ReadInv' /\ ListedInv'
  <2>1. /\ page = "secrets" /\ ~upset /\ ok /\ e.here
        /\ \A i \in DOMAIN pending : pending[i].list = "secrets" => Unread(pending[i])
    BY <1>1, <1>7
  <2>2. DoneInv /\ ReadInv /\ ListedInv
    BY <2>1 DEF SecretsInv
  <2>3. e.by = wallet /\ wallet \in Team
    BY <1>1, <1>2, <2>1, <2>2 DEF DoneInv
  <2>4. stored[wallet] \in SUBSET Secret
    BY <2>3 DEF SecretsInv, SecretsType
  <2>5. stored'[wallet] = IF e.op = "add" THEN stored[wallet] \cup {e.secret}
                          ELSE stored[wallet] \ {e.secret}
    BY <1>1, <2>1, <2>3 DEF SecretsInv, SecretsType
  <2>6. edits' = (edits \ {e}) \cup {f} /\ f.at = "done" /\ f.here
    BY <1>1, <1>3, <2>1
  <2>7. DoneInv'
    <3> SUFFICES ASSUME NEW d \in edits', d.here
                 PROVE  /\ d.by = wallet
                        /\ d.at \in {"sent", "done"}
                        /\ d.at = "done" => /\ wallet \in Team
                                            /\ d.op = "add" <=> d.secret \in stored'[wallet]
      BY <1>1 DEF DoneInv
    <3>1. CASE d = f
      BY <1>3, <2>3, <2>5, <2>6, <3>1
    <3>2. CASE d \in edits \ {e}
      <4>1. d.secret # e.secret
        BY <1>5, <3>2
      <4>2. d.secret \in stored'[wallet] <=> d.secret \in stored[wallet]
        BY <2>5, <4>1
      <4>3. QED
        BY <2>2, <3>2, <4>2 DEF DoneInv
    <3>3. QED
      BY <2>6, <3>1, <3>2
  <2>8. ReadInv'
    <3>1. \A i \in DOMAIN pending : pending[i].list = "secrets" /\ pending[i].of = wallet
      <4> TAKE i \in DOMAIN pending
      <4>1. /\ pending[i].list = "secrets"
            /\ pending[i].of = wallet \/ pending[i].of = stored[wallet]
        BY <2>2 DEF ReadInv
      <4>2. pending[i].of \in Team \cup {None}
        BY <2>1, <4>1 DEF Unread
      <4>3. QED
        BY <2>4, <4>1, <4>2 DEF ConsoleAssumptions
    <3>2. QED
      BY <1>1, <3>1 DEF ReadInv
  <2>9. ListedInv'
    <3> SUFFICES ASSUME pending = <<>>
                 PROVE  (Listed \ Done("delete")') \cup Done("add")' = stored'[wallet]
      BY <1>1, <2>3 DEF ListedInv, Listed
    <3>1. (Listed \ Done("delete")) \cup Done("add") = stored[wallet]
      BY <2>2 DEF ListedInv
    <3>2. e \notin {d \in edits : d.here /\ d.at = "done"}
      BY <1>1
    <3>3. \A o : Done(o)' = Done(o) \cup IF e.op = o THEN {e.secret} ELSE {}
      BY <1>3, <2>6, <3>2 DEF Done
    <3>4. \A o : e.secret \notin Done(o)
      BY <1>5, <3>2 DEF Done
    <3>5. e.op = "add" \/ e.op = "delete"
      BY <1>2 DEF Op
    <3> DEFINE x == e.secret
               L == Listed
               A == Done("add")
               D0 == Done("delete")
               W == stored[wallet]
    <3> HIDE DEF x, L, A, D0, W
    <3>6. CASE e.op = "add"
      <4>1. (L \ D0) \cup (A \cup {x}) = W \cup {x}
        BY <3>1 DEF L, D0, A, W
      <4>2. Done("add")' = A \cup {x} /\ Done("delete")' = D0
        BY <3>3, <3>6 DEF A, D0, x
      <4>3. stored'[wallet] = W \cup {x}
        BY <2>5, <3>6 DEF W, x
      <4>4. QED
        BY <4>1, <4>2, <4>3 DEF L
    <3>7. CASE e.op = "delete"
      <4>1. (L \ (D0 \cup {x})) \cup A = W \ {x}
        <5>1. (L \ D0) \cup A = W /\ x \notin A
          BY <3>1, <3>4 DEF L, D0, A, W, x
        <5>2. QED
          BY <5>1
      <4>2. Done("add")' = A /\ Done("delete")' = D0 \cup {x}
        BY <3>3, <3>7 DEF A, D0, x
      <4>3. stored'[wallet] = W \ {x}
        BY <2>5, <3>7 DEF W, x
      <4>4. QED
        BY <4>1, <4>2, <4>3 DEF L
    <3>8. QED
      BY <3>5, <3>6, <3>7
  <2>10. QED
    BY <2>7, <2>8, <2>9
<1>8. QED
  BY <1>4, <1>6, <1>7 DEF SecretsInv

\* The answer comes: the list is loaded again, or the secret taken out of it.
LEMMA EditedSecrets ==
    ASSUME ConsoleAssumptions, ListsInv, SecretsInv, NEW e \in edits, NEW lost \in BOOLEAN, edited(e, lost)
    PROVE  SecretsInv'
<1>1. /\ UNCHANGED <<wallet, page, stored>>
      /\ e.at # "sent" /\ edits' = edits \ {e} /\ upset' = (upset \/ lost)
      /\ ~lost =>
            \/ /\ e.op = "add" /\ shown' = shown
               /\ pending' = IF e.at = "done" THEN Append(pending, Request("secrets", wallet))
                             ELSE pending
            \/ /\ e.op = "delete" /\ pending' = pending
               /\ shown' = [shown EXCEPT !["secrets"] = Listed \ {e.secret}]
  BY DEF edited, accountVars
<1>2. e \in Edit /\ e.secret \in Secret /\ e.here
  BY <1>1 DEF SecretsInv, SecretsType, EditsInv, Edit
<1>3. SecretsType' /\ EditsInv'
  BY <1>1 DEF SecretsInv, SecretsType, EditsInv, Edit
<1>4. ASSUME page' = "secrets", ~upset'
      PROVE  DoneInv' /\ ReadInv' /\ ListedInv'
  <2>1. page = "secrets" /\ ~upset /\ ~lost
    BY <1>1, <1>4
  <2>2. DoneInv /\ ReadInv /\ ListedInv
    BY <2>1 DEF SecretsInv
  <2>3. e.at = "done" /\ wallet \in Team /\ (e.op = "add" <=> e.secret \in stored[wallet])
    BY <1>1, <1>2, <2>2 DEF DoneInv
  <2>4. DoneInv'
    BY <1>1, <2>2 DEF DoneInv
  <2>5. PICK S : pending \in Seq(Asked(S))
    BY DEF ListsInv, ConsoleType
  <2>6. CASE e.op = "add"
    <3> DEFINE r == Request("secrets", wallet)
    <3>1. r \in Asked({wallet}) /\ r.list = "secrets" /\ r.of = wallet
      BY DEF Request, Asked, List
    <3>2. pending' = Append(pending, r)
      BY <1>1, <2>1, <2>3, <2>6
    <3> HIDE DEF r
    <3>3. pending \in Seq(Asked(S \cup {wallet})) /\ r \in Asked(S \cup {wallet})
      BY <2>5, <3>1, AskedMore DEF Asked
    <3>4. /\ DOMAIN pending' = 1 .. Len(pending) + 1 /\ Len(pending) \in Nat
          /\ DOMAIN pending = 1 .. Len(pending)
          /\ \A i \in 1 .. Len(pending) : pending'[i] = pending[i]
          /\ pending'[Len(pending) + 1] = r
      BY <3>2, <3>3
    <3>5. \A i \in DOMAIN pending' : \/ i \in DOMAIN pending /\ pending'[i] = pending[i]
                                     \/ pending'[i] = r
      BY <3>4
    <3>6. ReadInv'
      BY <1>1, <2>2, <3>1, <3>5 DEF ReadInv
    <3>7. pending' # <<>>
      <4>1. 1 \in DOMAIN pending' /\ DOMAIN <<>> = {}
        BY <3>4
      <4>2. QED
        BY <4>1
    <3>8. QED
      BY <2>4, <3>6, <3>7 DEF ListedInv
  <2>7. CASE e.op = "delete"
    <3>1. pending' = pending /\ shown' = [shown EXCEPT !["secrets"] = Listed \ {e.secret}]
      BY <1>1, <2>1, <2>7
    <3>2. ReadInv'
      BY <1>1, <2>2, <3>1 DEF ReadInv
    <3>3. ListedInv'
      <4> SUFFICES ASSUME pending = <<>>
                   PROVE  (Listed' \ Done("delete")') \cup Done("add")' = stored[wallet]
        BY <1>1, <2>3, <3>1 DEF ListedInv
      <4>1. (Listed \ Done("delete")) \cup Done("add") = stored[wallet]
        BY <2>2 DEF ListedInv
      <4>2. Listed \ {e.secret} \in SUBSET Secret
        <5>1. Done("delete") \subseteq Secret
          BY DEF Done, SecretsInv, SecretsType, Edit
        <5>2. stored[wallet] \subseteq Secret
          BY <2>3 DEF SecretsInv, SecretsType
        <5>3. QED
          BY <4>1, <5>1, <5>2
      <4>3. shown'["secrets"] = Listed \ {e.secret}
        <5>1. shown = [l \in List |-> shown[l]] /\ "secrets" \in List
          BY DEF ListsInv, ConsoleType, List
        <5>2. "secrets" \in DOMAIN shown
          BY <5>1
        <5>3. QED
          BY <3>1, <5>2
      <4>4. Listed' = Listed \ {e.secret}
        BY <4>2, <4>3 DEF Listed, ConsoleAssumptions
      <4>5. Done("add")' = Done("add")
        BY <1>1, <2>7 DEF Done
      <4>6. Done("delete")' \cup {e.secret} = Done("delete")
        BY <1>1, <1>2, <2>3, <2>7 DEF Done
      <4>7. e.secret \notin stored[wallet]
        BY <2>3, <2>7
      <4> DEFINE x == e.secret
                 L == Listed
                 A == Done("add")
                 D0 == Done("delete")
                 D1 == Done("delete")'
                 W == stored[wallet]
      <4> HIDE DEF x, L, A, D0, D1, W
      <4>8. ((L \ {x}) \ D1) \cup A = W
        <5>1. (L \ D0) \cup A = W /\ D1 \cup {x} = D0
          BY <4>1, <4>6 DEF L, D0, D1, A, W, x
        <5>2. QED
          BY <5>1
      <4>9. QED
        BY <4>4, <4>5, <4>8 DEF L, D1, A, W, x
    <3>4. QED
      BY <2>4, <3>2, <3>3
  <2>8. QED
    BY <1>2, <2>6, <2>7 DEF Edit, Op
<1>5. QED
  BY <1>3, <1>4 DEF SecretsInv

LEMMA SecretsHold ==
    ASSUME ConsoleAssumptions
    PROVE  Spec => []SecretsInv
<1>1. Init => SecretsInv
  <2> SUFFICES ASSUME Init
               PROVE  SecretsInv
    OBVIOUS
  <2>1. wallet = None /\ stored = [t \in Team |-> {}] /\ edits = {} /\ page = "signin"
    BY DEF Init
  <2>2. QED
    BY <2>1 DEF SecretsInv, SecretsType, EditsInv
<1>2. ListsInv /\ SecretsInv /\ [Next]_vars => SecretsInv'
  <2> SUFFICES ASSUME ListsInv, SecretsInv, [Next]_vars
               PROVE  SecretsInv'
    OBVIOUS
  <2>1. CASE UNCHANGED vars
    BY <2>1, SameSecrets DEF vars, accountVars, pageVars
  <2>2. ASSUME NEW s, selectSession(s)
        PROVE  SecretsInv'
    <3>1. page' # "secrets" /\ UNCHANGED <<wallet, stored, edits, page>>
      BY <2>2 DEF selectSession, accountVars
    <3>2. QED
      BY <3>1 DEF SecretsInv, SecretsType, EditsInv, Edit
  <2>3. CASE Next
    <3>1. \/ expire \/ logout
          \/ \E w \in Team : signIn(w) \/ switchWallet(w)
          \/ \E p \in Page : open(p)
          \/ \E t \in Team : setTeam(t)
          \/ \E s : selectSession(s)
          \/ \E i \in DOMAIN pending, how \in {"ok", "refused", "lost"} : answer(i, how)
          \/ \E i \in DOMAIN pending : listSecrets(i)
          \/ \E op \in Op, s \in Secret : handle(op, s)
          \/ \E e \in edits : \E b \in BOOLEAN : apply(e, b) \/ edited(e, b)
      BY <2>3 DEF Next, Answer
    <3>2. QED
      BY <2>2, <3>1, AccountSecrets, AnswerSecrets, ReadSecrets, HandleSecrets, ApplySecrets,
         EditedSecrets
  <2>4. QED
    BY <2>1, <2>3
<1>3. QED
  BY <1>1, <1>2, ListsHold, PTL DEF Spec

\* For any wallets and secrets, and however many are added and deleted at once:
\* a page at rest whose requests did not fail, and whose wallet and secrets
\* nobody else changed, shows the secrets the server holds.
THEOREM SecretsAreListed ==
    ASSUME ConsoleAssumptions
    PROVE  Spec => []SecretsListed
<1>1. SecretsInv => SecretsListed
  <2> SUFFICES ASSUME SecretsInv, page = "secrets", pending = <<>>, edits = {}, ~upset
               PROVE  Listed = stored[wallet]
    BY DEF SecretsListed
  <2>1. Done("add") = {} /\ Done("delete") = {}
    BY DEF Done
  <2>2. QED
    BY <2>1 DEF SecretsInv, ListedInv
<1>2. QED
  BY <1>1, SecretsHold, PTL

-----------------------------------------------------------------------------
(* The spinner turns for an answer on its way. *)

Awaits(s, l) == \E i \in DOMAIN s : s[i].list = l

LEMMA ConcatAwaits ==
    ASSUME NEW S, NEW s \in Seq(S), NEW q \in Seq(S), NEW l, Awaits(s, l) \/ Awaits(q, l)
    PROVE  Awaits(s \o q, l)
<1>1. /\ Len(s) \in Nat /\ Len(q) \in Nat /\ DOMAIN s = 1 .. Len(s) /\ DOMAIN q = 1 .. Len(q)
      /\ DOMAIN (s \o q) = 1 .. Len(s) + Len(q)
      /\ \A i \in 1 .. Len(s) : (s \o q)[i] = s[i]
      /\ \A i \in 1 .. Len(q) : (s \o q)[Len(s) + i] = q[i]
  OBVIOUS
<1> DEFINE t == s \o q
<1> HIDE DEF t
<1>2. /\ DOMAIN t = 1 .. Len(s) + Len(q)
      /\ \A i \in 1 .. Len(s) : t[i] = s[i]
      /\ \A i \in 1 .. Len(q) : t[Len(s) + i] = q[i]
  BY <1>1 DEF t
<1>3. ASSUME NEW i \in DOMAIN s, s[i].list = l
      PROVE  Awaits(t, l)
  BY <1>1, <1>2, <1>3 DEF Awaits
<1>4. ASSUME NEW i \in DOMAIN q, q[i].list = l
      PROVE  Awaits(t, l)
  <2>1. Len(s) + i \in DOMAIN t /\ t[Len(s) + i] = q[i]
    BY <1>1, <1>2
  <2>2. QED
    BY <1>4, <2>1 DEF Awaits
<1>5. QED
  BY <1>3, <1>4 DEF Awaits, t

\* Another answer comes first.
LEMMA RemoveAwaits ==
    ASSUME NEW S, NEW s \in Seq(S), NEW i \in DOMAIN s, NEW l, Awaits(s, l), s[i].list # l
    PROVE  Awaits(RemoveAt(s, i), l)
<1> DEFINE t == RemoveAt(s, i)
<1>1. /\ DOMAIN t = 1 .. Len(s) - 1
      /\ \A k \in 1 .. Len(s) - 1 : t[k] = IF k < i THEN s[k] ELSE s[k + 1]
  BY RemoveElement
<1> HIDE DEF t
<1>2. i \in 1 .. Len(s) /\ Len(s) \in Nat /\ DOMAIN s = 1 .. Len(s)
  OBVIOUS
<1>3. PICK j \in DOMAIN s : s[j].list = l
  BY DEF Awaits
<1>4. CASE j < i
  <2>1. j \in DOMAIN t /\ t[j] = s[j]
    BY <1>1, <1>2, <1>4
  <2>2. QED
    BY <1>3, <2>1 DEF Awaits, t
<1>5. CASE j > i
  <2>1. j - 1 \in DOMAIN t /\ ~(j - 1 < i) /\ (j - 1) + 1 = j
    BY <1>1, <1>2, <1>5
  <2>2. t[j - 1] = s[j]
    BY <1>1, <2>1
  <2>3. QED
    BY <1>3, <2>1, <2>2 DEF Awaits, t
<1>6. QED
  BY <1>2, <1>3, <1>4, <1>5

LEMMA SameAwaits ==
    ASSUME NEW s, NEW t, NEW l, DOMAIN t = DOMAIN s, \A i \in DOMAIN s : t[i].list = s[i].list,
           Awaits(s, l)
    PROVE  Awaits(t, l)
BY DEF Awaits

\* What a page opens with a spinner for, it asks for.
LEMMA MountAwaits ==
    ASSUME NEW p \in {"payments", "secrets", "verify", "plan"}
    PROVE  Awaits(MountRequests(p), Awaited(p))
<1> DEFINE l == Awaited(p)
<1>1. MountLists(p) = <<l>>
  BY DEF MountLists, PaymentsLists, SecretsLists, VerifyLists, PlanLists, Awaited
<1> HIDE DEF l
<1>2. DOMAIN <<l>> = {1} /\ <<l>>[1] = l
  OBVIOUS
<1>3. MountRequests(p) = [i \in DOMAIN <<l>> |-> Request(<<l>>[i], wallet)]
  BY <1>1 DEF MountRequests
<1>4. 1 \in DOMAIN MountRequests(p) /\ MountRequests(p)[1] = Request(l, wallet)
  BY <1>2, <1>3
<1>5. Request(l, wallet).list = l
  BY DEF Request
<1>6. QED
  BY <1>4, <1>5 DEF Awaits, l

LEMMA TeamAwaits ==
    ASSUME NEW p \in {"home", "sessions", "attestations", "provider"}, NEW t, t # None
    PROVE  Awaits(TeamRequests(p, t), Awaited(p))
<1>1. OfTeam(TeamRequests(p, t), p, t)
  BY TeamAsks
<1>2. Awaited(p) \in Followed(p)
  BY DEF Awaited, Followed
<1>3. QED
  BY <1>1, <1>2 DEF OfTeam, Awaits

LEMMA MountSpins ==
    ASSUME NEW p \in Page, Mount(p, teamId')
    PROVE  SpinnerWaits'
<1> DEFINE a == TeamRequests(p, teamId')
           b == MountRequests(p)
<1>1. /\ page' = p /\ pending' = a \o b
      /\ loading' = Spins(p, teamId', p \notin {"home", "audit", "signin"})
  BY DEF Mount
<1>2. PICK t : t = teamId'
  OBVIOUS
<1>3. a \in Seq(Asked({t, None} \cup {wallet})) /\ b \in Seq(Asked({t, None} \cup {wallet}))
  <2>1. OfTeam(TeamRequests(p, t), p, t) /\ MountRequests(p) \in Seq(Asked({wallet}))
    BY TeamAsks, MountAsks
  <2>2. QED
    BY <1>2, <2>1, AskedMore DEF OfTeam
<1>4. loading' => Awaits(a, Awaited(p)) \/ Awaits(b, Awaited(p))
  <2> SUFFICES ASSUME loading'
               PROVE  Awaits(a, Awaited(p)) \/ Awaits(b, Awaited(p))
    OBVIOUS
  <2>1. CASE p \in {"home", "sessions", "attestations", "provider"}
    <3>1. t # None
      BY <1>1, <1>2, <2>1 DEF Spins
    <3>2. Awaits(TeamRequests(p, t), Awaited(p))
      BY <2>1, <3>1, TeamAwaits
    <3>3. QED
      BY <1>2, <3>2
  <2>2. CASE p \in {"audit", "signin"}
    BY <1>1, <2>2 DEF Spins
  <2>3. CASE p \in {"payments", "secrets", "verify", "plan"}
    BY <2>3, MountAwaits
  <2>4. QED
    BY <2>1, <2>2, <2>3 DEF Page
<1> HIDE DEF a, b
<1>5. loading' => Awaits(a \o b, Awaited(p))
  BY <1>3, <1>4, ConcatAwaits
<1>6. QED
  BY <1>1, <1>5 DEF SpinnerWaits, Awaits

\* The account changes under a page that stays.
LEMMA FollowSpins ==
    ASSUME ListsInv, SpinnerWaits, NEW t, Follow(t), page' = page
    PROVE  SpinnerWaits'
<1> DEFINE a == TeamRequests(page, t)
<1>1. pending' = pending \o a /\ loading' = Spins(page, t, loading)
  BY DEF Follow
<1>2. PICK S : pending \in Seq(Asked(S))
  BY DEF ListsInv, ConsoleType
<1>3. pending \in Seq(Asked(S \cup {t, None})) /\ a \in Seq(Asked(S \cup {t, None}))
  BY <1>2, TeamAsks, AskedMore DEF OfTeam
<1>4. loading' => loading \/ (page = "home" /\ t # None)
  BY <1>1 DEF Spins
<1>5. loading' => Awaits(pending, Awaited(page)) \/ Awaits(a, Awaited(page))
  BY <1>4, TeamAwaits DEF SpinnerWaits, Awaits
<1> HIDE DEF a
<1>6. loading' => Awaits(pending \o a, Awaited(page))
  BY <1>3, <1>5, ConcatAwaits
<1>7. QED
  BY <1>1, <1>6 DEF SpinnerWaits, Awaits

\* A request for the log goes out with the spinner.
LEMMA AskLogSpins ==
    ASSUME page' = "audit", NEW S, NEW s \in Seq(Asked(S)), NEW f,
           pending' = Append(s, Request("log", f))
    PROVE  SpinnerWaits'
<1> DEFINE r == Request("log", f)
           q == <<r>>
<1>1. r \in Asked({f}) /\ r.list = "log"
  BY DEF Request, Asked, List
<1>2. s \in Seq(Asked(S \cup {f})) /\ r \in Asked(S \cup {f})
  BY <1>1, AskedMore DEF Asked
<1> HIDE DEF r
<1>3. /\ Append(s, r) = s \o q /\ q \in Seq(Asked(S \cup {f}))
      /\ DOMAIN q = {1} /\ q[1] = r
  BY <1>2
<1>4. pending' = s \o q
  BY <1>3 DEF r
<1> HIDE DEF q
<1>5. Awaits(q, "log")
  BY <1>1, <1>3 DEF Awaits
<1>6. Awaits(s \o q, "log")
  BY <1>2, <1>3, <1>5, ConcatAwaits
<1>7. Awaited("audit") = "log"
  BY DEF Awaited
<1>8. QED
  BY <1>4, <1>6, <1>7 DEF SpinnerWaits, Awaits

LEMMA AnswerSpins ==
    ASSUME ListsInv, SpinnerWaits, NEW i \in DOMAIN pending, NEW how \in {"ok", "refused", "lost"},
           answer(i, how)
    PROVE  SpinnerWaits'
<1> DEFINE r == pending[i]
           rest == RemoveAt(pending, i)
<1>1. /\ page' = page
      /\ IF page = "audit" /\ r.list = "sessions"
         THEN IF how = "ok" THEN selectFirst(r.of, rest) ELSE loading' = loading /\ pending' = rest
         ELSE loading' = (loading /\ r.list # Awaited(page)) /\ pending' = rest
  BY DEF answer, accountVars
<1>2. PICK S : pending \in Seq(Asked(S))
  BY DEF ListsInv, ConsoleType
<1>3. rest \in Seq(Asked(S))
  BY <1>2, RemoveElement
<1>4. ASSUME loading, r.list # Awaited(page)
      PROVE  Awaits(rest, Awaited(page))
  <2>1. Awaits(pending, Awaited(page))
    BY <1>4 DEF SpinnerWaits, Awaits
  <2>2. QED
    BY <1>2, <1>4, <2>1, RemoveAwaits
<1> HIDE DEF rest
<1>5. ASSUME pending' = rest, loading' => loading /\ r.list # Awaited(page)
      PROVE  SpinnerWaits'
  BY <1>1, <1>4, <1>5 DEF SpinnerWaits, Awaits
<1>6. CASE ~(page = "audit" /\ r.list = "sessions")
  BY <1>1, <1>5, <1>6
<1>7. CASE page = "audit" /\ r.list = "sessions"
  <2>1. r.list # Awaited(page)
    BY <1>7 DEF Awaited
  <2>2. CASE how # "ok"
    BY <1>1, <1>5, <1>7, <2>1, <2>2
  <2>3. CASE how = "ok"
    <3> DEFINE t == r.of
               first == Sessions(t)[1]
    <3>1. selectFirst(t, rest)
      BY <1>1, <1>7, <2>3
    <3>2. CASE Sessions(t) = <<>> \/ sessionFilter = first
      <4>1. pending' = rest /\ (loading' => loading)
        BY <3>1, <3>2 DEF selectFirst
      <4>2. QED
        BY <1>5, <2>1, <4>1
    <3>3. CASE Sessions(t) # <<>> /\ sessionFilter # first
      <4>1. pending' = Append(rest, Request("log", first))
        BY <3>1, <3>3 DEF selectFirst
      <4>2. QED
        BY <1>1, <1>3, <1>7, <4>1, AskLogSpins
    <3>4. QED
      BY <3>2, <3>3
  <2>4. QED
    BY <2>2, <2>3
<1>8. QED
  BY <1>6, <1>7

\* The secrets are read, and listed again.
LEMMA SecretsSpin ==
    ASSUME ListsInv, SpinnerWaits,
           \/ \E i \in DOMAIN pending : listSecrets(i)
           \/ \E e \in edits, lost \in BOOLEAN : edited(e, lost)
    PROVE  SpinnerWaits'
<1>1. PICK S : pending \in Seq(Asked(S))
  BY DEF ListsInv, ConsoleType
<1>2. ASSUME NEW i \in DOMAIN pending, listSecrets(i)
      PROVE  SpinnerWaits'
  <2> DEFINE q == [pending[i] EXCEPT !.of = stored[pending[i].of]]
  <2>1. pending' = [pending EXCEPT ![i].of = stored[@]] /\ UNCHANGED <<page, loading>>
    BY <1>2 DEF listSecrets, accountVars
  <2>2. pending' = [pending EXCEPT ![i] = q]
    BY <2>1, Zenon
  <2>3. q.list = pending[i].list
    <3>1. pending[i] \in Asked(S)
      BY <1>1
    <3>2. q = [list |-> pending[i].list, of |-> stored[pending[i].of]]
      BY <3>1 DEF Asked
    <3> HIDE DEF q
    <3>3. QED
      BY <3>2
  <2> HIDE DEF q
  <2>4. /\ DOMAIN pending' = DOMAIN pending
        /\ \A j \in DOMAIN pending : pending'[j].list = pending[j].list
    BY <1>1, <2>2, <2>3
  <2>5. QED
    BY <2>1, <2>4 DEF SpinnerWaits
<1>3. ASSUME NEW e \in edits, NEW lost \in BOOLEAN, edited(e, lost)
      PROVE  SpinnerWaits'
  <2> DEFINE r == Request("secrets", wallet)
             q == <<r>>
  <2>1. /\ UNCHANGED <<page, loading>>
        /\ pending' = pending \/ pending' = Append(pending, r)
    BY <1>3 DEF edited, accountVars
  <2>2. r \in Asked({wallet})
    BY DEF Request, Asked, List
  <2>3. pending \in Seq(Asked(S \cup {wallet})) /\ r \in Asked(S \cup {wallet})
    BY <1>1, <2>2, AskedMore DEF Asked
  <2> HIDE DEF r
  <2>4. Append(pending, r) = pending \o q /\ q \in Seq(Asked(S \cup {wallet}))
    BY <2>3
  <2> HIDE DEF q
  <2>5. loading => Awaits(pending, Awaited(page)) /\ Awaits(pending \o q, Awaited(page))
    BY <2>3, <2>4, ConcatAwaits DEF SpinnerWaits, Awaits
  <2>6. QED
    BY <2>1, <2>4, <2>5 DEF SpinnerWaits, Awaits
<1>4. QED
  BY <1>2, <1>3

\* For any accounts, sessions and numbers of requests: a page never waits for an
\* answer that is not on its way.
THEOREM NoIdleSpinner == Spec => []SpinnerWaits
<1>1. Init => SpinnerWaits
  BY DEF Init, SpinnerWaits
<1>2. ListsInv /\ SpinnerWaits /\ [Next]_vars => SpinnerWaits'
  <2> SUFFICES ASSUME ListsInv, SpinnerWaits, [Next]_vars
               PROVE  SpinnerWaits'
    OBVIOUS
  <2>1. ASSUME UNCHANGED <<page, loading, pending>>
        PROVE  SpinnerWaits'
    BY <2>1 DEF SpinnerWaits
  <2>2. ASSUME NEW p \in Page, NEW t, teamId' = t, Mount(p, t)
        PROVE  SpinnerWaits'
    BY <2>2, MountSpins
  <2>3. {"home", "signin"} \subseteq Page
    BY DEF Page
  <2>4. CASE UNCHANGED vars
    BY <2>1, <2>4 DEF vars, pageVars
  <2>5. CASE expire
    BY <2>1, <2>2, <2>3, <2>5 DEF expire, pageVars
  <2>6. CASE logout
    BY <2>1, <2>2, <2>3, <2>6, FollowSpins DEF logout
  <2>7. ASSUME NEW w, signIn(w)
        PROVE  SpinnerWaits'
    BY <2>1, <2>2, <2>3, <2>7 DEF signIn
  <2>8. ASSUME NEW w, switchWallet(w)
        PROVE  SpinnerWaits'
    BY <2>1, <2>8 DEF switchWallet
  <2>9. ASSUME NEW p \in Page, open(p)
        PROVE  SpinnerWaits'
    BY <2>2, <2>3, <2>9 DEF open, accountVars
  <2>10. ASSUME NEW t, setTeam(t)
         PROVE  SpinnerWaits'
    BY <2>10, FollowSpins DEF setTeam
  <2>11. ASSUME NEW s, selectSession(s)
         PROVE  SpinnerWaits'
    <3>1. CASE s = None
      BY <2>1, <2>11, <3>1 DEF selectSession, accountVars
    <3>2. CASE s # None
      <4>1. page' = "audit" /\ pending' = Append(pending, Request("log", s))
        BY <2>11, <3>2 DEF selectSession, accountVars
      <4>2. QED
        BY <4>1, AskLogSpins DEF ListsInv, ConsoleType
    <3>3. QED
      BY <3>1, <3>2
  <2>12. ASSUME NEW op, NEW s, handle(op, s)
         PROVE  SpinnerWaits'
    BY <2>1, <2>12 DEF handle, pageVars
  <2>13. ASSUME NEW e, NEW b, apply(e, b)
         PROVE  SpinnerWaits'
    BY <2>1, <2>13 DEF apply
  <2>14. CASE Next
    <3>1. \/ expire \/ logout
          \/ \E w \in Team : signIn(w) \/ switchWallet(w)
          \/ \E p \in Page : open(p)
          \/ \E t \in Team : setTeam(t)
          \/ \E s : selectSession(s)
          \/ \E i \in DOMAIN pending, how \in {"ok", "refused", "lost"} : answer(i, how)
          \/ \E i \in DOMAIN pending : listSecrets(i)
          \/ \E op \in Op, s \in Secret : handle(op, s)
          \/ \E e \in edits : \E b \in BOOLEAN : apply(e, b) \/ edited(e, b)
      BY <2>14 DEF Next, Answer
    <3>2. QED
      BY <2>5, <2>6, <2>7, <2>8, <2>9, <2>10, <2>11, <2>12, <2>13, <3>1, AnswerSpins, SecretsSpin
  <2>15. QED
    BY <2>4, <2>14
<1>3. QED
  BY <1>1, <1>2, ListsHold, PTL DEF Spec

=============================================================================
