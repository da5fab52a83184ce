-------------------------- MODULE Services_proofs --------------------------
(***************************************************************************)
(* Proofs about HostGlob and Services, for every set of names, users,      *)
(* globs, hosts and labels.                                                *)
(***************************************************************************)
EXTENDS Services, FiniteSetTheorems, TLAPS

-----------------------------------------------------------------------------
(* Overlap of two globs *)

\* A glob and a host as functions on their positions.
LEMMA LabelsTyped ==
  ASSUME NEW S, NEW s \in Seq(S) \ {<<>>}
  PROVE  Len(s) \in Nat \ {0} /\ DOMAIN s = 1..Len(s) /\ \A i \in 1..Len(s) : s[i] \in S
OBVIOUS

\* Two globs that some host matches both overlap: HostGlobsOverlap, which looks at
\* no host, overlooks no host that authProbe might be asked for.
LEMMA CommonHostOverlaps ==
  ASSUME NEW a \in Glob, NEW b \in Glob, NEW host \in Host,
         HostMatches(a, host), HostMatches(b, host)
  PROVE  HostGlobsOverlap(a, b)
<1>1. CASE AnyHost \in {a, b}
  BY <1>1 DEF HostGlobsOverlap, HostMatches
<1>2. CASE AnyHost \notin {a, b}
  <2>1. /\ Nothing \notin {a, b} /\ Len(a) = Len(host) /\ Len(b) = Len(host)
        /\ \A i \in DOMAIN a : LabelMatches(a[i], host[i])
        /\ \A i \in DOMAIN b : LabelMatches(b[i], host[i])
    BY <1>2 DEF HostMatches
  <2>2. DOMAIN a = DOMAIN b
    BY <2>1, LabelsTyped DEF Glob
  <2>3. \A i \in DOMAIN a : LabelsCompatible(a[i], b[i])
    BY <2>1, <2>2 DEF LabelMatches, LabelsCompatible
  <2>4. QED
    BY <2>1, <2>3 DEF HostGlobsOverlap
<1>3. QED
  BY <1>1, <1>2

\* No host has a port.
LEMMA PortMatchesNothing ==
  ASSUME NEW glob \in Glob, NEW host \in Host, HostMatches(glob, host),
         NEW i \in DOMAIN glob
  PROVE  glob[i] \notin PortLabel
<1>1. CASE glob = AnyHost
  BY <1>1, LabelAssumption DEF AnyHost
<1>2. CASE glob # AnyHost
  <2>1. Len(glob) = Len(host) /\ LabelMatches(glob[i], host[i])
    BY <1>2 DEF HostMatches
  <2>2. i \in 1..Len(host)
    BY <2>1, LabelsTyped DEF Glob
  <2>3. host[i] \in Label \union {Star, NoLabel}
    BY <2>2, LabelsTyped DEF Host
  <2>4. QED
    BY <2>1, <2>3, LabelAssumption DEF LabelMatches
<1>3. QED
  BY <1>1, <1>2

\* And no label is both empty and matched by a Star.
LEMMA SharedIsMeetable ==
  ASSUME NEW a \in Glob, NEW b \in Glob, NEW host \in Host,
         HostMatches(a, host), HostMatches(b, host)
  PROVE  ~Unmeetable(a, b)
<1>1. \A i \in DOMAIN a : a[i] \notin PortLabel
  BY PortMatchesNothing
<1>2. \A i \in DOMAIN b : b[i] \notin PortLabel
  BY PortMatchesNothing
<1>3. ASSUME AnyHost \notin {a, b}, NEW i \in DOMAIN a \intersect DOMAIN b
      PROVE  {a[i], b[i]} # {Star, NoLabel}
  <2>1. LabelMatches(a[i], host[i]) /\ LabelMatches(b[i], host[i])
    BY <1>3 DEF HostMatches
  <2>2. QED
    BY <2>1, LabelAssumption DEF LabelMatches
<1>4. QED
  BY <1>1, <1>2, <1>3 DEF Unmeetable

\* A host that two globs of the same length match: their labels, and any label where
\* both have a Star.
Common(a, b, label) ==
  [i \in DOMAIN a |-> IF a[i] # Star THEN a[i] ELSE IF b[i] # Star THEN b[i] ELSE label]

\* That host is one of Host, and both globs match it.
LEMMA CommonMatches ==
  ASSUME NEW label \in Label, NEW a \in Glob, NEW b \in Glob,
         Nothing \notin {a, b}, Len(a) = Len(b),
         \A i \in DOMAIN a : LabelsCompatible(a[i], b[i]) /\ {a[i], b[i]} # {Star, NoLabel},
         \A i \in DOMAIN a : a[i] \notin PortLabel,
         \A i \in DOMAIN b : b[i] \notin PortLabel
  PROVE  \E host \in Host : HostMatches(a, host) /\ HostMatches(b, host)
<1> DEFINE host == Common(a, b, label)
<1>1. /\ Len(a) \in Nat \ {0} /\ DOMAIN a = 1..Len(a) /\ DOMAIN b = 1..Len(a)
      /\ \A i \in 1..Len(a) : a[i] \in Label \union PortLabel \union {Star, NoLabel}
      /\ \A i \in 1..Len(a) : b[i] \in Label \union PortLabel \union {Star, NoLabel}
  BY LabelsTyped DEF Glob
<1>2. \A i \in 1..Len(a) :
        /\ host[i] \in Label \union {Star, NoLabel}
        /\ LabelMatches(a[i], host[i]) /\ LabelMatches(b[i], host[i])
  <2> SUFFICES ASSUME NEW i \in 1..Len(a)
               PROVE  /\ host[i] \in Label \union {Star, NoLabel}
                      /\ LabelMatches(a[i], host[i]) /\ LabelMatches(b[i], host[i])
    OBVIOUS
  <2>1. host[i] = IF a[i] # Star THEN a[i] ELSE IF b[i] # Star THEN b[i] ELSE label
    BY <1>1 DEF Common
  <2>2. LabelsCompatible(a[i], b[i]) /\ {a[i], b[i]} # {Star, NoLabel}
        /\ a[i] \notin PortLabel /\ b[i] \notin PortLabel
    BY <1>1
  <2>3. label # NoLabel /\ Star # NoLabel
    BY LabelAssumption
  <2> HIDE DEF host
  <2>4. QED
    BY <1>1, <2>1, <2>2, <2>3 DEF LabelsCompatible, LabelMatches
<1>3. host \in [1..Len(a) -> Label \union {Star, NoLabel}]
  BY <1>1, <1>2 DEF Common
<1> HIDE DEF host
<1>4. host \in Host /\ Len(host) = Len(a)
  <2>1. host \in Seq(Label \union {Star, NoLabel}) /\ Len(host) = Len(a)
    BY <1>1, <1>3
  <2>2. QED
    BY <1>1, <2>1 DEF Host
<1>5. host # Nothing
  <2> SUFFICES ASSUME host = Nothing PROVE FALSE
    OBVIOUS
  <2>1. Len(a) = 1 /\ host[1] = NoLabel
    BY <1>4 DEF Nothing
  <2>2. a[1] = NoLabel
    BY <1>1, <1>2, <2>1 DEF LabelMatches
  <2>3. a = Nothing
    BY <1>1, <2>1, <2>2, LabelsTyped DEF Nothing, Glob
  <2>4. QED
    BY <2>3
<1>6. QED
  BY <1>1, <1>2, <1>4, <1>5 DEF HostMatches

\* One glob that is not empty and has no port is matched by some host.
LEMMA SomeHostMatches ==
  ASSUME NEW label \in Label, NEW glob \in Glob, glob # Nothing,
         \A i \in DOMAIN glob : glob[i] \notin PortLabel
  PROVE  \E host \in Host : HostMatches(glob, host)
<1>1. \A i \in DOMAIN glob : LabelsCompatible(glob[i], glob[i])
                             /\ {glob[i], glob[i]} # {Star, NoLabel}
  BY LabelAssumption DEF LabelsCompatible
<1>2. QED
  BY <1>1, CommonMatches

\* Whatever the globs are, HostGlobsOverlap overlooks no host that matches both, and it
\* is wrong only when one of them has a port, or a Star where the other has an empty
\* label: there it says yes although no host matches both.
THEOREM OverlapIsExact ==
  ASSUME Label # {}, NEW a \in Glob, NEW b \in Glob
  PROVE  (\E host \in Host : HostMatches(a, host) /\ HostMatches(b, host))
         <=> HostGlobsOverlap(a, b) /\ ~Unmeetable(a, b)
<1>1. ASSUME NEW host \in Host, HostMatches(a, host), HostMatches(b, host)
      PROVE  HostGlobsOverlap(a, b) /\ ~Unmeetable(a, b)
  BY <1>1, CommonHostOverlaps, SharedIsMeetable
<1>2. ASSUME HostGlobsOverlap(a, b), ~Unmeetable(a, b)
      PROVE  \E host \in Host : HostMatches(a, host) /\ HostMatches(b, host)
  <2>1. PICK label \in Label : TRUE
    OBVIOUS
  <2>2. /\ Nothing \notin {a, b}
        /\ \A i \in DOMAIN a : a[i] \notin PortLabel
        /\ \A i \in DOMAIN b : b[i] \notin PortLabel
    BY <1>2 DEF HostGlobsOverlap, Unmeetable
  <2>3. ASSUME NEW host \in Host, NEW glob, HostMatches(glob, host)
        PROVE  HostMatches(AnyHost, host)
    BY <2>3, LabelAssumption DEF HostMatches, AnyHost, Nothing
  <2>4. CASE a = AnyHost
    BY <2>1, <2>2, <2>3, <2>4, SomeHostMatches
  <2>5. CASE b = AnyHost
    BY <2>1, <2>2, <2>3, <2>5, SomeHostMatches
  <2>6. CASE AnyHost \notin {a, b}
    <3>1. Len(a) = Len(b) /\ \A i \in DOMAIN a : LabelsCompatible(a[i], b[i])
      BY <1>2, <2>6 DEF HostGlobsOverlap
    <3>2. DOMAIN a = DOMAIN b
      BY <3>1, LabelsTyped DEF Glob
    <3>3. \A i \in DOMAIN a : {a[i], b[i]} # {Star, NoLabel}
      BY <1>2, <2>6, <3>2 DEF Unmeetable
    <3>4. QED
      BY <2>1, <2>2, <3>1, <3>3, CommonMatches
  <2>7. QED
    BY <2>4, <2>5, <2>6
<1>3. QED
  BY <1>1, <1>2

-----------------------------------------------------------------------------
(* The load and the answers *)

\* What the environment says of a name, and of the names scanned so far.
Of(n) == [name |-> n, glob |-> environ[n].glob, user |-> environ[n].user]
Scanned == {Of(n) : n \in {m \in Names \ left : environ[m].is = "service"}}

Distinct(set) == \A s, t \in set : s.user = t.user => s = t

Fits == /\ Configured # {}
        /\ \A n \in Names : environ[n].is # "malformed"
        /\ Distinct(Configured)

\* The services are those of the scanned names, and a load that failed had to.
Scan ==
  /\ status # "failed" =>
       /\ services = Scanned /\ Distinct(services)
       /\ \A n \in Names \ left : environ[n].is # "malformed"
  /\ status = "serving" => left = {} /\ services # {}
  /\ status = "failed" => ~Fits

\* Answers are given when all services are known.
Answered ==
  \/ answer = Unasked
  \/ status = "serving" /\ \E req \in Request : answer = Answer(req)

IInv == TypeOK /\ Scan /\ Answered

\* A variable that holds a service gives one of Service.
LEMMA OfType ==
  ASSUME environ \in [Names -> Value], NEW n \in Names
  PROVE  /\ environ[n].is \in {"service", "blank", "malformed"}
         /\ environ[n].is = "service" => Of(n) \in Service
<1>1. environ[n] \in Value
  OBVIOUS
<1>2. QED
  BY <1>1 DEF Value, Of, Service

\* Configured, in the words of this module.
LEMMA ConfiguredIsAll == Configured = {Of(n) : n \in {m \in Names : environ[m].is = "service"}}
BY DEF Configured, Of

\* Nothing is scanned at first.
LEMMA InitIInv == Init => IInv
BY DEF Init, IInv, TypeOK, Scan, Answered, Scanned, Distinct

\* The load of one variable.
LEMMA LoadStep ==
  ASSUME IInv, NEW n \in Names, Load(n)
  PROVE  IInv'
<1> USE DEF IInv, Load
<1>1. /\ environ \in [Names -> Value] /\ UNCHANGED <<environ, answer>>
      /\ left' = left \ {n} /\ n \in left /\ left \subseteq Names /\ status = "loading"
  BY DEF TypeOK
<1>2. Answered'
  BY DEF Answered
<1>3. services = Scanned /\ Distinct(services)
      /\ \A m \in Names \ left : environ[m].is # "malformed"
  BY <1>1 DEF Scan
<1>4. Names \ left' = (Names \ left) \union {n}
  BY <1>1
<1>5. CASE environ[n].is = "blank" /\ UNCHANGED <<services, status>>
  <2>1. Scanned' = Scanned
    BY <1>1, <1>4, <1>5 DEF Scanned, Of
  <2>2. Scan'
    BY <1>1, <1>3, <1>4, <1>5, <2>1 DEF Scan, Distinct
  <2>3. TypeOK'
    BY <1>1, <1>5 DEF TypeOK
  <2>4. QED
    BY <1>2, <2>2, <2>3
<1>6. CASE environ[n].is = "malformed" /\ status' = "failed" /\ UNCHANGED services
  <2>1. ~Fits'
    BY <1>1, <1>6 DEF Fits
  <2>2. Scan'
    BY <1>6, <2>1 DEF Scan
  <2>3. TypeOK'
    BY <1>1, <1>6 DEF TypeOK
  <2>4. QED
    BY <1>2, <2>2, <2>3
<1>7. CASE environ[n].is = "service" /\ \E s \in services : s.user = environ[n].user
  <2>1. status' = "failed" /\ UNCHANGED services
    BY <1>7
  <2>2. PICK m \in Names \ left : environ[m].is = "service" /\ Of(m).user = environ[n].user
    BY <1>3, <1>7 DEF Scanned
  <2>3. Of(m) \in Configured /\ Of(n) \in Configured
    BY <1>1, <1>7, <2>2, ConfiguredIsAll
  <2>4. Of(m).user = Of(n).user /\ Of(m).name # Of(n).name
    BY <1>1, <2>2 DEF Of
  <2>5. ~Fits
    BY <2>3, <2>4 DEF Fits, Distinct
  <2>6. Fits' <=> Fits
    BY <1>1 DEF Fits, Distinct, Configured
  <2>7. Scan'
    BY <2>1, <2>5, <2>6 DEF Scan
  <2>8. TypeOK'
    BY <1>1, <2>1 DEF TypeOK
  <2>9. QED
    BY <1>2, <2>7, <2>8
<1>8. CASE environ[n].is = "service" /\ ~\E s \in services : s.user = environ[n].user
  <2>1. services' = services \union {Of(n)} /\ UNCHANGED status
    BY <1>8 DEF Of
  <2>2. Scanned' = Scanned \union {Of(n)}
    BY <1>1, <1>4, <1>8 DEF Scanned, Of
  <2>3. Of(n) \in Service /\ Of(n).user = environ[n].user
    BY <1>1, <1>8, OfType DEF Of
  <2>4. Distinct(services')
    BY <1>3, <1>8, <2>1, <2>3 DEF Distinct
  <2>5. Scan'
    BY <1>1, <1>3, <1>4, <1>8, <2>1, <2>2, <2>4 DEF Scan, Distinct
  <2>6. TypeOK'
    BY <1>1, <2>1, <2>3 DEF TypeOK
  <2>7. QED
    BY <1>2, <2>5, <2>6
<1>9. QED
  BY <1>5, <1>6, <1>7, <1>8

\* The end of the load: every name was scanned.
LEMMA LoadEndsStep ==
  ASSUME IInv, LoadEnds
  PROVE  IInv'
<1> USE DEF IInv, LoadEnds
<1>1. /\ status = "loading" /\ left = {} /\ UNCHANGED <<environ, left, services, answer>>
      /\ status' = IF services = {} THEN "failed" ELSE "serving"
  OBVIOUS
<1>2. Scanned = Configured /\ Scanned' = Scanned /\ (Fits' <=> Fits)
  BY <1>1, ConfiguredIsAll DEF Scanned, Of, Fits, Distinct, Configured
<1>3. services = Configured /\ Distinct(services) /\ \A n \in Names : environ[n].is # "malformed"
  BY <1>1, <1>2 DEF Scan
<1>4. Scan'
  BY <1>1, <1>2, <1>3 DEF Scan, Distinct, Fits
<1>5. TypeOK' /\ Answered'
  BY <1>1 DEF TypeOK, Answered, Unasked
<1>6. QED
  BY <1>4, <1>5

\* An answer 200 is for credentials of one service that the host matches.
LEMMA AnswerType ==
  ASSUME NEW req \in Request, services \subseteq Service, Distinct(services)
  PROVE  /\ Answer(req).request = req /\ Answer(req).as \in Users \union {NoUser}
         /\ Answer(req).reason = "ok" =>
              \E s \in services :
                /\ HostMatches(s.glob, req.host) /\ CheckBasicAuth(s, req.credentials)
                /\ Answer(req).as = s.user
<1> DEFINE matched == FindServicesForHost(req.host)
           opened  == {s \in matched : CheckBasicAuth(s, req.credentials)}
<1>1. \A s, t \in opened : s.user = t.user /\ s = t
  BY DEF FindServicesForHost, CheckBasicAuth, Distinct
<1>2. ASSUME NEW s \in opened
      PROVE  First(opened) = s
  <2>1. opened = {s}
    BY <1>1, <1>2
  <2>2. s.name <= s.name
    <3>1. s \in Service
      BY <1>2 DEF FindServicesForHost
    <3>2. s.name \in Nat
      BY <3>1, NamesAssumption DEF Service
    <3>3. QED
      BY <3>2
  <2> HIDE DEF opened
  <2>3. QED
    BY <2>1, <2>2 DEF First
<1>3. opened \subseteq services /\ \A s \in opened : s.user \in Users
  BY DEF FindServicesForHost, Service
<1>4. \A s \in opened : HostMatches(s.glob, req.host) /\ CheckBasicAuth(s, req.credentials)
  BY DEF FindServicesForHost
<1> HIDE DEF matched
<1>5. /\ Answer(req).request = req
      /\ Answer(req).reason = "ok" => opened # {} /\ Answer(req).as = First(opened).user
      /\ Answer(req).reason # "ok" => Answer(req).as = NoUser
  BY DEF Answer, matched
<1> HIDE DEF opened
<1>6. QED
  BY <1>2, <1>3, <1>4, <1>5

\* A request changes nothing but the answer.
LEMMA ProbeStep ==
  ASSUME IInv, Probe
  PROVE  IInv'
<1> USE DEF IInv, Probe
<1>1. /\ status = "serving" /\ UNCHANGED <<environ, left, services, status>>
      /\ services \subseteq Service /\ Distinct(services)
  BY DEF TypeOK, Scan
<1>2. PICK req \in Request : answer' = Answer(req)
  OBVIOUS
<1>3. Answer(req)' = Answer(req)
  BY <1>1 DEF Answer, FindServicesForHost
<1>4. Answered'
  BY <1>1, <1>2, <1>3 DEF Answered
<1>5. Scan'
  BY <1>1 DEF Scan, Scanned, Of, Distinct, Fits, Configured
<1>6. TypeOK'
  BY <1>1, <1>2, AnswerType DEF TypeOK
<1>7. QED
  BY <1>4, <1>5, <1>6

\* The invariant holds in every state of every run.
LEMMA Invariant == Spec => []IInv
<1>1. IInv /\ [Next]_vars => IInv'
  <2> SUFFICES ASSUME IInv, [Next]_vars PROVE IInv'
    OBVIOUS
  <2>1. CASE UNCHANGED vars
    <3>1. UNCHANGED <<environ, left, services, status, answer>>
      BY <2>1 DEF vars
    <3>2. TypeOK'
      BY <3>1 DEF IInv, TypeOK
    <3>3. Scan'
      BY <3>1 DEF IInv, Scan, Scanned, Of, Distinct, Fits, Configured
    <3>4. Answered'
      BY <3>1 DEF IInv, Answered, Answer, FindServicesForHost
    <3>5. QED
      BY <3>2, <3>3, <3>4 DEF IInv
  <2>2. QED
    BY <2>1, LoadStep, LoadEndsStep, ProbeStep DEF Next
<1>2. QED
  BY <1>1, InitIInv, PTL DEF Spec

\* Every variable keeps its type while services are loaded and requests answered.
THEOREM TypeCorrect == Spec => []TypeOK
<1>1. IInv => TypeOK
  BY DEF IInv
<1>2. QED
  BY <1>1, Invariant, PTL

\* For any environment, scanned in any order: whether the program starts, and with
\* which services, is decided by what the environment holds.
THEOREM LoadOrderless == Spec => []LoadIsOrderless
<1>1. IInv => LoadIsOrderless
  <2> SUFFICES ASSUME IInv PROVE LoadIsOrderless
    OBVIOUS
  <2>1. status = "serving" => Fits /\ services = Configured
    <3> SUFFICES ASSUME status = "serving" PROVE Fits /\ services = Configured
      OBVIOUS
    <3>1. services = Scanned /\ left = {} /\ services # {} /\ Distinct(services)
          /\ \A n \in Names : environ[n].is # "malformed"
      BY DEF IInv, Scan
    <3>2. Scanned = Configured
      BY <3>1, ConfiguredIsAll DEF Scanned
    <3>3. QED
      BY <3>1, <3>2 DEF Fits
  <2>2. status = "failed" => ~Fits
    BY DEF IInv, Scan
  <2>3. QED
    BY <2>1, <2>2 DEF LoadIsOrderless, Fits, Distinct
<1>2. QED
  BY <1>1, Invariant, PTL

\* However many services match a host, an answer 200 is for the right credentials of
\* the one service that has the user, and that service is meant by the host.
THEOREM OkForItsHost == Spec => []OkIsForItsHost
<1>1. IInv => OkIsForItsHost
  <2> SUFFICES ASSUME IInv, answer.reason = "ok" PROVE OkIsForItsHost
    BY DEF OkIsForItsHost
  <2>1. answer # Unasked
    BY DEF Unasked
  <2>2. PICK req \in Request : status = "serving" /\ answer = Answer(req)
    BY <2>1 DEF IInv, Answered
  <2>3. /\ services = Configured /\ services \subseteq Service /\ Distinct(services)
    <3>1. left = {} /\ services = Scanned /\ Distinct(services) /\ services \subseteq Service
      BY <2>2 DEF IInv, Scan, TypeOK
    <3>2. Scanned = Configured
      BY <3>1, ConfiguredIsAll DEF Scanned
    <3>3. QED
      BY <3>1, <3>2
  <2>4. PICK s \in services :
          /\ HostMatches(s.glob, req.host) /\ CheckBasicAuth(s, req.credentials)
          /\ answer.as = s.user /\ answer.request = req
    BY <2>2, <2>3, AnswerType
  <2> DEFINE owners == {t \in Configured : t.user = req.credentials.user}
  <2>5. owners = {s}
    BY <2>3, <2>4 DEF Distinct, CheckBasicAuth
  <2>6. Cardinality(owners) = 1
    BY <2>5, FS_Singleton
  <2>7. \A t \in owners : HostMatches(t.glob, req.host)
    BY <2>4, <2>5
  <2>8. answer.as = req.credentials.user /\ req.credentials.right
    BY <2>4 DEF CheckBasicAuth
  <2>9. QED
    BY <2>4, <2>6, <2>7, <2>8 DEF OkIsForItsHost
<1>2. QED
  BY <1>1, Invariant, PTL

\* For any hosts and globs: two services that one host could mean both of are warned of.
THEOREM AllOverlapsWarned == Spec => []OverlapsWarned
<1>1. TypeOK => OverlapsWarned
  <2> SUFFICES ASSUME TypeOK, NEW s \in services, NEW t \in services, s.name < t.name,
                      NEW host \in Hosts, HostMatches(s.glob, host), HostMatches(t.glob, host)
               PROVE  <<s, t>> \in OverlappingHostGlobPairs
    BY DEF OverlapsWarned, Shared
  <2>1. s.glob \in Glob /\ t.glob \in Glob /\ host \in Host
    BY HostsAssumption DEF TypeOK, Service
  <2>2. HostGlobsOverlap(s.glob, t.glob)
    BY <2>1, CommonHostOverlaps
  <2>3. QED
    BY <2>2 DEF OverlappingHostGlobPairs
<1>2. QED
  BY <1>1, TypeCorrect, PTL

\* Whatever host two configured globs share, Hosts has one that they share: it holds
\* when Hosts is Host, and of the hosts of the run "services".
HostsSuffice ==
  \A a, b \in Globs :
    (\E host \in Host : HostMatches(a, host) /\ HostMatches(b, host)) => Shared(a, b)

\* For any globs, whatever their labels: a warning at startup that no host bears out is
\* due to a port or to an empty label in one of the two globs.
THEOREM WarningsExplained ==
  ASSUME Label # {}, HostsSuffice
  PROVE  Spec => []OverlapsExplained
<1>1. TypeOK => OverlapsExplained
  <2> SUFFICES ASSUME TypeOK, NEW s \in services, NEW t \in services,
                      HostGlobsOverlap(s.glob, t.glob)
               PROVE  Shared(s.glob, t.glob) \/ Unmeetable(s.glob, t.glob)
    BY DEF OverlapsExplained, OverlappingHostGlobPairs
  <2>1. s.glob \in Globs /\ t.glob \in Globs /\ Globs \subseteq Glob
    BY HostsAssumption DEF TypeOK, Service
  <2>2. CASE ~Unmeetable(s.glob, t.glob)
    <3>1. \E host \in Host : HostMatches(s.glob, host) /\ HostMatches(t.glob, host)
      BY <2>1, <2>2, OverlapIsExact
    <3>2. QED
      BY <2>1, <3>1 DEF HostsSuffice
  <2>3. QED
    BY <2>2
<1>2. QED
  BY <1>1, TypeCorrect, PTL
=============================================================================
