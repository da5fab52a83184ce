------------------------------ MODULE Services ------------------------------
(***************************************************************************)
(* Which credentials open which host: LoadServicesFromEnv scans the        *)
(* environment, in whatever order the system lists it, and authProbe then  *)
(* decides by path, Origin, host and credentials.  What the flood engine   *)
(* and the whitelist make of the request is the matter of ForwardAuth,     *)
(* where the gates are the action Refuse and the credentials BasicAuth.    *)
(*                                                                         *)
(* Service names are numbers, in the order SortedServiceNames gives them.  *)
(* A password is right or wrong for its user's hash (bcrypt is external).  *)
(***************************************************************************)
EXTENDS HostGlob, FiniteSets

CONSTANTS
  Names,    \* the names X of the variables SERVICE_X
  Globs,    \* the host globs they may hold
  Users,    \* the user names they may hold
  NoUser,   \* no Remote-User in the answer
  Hosts,    \* the hosts a request may name
  Origins,  \* the entries of ALLOWED_ORIGINS, by their host part
  NoOrigin, \* a request without Origin header
  BadOrigin \* an Origin without a host part

ASSUME NamesAssumption == Names \subseteq Nat

ASSUME HostsAssumption ==
  Globs \subseteq Glob /\ Origins \subseteq Glob /\ Hosts \subseteq Host

VARIABLES
  environ,   \* what each variable holds: a service, nothing, or a malformed value
  left,      \* the names LoadServicesFromEnv has not come to
  services,  \* the services it has accepted
  status,    \* "loading", "failed" or "serving"
  answer     \* the latest request with its answer

vars == <<environ, left, services, status, answer>>

Service == [name: Names, glob: Globs, user: Users]
Value   == [is: {"service"}, glob: Globs, user: Users]
             \union [is: {"blank", "malformed"}]

Credentials == [is: {"basic"}, user: Users, right: BOOLEAN] \union [is: {"none"}]

Request == [path: BOOLEAN, origin: Hosts \union {NoOrigin, BadOrigin},
            host: Hosts, credentials: Credentials]

\* No request was answered yet.
Unasked == [reason |-> "unasked", request |-> {}, as |-> NoUser]

Init ==
  /\ environ \in [Names -> Value]
  /\ left = Names
  /\ services = {}
  /\ status = "loading"
  /\ answer = Unasked

-----------------------------------------------------------------------------
(* LoadServicesFromEnv *)

\* A plausible slip: the parts of the value are taken in the wrong order.
LoadSwapped(n) ==
  /\ status = "loading" /\ n \in left
  /\ left' = left \ {n}
  /\ \/ environ[n].is = "blank" /\ UNCHANGED <<services, status>>
     \/ environ[n].is = "malformed" /\ status' = "failed" /\ UNCHANGED services
     \/ /\ environ[n].is = "service"
        /\ services' = services \union
                         {[name |-> n, glob |-> environ[n].user, user |-> environ[n].glob]}
        /\ UNCHANGED status
  /\ UNCHANGED <<environ, answer>>

\* A plausible slip: user names may be used twice.
LoadUnchecked(n) ==
  /\ status = "loading" /\ n \in left
  /\ left' = left \ {n}
  /\ \/ environ[n].is = "blank" /\ UNCHANGED <<services, status>>
     \/ environ[n].is = "malformed" /\ status' = "failed" /\ UNCHANGED services
     \/ /\ environ[n].is = "service"
        /\ services' = services \union
                         {[name |-> n, glob |-> environ[n].glob, user |-> environ[n].user]}
        /\ UNCHANGED status
  /\ UNCHANGED <<environ, answer>>

\* One variable: blank ones are skipped, a malformed one or a user name that is
\* taken ends the load.
Load(n) ==
  /\ status = "loading" /\ n \in left
  /\ left' = left \ {n}
  /\ \/ environ[n].is = "blank" /\ UNCHANGED <<services, status>>
     \/ environ[n].is = "malformed" /\ status' = "failed" /\ UNCHANGED services
     \/ /\ environ[n].is = "service"
        /\ IF \E s \in services : s.user = environ[n].user
           THEN status' = "failed" /\ UNCHANGED services
           ELSE /\ services' = services \union
                     {[name |-> n, glob |-> environ[n].glob, user |-> environ[n].user]}
                /\ UNCHANGED status
  /\ UNCHANGED <<environ, answer>>

\* The scan is over; at least one service is required.
LoadEnds ==
  /\ status = "loading" /\ left = {}
  /\ status' = IF services = {} THEN "failed" ELSE "serving"
  /\ UNCHANGED <<environ, left, services, answer>>

\* OverlappingHostGlobPairs, for which Run logs a warning.
OverlappingHostGlobPairs ==
  {pair \in services \X services :
     pair[1].name < pair[2].name /\ HostGlobsOverlap(pair[1].glob, pair[2].glob)}

-----------------------------------------------------------------------------
(* authProbe *)

\* No list and no header enforce nothing; else some entry matches the host part.
OriginAllowed(origin) ==
  \/ Origins = {} \/ origin = NoOrigin
  \/ origin # BadOrigin /\ \E glob \in Origins : HostMatches(glob, origin)

\* A plausible slip: the host is not looked at.
FindAllServices(host) == services

FindServicesForHost(host) == {s \in services : HostMatches(s.glob, host)}

\* The service whose name comes first.
First(matched) == CHOOSE s \in matched : \A t \in matched : s.name <= t.name

CheckBasicAuth(s, credentials) ==
  credentials.is = "basic" /\ credentials.user = s.user /\ credentials.right

\* The gates in their order, then the credentials against every matched service.
Answer(req) ==
  LET matched == FindServicesForHost(req.host)
      opened  == {s \in matched : CheckBasicAuth(s, req.credentials)}
      reason  == IF ~req.path THEN "not_found"
                 ELSE IF ~OriginAllowed(req.origin) THEN "origin_not_allowed"
                 ELSE IF matched = {} THEN "no_service"
                 ELSE IF req.credentials.is = "none" THEN "no_credentials"
                 ELSE IF opened = {} THEN "auth_failed" ELSE "ok"
  IN [reason |-> reason, request |-> req,
      as |-> IF reason = "ok" THEN First(opened).user ELSE NoUser]

\* Requests leave nothing behind here, so each behaviour answers one.
Probe ==
  /\ status = "serving" /\ answer = Unasked
  /\ \E req \in Request : answer' = Answer(req)
  /\ UNCHANGED <<environ, left, services, status>>

Next == (\E n \in Names : Load(n)) \/ LoadEnds \/ Probe

Spec == Init /\ [][Next]_vars

-----------------------------------------------------------------------------
(* Properties *)

\* The services the environment holds, whichever order it is scanned in.
Configured ==
  {[name |-> n, glob |-> environ[n].glob, user |-> environ[n].user] :
     n \in {m \in Names : environ[m].is = "service"}}

\* Type invariant.
TypeOK ==
  /\ environ \in [Names -> Value]
  /\ left \subseteq Names
  /\ services \subseteq Service
  /\ status \in {"loading", "failed", "serving"}
  /\ \/ answer = Unasked
     \/ answer.request \in Request /\ answer.as \in Users \union {NoUser}

\* Whether the program starts, and with which services, does not depend on the order
\* in which the system lists the environment.
LoadIsOrderless ==
  LET fits == /\ Configured # {}
              /\ \A n \in Names : environ[n].is # "malformed"
              /\ \A s, t \in Configured : s.user = t.user => s = t
  IN /\ status = "serving" => fits /\ services = Configured
     /\ status = "failed" => ~fits

\* Right credentials open only hosts of the one service they belong to, and the
\* answer names its user (README: services share no username).
OkIsForItsHost ==
  answer.reason = "ok" =>
    LET req    == answer.request
        owners == {s \in Configured : s.user = req.credentials.user}
    IN /\ answer.as = req.credentials.user /\ req.credentials.right
       /\ Cardinality(owners) = 1
       /\ \A s \in owners : HostMatches(s.glob, req.host)

\* Some host means both of two globs.
Shared(a, b) == \E host \in Hosts : HostMatches(a, host) /\ HostMatches(b, host)

\* Startup warns of every two services that some host could mean both of.
OverlapsWarned ==
  status = "serving" =>
    \A s, t \in services :
      s.name < t.name /\ Shared(s.glob, t.glob) => <<s, t>> \in OverlappingHostGlobPairs

\* Two globs that no host can mean both of, whatever their other labels are: one has a
\* port, or one has a Star where the other has an empty label.
Unmeetable(a, b) ==
  \/ \E i \in DOMAIN a : a[i] \in PortLabel
  \/ \E i \in DOMAIN b : b[i] \in PortLabel
  \/ /\ AnyHost \notin {a, b}
     /\ \E i \in DOMAIN a \intersect DOMAIN b : {a[i], b[i]} = {Star, NoLabel}

\* Startup warns in vain of two services only for a port or an empty label in a glob;
\* every other warning has a host that could mean both.
OverlapsExplained ==
  status = "serving" =>
    \A pair \in OverlappingHostGlobPairs :
      Shared(pair[1].glob, pair[2].glob) \/ Unmeetable(pair[1].glob, pair[2].glob)
=============================================================================
