---------------------------- MODULE FilterDomains ----------------------------
(***************************************************************************)
(* What runtime filter control promises, with no layers, locks or          *)
(* callbacks in sight.  There are two filter domains, "stdout" and "otlp". *)
(* Each has one active expression; the OTLP domain has none (None) until   *)
(* OTLP export runs.  A request either reads both domains, or replaces one *)
(* of them in a single step and then reads the other.  A response reports, *)
(* for each domain, the expression that was active at the instant the      *)
(* request looked at it.                                                   *)
(*                                                                         *)
(* FilterControl is shown to implement this module.                        *)
(***************************************************************************)
CONSTANTS
  Requests,     \* the requests sent to the log-control server
  WellFormed,   \* filter expressions that parse
  Malformed,    \* filter expressions that do not
  Unreliable,   \* domains that may refuse a well-formed expression
  None,         \* the absent value
  Unread        \* a response field not filled in yet

Domains == {"stdout", "otlp"}

\* What a request asks for: to read (both fields None) or to replace a domain.
Asks == [domain : {None}, filter : {None}]
          \cup [domain : Domains, filter : WellFormed \cup Malformed]

Answers == [status : {"open", "ok", "refused", "notFound"},
            stdout : WellFormed \cup {Unread},
            otlp   : WellFormed \cup {None, Unread}]

Blank == [status |-> "open", stdout |-> Unread, otlp |-> Unread]

VARIABLES
  active,   \* the expression each domain filters with
  pinned,   \* the environment chose the stdout expression at init
  asked,    \* what each request asks for, None before it is sent
  answer    \* the response to each request, as far as it is known

vars == <<active, pinned, asked, answer>>

TypeOK ==
  /\ active \in [stdout : WellFormed, otlp : WellFormed \cup {None}]
  /\ pinned \in BOOLEAN
  /\ asked \in [Requests -> Asks \cup {None}]
  /\ answer \in [Requests -> Answers]

Init ==
  /\ active \in [stdout : WellFormed, otlp : WellFormed \cup {None}]
  /\ pinned \in BOOLEAN
  /\ asked = [r \in Requests |-> None]
  /\ answer = [r \in Requests |-> Blank]

Ask(r) ==
  /\ asked[r] = None
  /\ \E ask \in Asks : asked' = [asked EXCEPT ![r] = ask]
  /\ UNCHANGED <<active, pinned, answer>>

\* The domain changes and the response is committed to it, in one step.
Put(r) ==
  /\ asked[r] # None
  /\ answer[r] = Blank
  /\ asked[r].filter \in WellFormed
  /\ active[asked[r].domain] # None
  /\ active' = [active EXCEPT ![asked[r].domain] = asked[r].filter]
  /\ answer' = [answer EXCEPT ![r][asked[r].domain] = asked[r].filter]
  /\ UNCHANGED <<pinned, asked>>

\* 400: nothing changes.
Refuse(r) ==
  /\ asked[r] # None
  /\ answer[r] = Blank
  /\ asked[r].filter # None
  /\ asked[r].filter \in Malformed \/ asked[r].domain \in Unreliable
  /\ answer' = [answer EXCEPT ![r].status = "refused"]
  /\ UNCHANGED <<active, pinned, asked>>

\* 404: only while OTLP export is not running.
NotFound(r) ==
  /\ asked[r] # None
  /\ answer[r] = Blank
  /\ asked[r].domain = "otlp"
  /\ active.otlp = None
  /\ answer' = [answer EXCEPT ![r].status = "notFound"]
  /\ UNCHANGED <<active, pinned, asked>>

\* The request looks at domain d; a response whose fields are all known is sent.
Observe(r, d) ==
  /\ asked[r] # None
  /\ answer[r].status = "open"
  /\ answer[r][d] = Unread
  /\ asked[r].domain = None \/ answer[r] # Blank
  /\ answer' = [answer EXCEPT
       ![r][d] = active[d],
       ![r].status = IF \E e \in Domains \ {d} : answer[r][e] = Unread
                     THEN "open" ELSE "ok"]
  /\ UNCHANGED <<active, pinned, asked>>

\* The late configuration replaces an unpinned stdout expression, or starts
\* the OTLP domain.
LateSet(d, f) ==
  /\ IF d = "stdout" THEN ~pinned ELSE active.otlp = None
  /\ active' = [active EXCEPT ![d] = f]
  /\ UNCHANGED <<pinned, asked, answer>>

Next ==
  \/ \E r \in Requests :
       \/ Ask(r)
       \/ Put(r)
       \/ Refuse(r)
       \/ NotFound(r)
       \/ \E d \in Domains : Observe(r, d)
  \/ \E d \in Domains, f \in WellFormed : LateSet(d, f)

Spec == Init /\ [][Next]_vars
=============================================================================
